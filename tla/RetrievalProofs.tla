-------------------------- MODULE RetrievalProofs --------------------------
(***************************************************************************)
(* Proofs about the read path, for every corpus, number of searches and    *)
(* number of writes of the other process.  Splitting a control into chunks *)
(* loses nothing of it; every variable keeps its type; the vectors a       *)
(* search compares are of one model; what a search returns follows the     *)
(* ranks and the thresholds; what a context cites is in it.                *)
(*                                                                         *)
(* The order is that of the pipeline: induction and folds, splitting,      *)
(* fractions, sorting, fusion, reranking, diversity, assembly, and last    *)
(* the invariant that carries an answer from the step that ranks it to the *)
(* step that hands it back.  For the models of the vectors the rankings    *)
(* stay unexpanded: all that is used of them is where their rows are from. *)
(***************************************************************************)
EXTENDS Retrieval, FiniteSetTheorems, FunctionTheorems, SequenceTheorems,
        WellFoundedInduction, TLAPS

-----------------------------------------------------------------------------
\* Induction: over numbers, over sets of numbers, and over the folds of a sequence,
\* which go through the subsets of its places, greatest place first.

LEMMA LeastNumber ==
    ASSUME NEW T, T \subseteq Nat, T # {}
    PROVE  \E x \in T : \A y \in T : x <= y
<1> DEFINE R == {p \in Nat \X Nat : p[1] < p[2]}
<1>1. IsWellFoundedOn(R, Nat)
  BY NatLessThanWellFounded DEF OpToRel
<1>2. \E x \in T : \A y \in T : ~(<<y, x>> \in R)
  <2> HIDE DEF R
  <2>1. QED
    BY <1>1, WFMin
<1>3. PICK x \in T : \A y \in T : ~(<<y, x>> \in R)
  BY <1>2
<1>4. ASSUME NEW y \in T
      PROVE  x <= y
  <2>1. x \in Nat /\ y \in Nat
    BY <1>3
  <2>2. ~(y < x)
    BY <1>3, <2>1
  <2>3. QED
    BY <2>1, <2>2
<1>5. QED
  BY <1>3, <1>4

\* A claim about the numbers up to n that holds of 0 and of the successor of
\* every number it holds of.
LEMMA UpTo ==
    ASSUME NEW n \in Nat, NEW T, 0 \in T, \A i \in 1..n : i - 1 \in T => i \in T
    PROVE  \A i \in 0..n : i \in T
<1> SUFFICES ASSUME \E i \in 0..n : i \notin T
             PROVE  FALSE
  OBVIOUS
<1> DEFINE Bad == {i \in 0..n : i \notin T}
<1>1. PICK i \in Bad : \A j \in Bad : i <= j
  <2>1. Bad # {} /\ Bad \subseteq Nat
    OBVIOUS
  <2> HIDE DEF Bad
  <2>2. QED
    BY <2>1, LeastNumber
<1>2. i \in 1..n
  OBVIOUS
<1>3. i - 1 \in 0..n /\ ~(i <= i - 1)
  BY <1>2
<1>4. i - 1 \in T
  BY <1>1, <1>3
<1>5. QED
  BY <1>1, <1>2, <1>4

LEMMA LeastSubset ==
    ASSUME NEW S, IsFiniteSet(S), NEW B, B \subseteq SUBSET S, B # {}
    PROVE  \E T \in B : \A U \in SUBSET T : U # T => U \notin B
<1> DEFINE R == StrictSubsetOrdering(S)
<1>1. IsWellFoundedOn(R, SUBSET S)
  BY FS_StrictSubsetOrderingWellFounded, FS_FiniteSubsetsOfFinite
<1>2. \E T \in B : \A U \in B : ~(<<U, T>> \in R)
  <2> HIDE DEF R
  <2>1. QED
    BY <1>1, WFMin
<1>3. PICK T \in B : \A U \in B : ~(<<U, T>> \in R)
  BY <1>2
<1>4. ASSUME NEW U \in SUBSET T, U # T, U \in B
      PROVE  FALSE
  <2>1. <<U, T>> \in (SUBSET S) \X (SUBSET S)
    BY <1>3, <1>4
  <2>2. <<U, T>> \in R
    BY <2>1, <1>4 DEF StrictSubsetOrdering
  <2>3. QED
    BY <1>3, <1>4, <2>2
<1>5. QED
  BY <1>3, <1>4

\* The greatest of some numbers.
LEMMA MaxIn ==
    ASSUME NEW n \in Nat, NEW s \in SUBSET (1..n), s # {}
    PROVE  Max(s) \in s /\ \A y \in s : Max(s) >= y
<1> DEFINE T == {n - x : x \in s}
<1>1. PICK m \in T : \A y \in T : m <= y
  <2>1. \A x \in s : n - x \in Nat
    OBVIOUS
  <2>2. T \subseteq Nat /\ T # {}
    BY <2>1
  <2> HIDE DEF T
  <2>3. QED
    BY <2>2, LeastNumber
<1>2. PICK x \in s : m = n - x
  BY <1>1
<1>3. \A y \in s : x >= y
  <2>1. \A y \in s : n - x <= n - y
    BY <1>1, <1>2
  <2>2. QED
    BY <2>1
<1>4. QED
  BY <1>3 DEF Max

LEMMA MaxOfSection ==
    ASSUME NEW i \in Nat \ {0}
    PROVE  Max(1..i) = i /\ (1..i) \ {i} = 1..(i - 1)
<1>1. i \in 1..i /\ 1..i # {} /\ 1..i \in SUBSET (1..i)
  OBVIOUS
<1>2. Max(1..i) \in 1..i /\ \A y \in 1..i : Max(1..i) >= y
  BY <1>1, MaxIn
<1>3. QED
  BY <1>1, <1>2

\* A claim about sets of numbers that holds of the empty set, and of a set if it
\* holds of that set without its greatest number.
LEMMA OnSubsets ==
    ASSUME NEW n \in Nat, NEW Good, {} \in Good,
           \A s \in SUBSET (1..n) : s # {} /\ s \ {Max(s)} \in Good => s \in Good
    PROVE  SUBSET (1..n) \subseteq Good
<1> DEFINE Bad == {s \in SUBSET (1..n) : s \notin Good}
<1> SUFFICES ASSUME Bad # {}
             PROVE  FALSE
  OBVIOUS
<1>1. PICK s \in Bad : \A u \in SUBSET s : u # s => u \notin Bad
  <2>1. Bad \subseteq SUBSET (1..n)
    OBVIOUS
  <2>2. IsFiniteSet(1..n)
    BY FS_Interval
  <2>3. Bad # {}
    OBVIOUS
  <2> DEFINE S == 1..n
  <2> HIDE DEF Bad, S
  <2>4. IsFiniteSet(S) /\ Bad \subseteq SUBSET S
    BY <2>1, <2>2 DEF S
  <2>5. QED
    BY <2>3, <2>4, LeastSubset
<1>2. s \in SUBSET (1..n) /\ s \notin Good /\ s # {}
  OBVIOUS
<1>3. s \ {Max(s)} \in SUBSET s /\ s \ {Max(s)} # s
  <2>1. Max(s) \in s
    BY <1>2, MaxIn
  <2>2. QED
    BY <2>1
<1>4. s \ {Max(s)} \in Good
  BY <1>1, <1>2, <1>3
<1>5. QED
  BY <1>2, <1>4

\* f is the recursive function that a fold over 1..n evaluates on the subsets of
\* S, for a step given as a function.
IsFold(f, S, base, step) ==
    f = [s \in SUBSET S |-> IF s = {} THEN base ELSE step[<<f[s \ {Max(s)}], Max(s)>>]]

\* Two such functions agree wherever both are defined ...
LEMMA FoldsAgree ==
    ASSUME NEW n \in Nat, NEW base, NEW step, NEW S \in SUBSET (1..n), NEW U \in SUBSET S,
           NEW f, NEW g, IsFold(f, S, base, step), IsFold(g, U, base, step)
    PROVE  f[U] = g[U]
<1> DEFINE Good == {s \in SUBSET (1..n) : s \in SUBSET U => f[s] = g[s]}
<1>1. \A s \in SUBSET U :
          /\ f[s] = IF s = {} THEN base ELSE step[<<f[s \ {Max(s)}], Max(s)>>]
          /\ g[s] = IF s = {} THEN base ELSE step[<<g[s \ {Max(s)}], Max(s)>>]
  BY DEF IsFold
<1>2. {} \in Good
  BY <1>1
<1>3. ASSUME NEW s \in SUBSET (1..n), s # {}, s \ {Max(s)} \in Good
      PROVE  s \in Good
  BY <1>1, <1>3
<1>4. SUBSET (1..n) \subseteq Good
  <2> HIDE DEF Good
  <2>1. QED
    BY <1>2, <1>3, OnSubsets
<1>5. QED
  BY <1>4

\* ... and there is one.
LEMMA FoldsExist ==
    ASSUME NEW n \in Nat, NEW base, NEW step
    PROVE  \E f : IsFold(f, 1..n, base, step)
<1> DEFINE Bad == {S \in SUBSET (1..n) : ~\E f : IsFold(f, S, base, step)}
           Fun(S) == CHOOSE f : IsFold(f, S, base, step)
<1> SUFFICES ASSUME ~\E f : IsFold(f, 1..n, base, step)
             PROVE  FALSE
  OBVIOUS
<1>1. PICK S \in Bad : \A U \in SUBSET S : U # S => U \notin Bad
  <2>1. Bad # {}
    <3>1. 1..n \in Bad
      OBVIOUS
    <3>2. QED
      BY <3>1
  <2>2. Bad \subseteq SUBSET (1..n)
    OBVIOUS
  <2>3. IsFiniteSet(1..n)
    BY FS_Interval
  <2> HIDE DEF Bad
  <2>4. QED
    BY <2>1, <2>2, <2>3, LeastSubset
<1>2. S \in SUBSET (1..n)
  BY <1>1
<1>3. \A U \in SUBSET S : U # S => IsFold(Fun(U), U, base, step)
  BY <1>1, <1>2
<1> DEFINE g == [s \in SUBSET S |-> IF s = {} THEN base
                                    ELSE step[<<Fun(s \ {Max(s)})[s \ {Max(s)}], Max(s)>>]]
<1>4. ASSUME NEW s \in SUBSET S, s # S
      PROVE  g[s] = Fun(s)[s]
  <2> DEFINE m == Max(s)
             r == s \ {m}
             h == Fun(s)
             k == Fun(r)
  <2>1. IsFold(h, s, base, step)
    BY <1>3, <1>4
  <2>2. h[s] = IF s = {} THEN base ELSE step[<<h[r], m>>]
    <3> HIDE DEF h
    <3>1. QED
      BY <2>1 DEF IsFold
  <2>3. CASE s = {}
    BY <2>2, <2>3
  <2>4. CASE s # {}
    <3>1. m \in s
      BY <1>2, <2>4, MaxIn
    <3>2. r \in SUBSET S /\ r # S /\ r \in SUBSET s
      BY <3>1
    <3>3. IsFold(k, r, base, step)
      <4> HIDE DEF r
      <4>1. QED
        BY <1>3, <3>2
    <3>4. h[r] = k[r]
      <4>1. s \in SUBSET (1..n)
        BY <1>2
      <4> HIDE DEF r, h, k
      <4>2. QED
        BY <2>1, <3>2, <3>3, <4>1, FoldsAgree, SMTT(30)
    <3>5. g[s] = step[<<k[r], m>>]
      BY <2>4
    <3>6. QED
      BY <2>2, <2>4, <3>4, <3>5
  <2>5. QED
    BY <2>3, <2>4
<1>5. IsFold(g, S, base, step)
  <2>1. ASSUME NEW s \in SUBSET S, s # {}
        PROVE  g[s \ {Max(s)}] = Fun(s \ {Max(s)})[s \ {Max(s)}]
    <3>1. s \ {Max(s)} \in SUBSET S /\ s \ {Max(s)} # S
      BY <1>2, <2>1, MaxIn
    <3> HIDE DEF g, Fun
    <3>2. QED
      BY <3>1, <1>4
  <2> HIDE DEF Fun
  <2>2. g = [s \in SUBSET S |-> IF s = {} THEN base ELSE step[<<g[s \ {Max(s)}], Max(s)>>]]
    BY <2>1
  <2>3. QED
    BY <2>2 DEF IsFold
<1>6. QED
  BY <1>1, <1>5

\* What it computes on the first i numbers.
LEMMA FoldSteps ==
    ASSUME NEW n \in Nat, NEW base, NEW step, NEW f, IsFold(f, 1..n, base, step)
    PROVE  /\ f[1..0] = base
           /\ \A i \in 1..n : f[1..i] = step[<<f[1..(i - 1)], i>>]
<1>1. f[1..0] = base
  BY DEF IsFold
<1>2. ASSUME NEW i \in 1..n
      PROVE  f[1..i] = step[<<f[1..(i - 1)], i>>]
  <2>1. i \in Nat /\ 1 <= i /\ i <= n
    OBVIOUS
  <2>4. 1..i \in SUBSET (1..n) /\ i \in 1..i
    BY <2>1
  <2>2. Max(1..i) = i /\ (1..i) \ {i} = 1..(i - 1)
    BY MaxOfSection
  <2>3. QED
    BY <2>2, <2>4 DEF IsFold
<1>3. QED
  BY <1>1, <1>2

LEMMA FoldTyped ==
    ASSUME NEW n \in Nat, NEW base, NEW step, NEW f, IsFold(f, 1..n, base, step),
           NEW A, base \in A, \A a \in A, i \in 1..n : step[<<a, i>>] \in A
    PROVE  \A s \in SUBSET (1..n) : f[s] \in A
<1> DEFINE Good == {s \in SUBSET (1..n) : f[s] \in A}
<1>1. \A s \in SUBSET (1..n) :
          f[s] = IF s = {} THEN base ELSE step[<<f[s \ {Max(s)}], Max(s)>>]
  BY DEF IsFold
<1>2. {} \in Good
  BY <1>1
<1>3. ASSUME NEW s \in SUBSET (1..n), s # {}, s \ {Max(s)} \in Good
      PROVE  s \in Good
  BY <1>1, <1>3, MaxIn
<1>4. SUBSET (1..n) \subseteq Good
  <2> HIDE DEF Good
  <2>1. QED
    BY <1>2, <1>3, OnSubsets
<1>5. QED
  BY <1>4

-----------------------------------------------------------------------------
\* Sequences.

LEMMA AppendIs ==
    ASSUME NEW A, NEW s \in Seq(A), NEW x \in A
    PROVE  /\ Append(s, x) \in Seq(A) /\ Len(Append(s, x)) = Len(s) + 1
           /\ Append(s, x)[Len(s) + 1] = x
           /\ \A i \in 1..Len(s) : Append(s, x)[i] = s[i]
OBVIOUS

\* A concatenation that the provers do not look into.
Joined(s, t) == s \o t

LEMMA JoinedFacts ==
    ASSUME NEW A, NEW s \in Seq(A), NEW t \in Seq(A)
    PROVE  /\ Joined(s, t) \in Seq(A)
           /\ Len(Joined(s, t)) = Len(s) + Len(t)
           /\ Joined(<<>>, t) = t
           /\ \A x \in A : Append(Joined(s, t), x) = Joined(s, Append(t, x))
           /\ t # <<>> => Joined(s, t) # <<>>
<1>1. Joined(s, t) \in Seq(A) /\ Len(Joined(s, t)) = Len(s) + Len(t)
  BY ConcatProperties DEF Joined
<1>2. Joined(<<>>, t) = t
  BY ConcatEmptySeq DEF Joined
<1>3. ASSUME NEW x \in A
      PROVE  Append(s \o t, x) = s \o Append(t, x)
  OBVIOUS
<1>4. t # <<>> => Joined(s, t) # <<>>
  BY ConcatEqualIffEmpty DEF Joined
<1>5. QED
  BY <1>1, <1>2, <1>3, <1>4 DEF Joined

LEMMA LastOfFacts ==
    ASSUME NEW A, NEW text \in Seq(A), NEW k \in Nat
    PROVE  /\ LastOf(text, k) \in Seq(A)
           /\ Len(LastOf(text, k)) <= k /\ Len(LastOf(text, k)) <= Len(text)
<1>1. Len(text) \in Nat
  OBVIOUS
<1> DEFINE lo == IF k < Len(text) THEN Len(text) - k + 1 ELSE 1
<1>2. lo \in Int /\ 1 <= lo
  BY <1>1
<1>3. \A i \in lo..Len(text) : text[i] \in A
  <2> HIDE DEF lo
  <2>1. QED
    BY <1>1, <1>2
<1>4. /\ SubSeq(text, lo, Len(text)) \in Seq(A)
      /\ Len(SubSeq(text, lo, Len(text))) = IF lo <= Len(text) THEN Len(text) - lo + 1 ELSE 0
  <2> HIDE DEF lo
  <2>1. QED
    BY <1>1, <1>2, <1>3, SubSeqProperties
<1>5. QED
  BY <1>1, <1>4 DEF LastOf

LEMMA OneOf ==
    ASSUME NEW A, NEW text \in Seq(A), NEW k \in 1..Len(text)
    PROVE  SubSeq(text, k, k) = <<text[k]>>
<1>1. k \in k..Len(text) /\ k \in Int
  OBVIOUS
<1>2. SubSeq(text, k, k) = <<text[k]>> \o SubSeq(text, k + 1, k)
  BY <1>1, SubSeqRecursiveFirst
<1>3. SubSeq(text, k + 1, k) = <<>>
  BY <1>1, SubSeqEmpty
<1>4. text[k] \in A
  BY ElementOfSeq
<1>5. <<text[k]>> \o <<>> = <<text[k]>>
  BY <1>4, ConcatEmptySeq
<1>6. QED
  BY <1>2, <1>3, <1>5

\* What a concatenation begins and ends with.
LEMMA ConcatParts ==
    ASSUME NEW A, NEW s \in Seq(A), NEW t \in Seq(A)
    PROVE  /\ SubSeq(Joined(s, t), Len(s) + 1, Len(Joined(s, t))) = t
           /\ IsPrefix(s, Joined(s, t))
<1>1. /\ s \o t \in Seq(A) /\ Len(s \o t) = Len(s) + Len(t)
      /\ Len(s) \in Nat /\ Len(t) \in Nat
  BY ConcatProperties
<1>2. SubSeq(s \o t, Len(s) + 1, Len(s \o t)) = t
  <2>1. CASE t = <<>>
    BY <1>1, <2>1, SubSeqEmpty
  <2>2. CASE t # <<>>
    <3>1. Len(t) >= 1
      BY <2>2, EmptySeq
    <3>2. /\ Len(s) + 1 \in Len(s) + 1 .. Len(s) + Len(t)
          /\ Len(s) + Len(t) \in Len(s) + 1 .. Len(s) + Len(t)
      BY <1>1, <3>1
    <3>3. SubSeq(s \o t, Len(s) + 1, Len(s) + Len(t))
              = SubSeq(t, Len(s) + 1 - Len(s), Len(s) + Len(t) - Len(s))
      BY <3>2, SubSeqOfConcat2
    <3>4. SubSeq(t, 1, Len(t)) = t
      BY SubSeqFull
    <3>5. Len(s) + 1 - Len(s) = 1 /\ Len(s) + Len(t) - Len(s) = Len(t)
      BY <1>1
    <3>6. QED
      BY <1>1, <3>3, <3>4, <3>5
  <2>3. QED
    BY <2>1, <2>2
<1>3. SubSeq(s, 1, Len(s)) = SubSeq(s \o t, 1, Len(s))
  <2>1. CASE s = <<>>
    <3>1. Len(s) = 0
      BY <2>1
    <3>2. QED
      BY <3>1, SubSeqEmpty
  <2>2. CASE s # <<>>
    <3>1. 1 \in 1..Len(s) /\ Len(s) \in 1..Len(s)
      BY <1>1, <2>2, EmptySeq
    <3>2. QED
      BY <3>1, SubSeqOfConcat1
  <2>3. QED
    BY <2>1, <2>2
<1>4. QED
  BY <1>1, <1>2, <1>3 DEF IsPrefix, Joined

-----------------------------------------------------------------------------
\* SplitSummary.

Empty == [groups |-> <<>>, current |-> <<>>]
Splits == [groups : Seq(Seq(Sentence)), current : Seq(Sentence)]

LEMMA AddSentenceType ==
    ASSUME NEW done \in Splits, NEW s \in Sentence, NEW max, NEW overlap \in Nat
    PROVE  AddSentence(done, s, max, overlap) \in Splits
<1>1. LastOf(done.current, overlap) \in Seq(Sentence)
  BY LastOfFacts DEF Splits
<1>2. /\ Append(done.current, s) \in Seq(Sentence)
      /\ Opened(done.current, s, overlap) \in Seq(Sentence)
      /\ Append(done.groups, done.current) \in Seq(Seq(Sentence))
  BY <1>1, AppendProperties DEF Splits, Opened
<1>3. QED
  BY <1>2 DEF AddSentence, Splits

LEMMA SplitFold ==
    ASSUME NEW text \in Seq(Sentence), NEW max, NEW overlap \in Nat
    PROVE  \E h : /\ h[0] = Empty
                  /\ \A i \in 1..Len(text) :
                        h[i] = AddSentence(h[i - 1], text[i], max, overlap)
                  /\ SplitSummary(text, max, overlap) =
                        IF EstimateTokens(CharsOf(text)) <= max THEN <<text>>
                        ELSE Append(h[Len(text)].groups, h[Len(text)].current)
<1> DEFINE n == Len(text)
           Next1(a, i) == AddSentence(a, text[i], max, overlap)
           step == [p \in Splits \X (1..n) |-> Next1(p[1], p[2])]
           Recursive(f) == f = [s \in SUBSET (1..n) |->
                                   IF s = {} THEN Empty
                                   ELSE AddSentence(f[s \ {Max(s)}], text[Max(s)], max, overlap)]
           chosen == CHOOSE f : Recursive(f)
<1>1. n \in Nat /\ DOMAIN text = 1..n
  OBVIOUS
<1>2. \A a \in Splits, i \in 1..n : step[<<a, i>>] = Next1(a, i) /\ Next1(a, i) \in Splits
  <2>1. \A a \in Splits, i \in 1..n : Next1(a, i) \in Splits
    BY AddSentenceType
  <2>2. QED
    BY <2>1
<1>3. Empty \in Splits
  BY DEF Empty, Splits
<1>4. Recursive(chosen)
  <2>1. PICK f : IsFold(f, 1..n, Empty, step)
    <3> HIDE DEF step
    <3>1. QED
      BY <1>1, FoldsExist
  <2>2. \A s \in SUBSET (1..n) : f[s] \in Splits
    <3> HIDE DEF step, Next1
    <3>1. QED
      BY <1>1, <1>2, <1>3, <2>1, FoldTyped
  <2>3. ASSUME NEW s \in SUBSET (1..n), s # {}
        PROVE  step[<<f[s \ {Max(s)}], Max(s)>>] =
                   AddSentence(f[s \ {Max(s)}], text[Max(s)], max, overlap)
    <3>1. Max(s) \in 1..n /\ s \ {Max(s)} \in SUBSET (1..n)
      BY <1>1, <2>3, MaxIn
    <3>2. f[s \ {Max(s)}] \in Splits
      BY <2>2, <3>1
    <3> HIDE DEF step
    <3>3. QED
      BY <1>2, <3>1, <3>2
  <2>4. Recursive(f)
    <3> HIDE DEF step
    <3>1. QED
      BY <2>1, <2>3 DEF IsFold
  <2>5. QED
    BY <2>4
<1>5. SplitSummary(text, max, overlap) =
          IF EstimateTokens(CharsOf(text)) <= max THEN <<text>>
          ELSE Append(chosen[1..n].groups, chosen[1..n].current)
  BY <1>1 DEF SplitSummary, FoldLeft, MapThenFoldSet, Empty
<1> DEFINE h == [i \in 0..n |-> chosen[1..i]]
<1>6. h[0] = Empty
  <2>1. chosen[{}] = Empty
    <3> HIDE DEF chosen
    <3>1. QED
      BY <1>4
  <2>2. 1..0 = {}
    OBVIOUS
  <2>3. QED
    BY <1>1, <2>1, <2>2
<1>7. ASSUME NEW i \in 1..n
      PROVE  h[i] = AddSentence(h[i - 1], text[i], max, overlap)
  <2>1. i \in Nat \ {0} /\ 1 <= i /\ i <= n
    BY <1>1
  <2>2. Max(1..i) = i /\ (1..i) \ {i} = 1..(i - 1)
    BY <2>1, MaxOfSection
  <2>3. 1..i \in SUBSET (1..n) /\ 1..i # {}
    <3>1. i \in 1..i
      BY <2>1
    <3>2. \A x \in 1..i : x \in 1..n
      BY <1>1, <2>1
    <3>3. QED
      BY <3>1, <3>2
  <2>4. chosen[1..i] = AddSentence(chosen[1..(i - 1)], text[i], max, overlap)
    <3> HIDE DEF chosen
    <3>1. QED
      BY <1>4, <2>2, <2>3
  <2>5. i \in 0..n /\ i - 1 \in 0..n
    BY <2>1
  <2>6. QED
    BY <2>4, <2>5
<1>8. h[n] = chosen[1..n]
  BY <1>1
<1> HIDE DEF h, chosen
<1>9. QED
  BY <1>5, <1>6, <1>7, <1>8

\* Part i repeats the end of part i - 1 and goes on with the sentences of text
\* after e[i - 1] up to e[i]; it is over the cap only if it adds one sentence.
PartIs(text, p, e, i, max, overlap) ==
    LET before == IF i = 1 THEN <<>> ELSE LastOf(p[i - 1], overlap)
    IN  /\ e[i - 1] \in Nat /\ e[i] \in Nat /\ e[i - 1] < e[i] /\ e[i] <= Len(text)
        /\ p[i] = Joined(before, SubSeq(text, e[i - 1] + 1, e[i]))
        /\ \/ ~(EstimateTokens(CharsOf(p[i])) > max)
           \/ e[i] = e[i - 1] + 1 /\ Len(p[i]) <= overlap + 1

\* p is a split of the first k sentences of text, which ends its parts at e.
IsSplit(text, p, e, k, max, overlap) ==
    /\ p \in Seq(Seq(Sentence)) /\ Len(p) >= 1
    /\ DOMAIN e = 0..Len(p) /\ e[0] = 0 /\ e[Len(p)] = k
    /\ \A i \in 1..Len(p) : PartIs(text, p, e, i, max, overlap)

LEMMA SplitStep ==
    ASSUME NEW text \in Seq(Sentence), NEW max, NEW overlap \in Nat,
           NEW k \in 1..Len(text), NEW done \in Splits, NEW e,
           k > 1, IsSplit(text, Append(done.groups, done.current), e, k - 1, max, overlap)
    PROVE  LET new == AddSentence(done, text[k], max, overlap)
           IN  /\ new \in Splits
               /\ \E x : IsSplit(text, Append(new.groups, new.current), x, k, max, overlap)
<1> DEFINE s == text[k]
           m == Len(done.groups)
           p == Append(done.groups, done.current)
           new == AddSentence(done, s, max, overlap)
           q == Append(new.groups, new.current)
           before == IF m = 0 THEN <<>> ELSE LastOf(p[m], overlap)
           last == SubSeq(text, e[m] + 1, k - 1)
<1>1. s \in Sentence /\ Len(text) \in Nat /\ k \in Nat /\ 1 < k /\ k <= Len(text)
  BY ElementOfSeq
<1>2. /\ done.groups \in Seq(Seq(Sentence)) /\ done.current \in Seq(Sentence)
      /\ m \in Nat /\ p \in Seq(Seq(Sentence)) /\ Len(p) = m + 1
      /\ p[m + 1] = done.current /\ \A i \in 1..m : p[i] = done.groups[i]
  BY DEF Splits
<1>3. new \in Splits
  BY <1>1, AddSentenceType
<1>4. /\ e[m] \in Nat /\ e[m] < k - 1 /\ e[m + 1] = k - 1 /\ e[0] = 0
      /\ done.current = Joined(before, last)
      /\ DOMAIN e = 0..(m + 1)
  <2>1. m + 1 \in 1..Len(p) /\ m + 1 - 1 = m /\ (m + 1 = 1 <=> m = 0)
    BY <1>2
  <2>2. /\ e[0] = 0 /\ e[Len(p)] = k - 1 /\ DOMAIN e = 0..Len(p)
        /\ PartIs(text, p, e, m + 1, max, overlap)
    BY <2>1 DEF IsSplit
  <2> HIDE DEF p
  <2>3. /\ e[m] \in Nat /\ e[m] < e[m + 1]
        /\ p[m + 1] = Joined(IF m + 1 = 1 THEN <<>> ELSE LastOf(p[m], overlap),
                              SubSeq(text, e[m] + 1, e[m + 1]))
    BY <2>1, <2>2 DEF PartIs
  <2>4. QED
    BY <1>2, <2>1, <2>2, <2>3
<1>5. /\ before \in Seq(Sentence)
      /\ \A a \in 1..Len(text), b \in 0..Len(text) : SubSeq(text, a, b) \in Seq(Sentence)
  <2>1. CASE m = 0
    BY <2>1
  <2>2. CASE m # 0
    <3>1. m \in 1..Len(p)
      BY <1>2, <2>2
    <3>2. p[m] \in Seq(Sentence)
      BY <1>2, <3>1, ElementOfSeq
    <3>3. QED
      BY <2>2, <3>2, LastOfFacts
  <2>3. ASSUME NEW a \in 1..Len(text), NEW b \in 0..Len(text)
        PROVE  SubSeq(text, a, b) \in Seq(Sentence)
    <3>1. \A i \in a..b : text[i] \in Sentence
      BY <1>1, ElementOfSeq
    <3>2. QED
      BY <1>1, <3>1, SubSeqProperties
  <2>4. QED
    BY <2>1, <2>2, <2>3
<1>6. CASE done.current # <<>> /\ EstimateTokens(CharsOf(Append(done.current, s))) > max
  <2>1. new = [groups |-> p, current |-> Append(LastOf(done.current, overlap), s)]
    BY <1>6 DEF AddSentence, Opened
  <2> DEFINE x == [i \in 0..(m + 2) |-> IF i = m + 2 THEN k ELSE e[i]]
             tail == LastOf(done.current, overlap)
  <2>2. /\ tail \in Seq(Sentence) /\ Len(tail) <= overlap /\ Len(tail) \in Nat
        /\ Append(tail, s) = Joined(tail, <<s>>) /\ Append(tail, s) \in Seq(Sentence)
        /\ Len(Append(tail, s)) = Len(tail) + 1
    <3> HIDE DEF s, p, before, last, m, new, q, x
    <3>1. tail \in Seq(Sentence) /\ Len(tail) <= overlap
      BY <1>2, LastOfFacts
    <3> HIDE DEF tail
    <3>2. Len(tail) \in Nat
      BY <3>1
    <3>3. Append(tail, s) \in Seq(Sentence) /\ Len(Append(tail, s)) = Len(tail) + 1
      BY <1>1, <3>1, AppendIs
    <3>4. Append(tail, s) = Joined(tail, <<s>>)
      BY <1>1, <3>1, AppendIsConcat DEF Joined
    <3>5. QED
      BY <3>1, <3>2, <3>3, <3>4
  <2>3. SubSeq(text, k - 1 + 1, k) = <<s>>
    <3>1. SubSeq(text, k, k) = <<s>>
      BY OneOf
    <3>2. k - 1 + 1 = k
      BY <1>1
    <3>3. QED
      BY <3>1, <3>2
  <2>4. /\ q \in Seq(Seq(Sentence)) /\ Len(q) = m + 2
        /\ q[m + 2] = Append(tail, s) /\ \A i \in 1..(m + 1) : q[i] = p[i]
    <3>1. q = Append(p, Append(tail, s))
      BY <2>1
    <3> HIDE DEF q, p, tail, m, s, new, before, last
    <3>2. /\ q \in Seq(Seq(Sentence)) /\ Len(q) = Len(p) + 1
          /\ q[Len(p) + 1] = Append(tail, s) /\ \A i \in 1..Len(p) : q[i] = p[i]
      BY <1>2, <2>2, <3>1, AppendIs
    <3>3. Len(p) + 1 = m + 2
      BY <1>2
    <3>4. QED
      BY <1>2, <3>2, <3>3
  <2>5. /\ x[0] = 0 /\ x[m + 2] = k /\ DOMAIN x = 0..(m + 2)
        /\ \A i \in 0..(m + 1) : x[i] = e[i]
    <3> HIDE DEF p, before, last, m, s
    <3>1. QED
      BY <1>2, <1>4
  <2>6. ASSUME NEW i \in 1..(m + 2)
        PROVE  PartIs(text, q, x, i, max, overlap)
    <3>1. CASE i = m + 2
      <4>1. /\ i # 1 /\ i - 1 = m + 1 /\ x[i - 1] = k - 1 /\ x[i] = k
            /\ q[i - 1] = done.current /\ q[i] = Append(tail, s)
        <5>1. m + 1 \in 0..(m + 1) /\ m + 1 \in 1..(m + 1) /\ m + 2 - 1 = m + 1
          BY <1>2
        <5> HIDE DEF p, before, last, m, s, q, x, tail
        <5>2. x[m + 1] = k - 1 /\ x[m + 2] = k
          BY <1>4, <2>5, <5>1
        <5>3. q[m + 1] = done.current /\ q[m + 2] = Append(tail, s)
          BY <1>2, <2>4, <5>1
        <5>4. i # 1 /\ i - 1 = m + 1
          BY <1>2, <3>1
        <5>5. QED
          BY <3>1, <5>2, <5>3, <5>4
      <4> HIDE DEF q, x, p, tail, s
      <4>2. k - 1 \in Nat /\ k - 1 < k /\ k = k - 1 + 1
        BY <1>1
      <4>3. q[i] = Joined(LastOf(q[i - 1], overlap), SubSeq(text, x[i - 1] + 1, x[i]))
        BY <2>2, <2>3, <4>1 DEF tail
      <4>4. Len(q[i]) <= overlap + 1
        BY <2>2, <4>1
      <4>5. QED
        BY <1>1, <4>1, <4>2, <4>3, <4>4 DEF PartIs
    <3>2. CASE i \in 1..(m + 1)
      <4>1. PartIs(text, p, e, i, max, overlap)
        BY <1>2, <3>2 DEF IsSplit
      <4>2. /\ x[i] = e[i] /\ x[i - 1] = e[i - 1] /\ q[i] = p[i]
            /\ i # 1 => q[i - 1] = p[i - 1]
        <5>1. i \in 0..(m + 1) /\ i - 1 \in 0..(m + 1) /\ (i # 1 => i - 1 \in 1..(m + 1))
          BY <1>2, <3>2
        <5>2. QED
          BY <2>4, <2>5, <3>2, <5>1
      <4> HIDE DEF q, x, p
      <4>3. QED
        BY <4>1, <4>2 DEF PartIs
    <3>3. i = m + 2 \/ i \in 1..(m + 1)
      BY <1>2
    <3>4. QED
      BY <3>1, <3>2, <3>3
  <2>7. IsSplit(text, q, x, k, max, overlap)
    <3> HIDE DEF q, x
    <3>1. QED
      BY <1>2, <2>4, <2>5, <2>6 DEF IsSplit
  <2>8. QED
    BY <1>3, <2>7
<1>7. CASE ~(done.current # <<>> /\ EstimateTokens(CharsOf(Append(done.current, s))) > max)
  <2>1. new = [done EXCEPT !.current = Append(@, s)]
    BY <1>7 DEF AddSentence
  <2> DEFINE x == [i \in 0..(m + 1) |-> IF i = m + 1 THEN k ELSE e[i]]
  <2>2. new.groups = done.groups /\ new.current = Append(done.current, s)
    BY <2>1 DEF Splits
  <2>3. /\ q \in Seq(Seq(Sentence)) /\ Len(q) = m + 1
        /\ q[m + 1] = Append(done.current, s) /\ \A i \in 1..m : q[i] = p[i]
    <3>1. Append(done.current, s) \in Seq(Sentence)
      BY <1>1, <1>2
    <3>2. q = Append(done.groups, Append(done.current, s))
      BY <2>2
    <3> DEFINE last1 == Append(done.current, s)
               groups == done.groups
    <3> HIDE DEF p, new, q, m, s, before, last, last1, groups
    <3>3. groups \in Seq(Seq(Sentence)) /\ last1 \in Seq(Sentence) /\ q = Append(groups, last1)
      BY <1>2, <3>1, <3>2 DEF last1, groups
    <3>4. /\ q \in Seq(Seq(Sentence)) /\ Len(q) = Len(groups) + 1
          /\ q[Len(groups) + 1] = last1 /\ \A i \in 1..Len(groups) : q[i] = groups[i]
      BY <3>3, AppendIs
    <3>5. QED
      BY <1>2, <3>4 DEF m, last1, groups
  <2>4. /\ x[0] = 0 /\ x[m + 1] = k /\ DOMAIN x = 0..(m + 1)
        /\ \A i \in 0..m : x[i] = e[i]
    <3> HIDE DEF p, before, last, m, s
    <3>1. QED
      BY <1>2, <1>4
  <2>5. last \in Seq(Sentence) /\ SubSeq(text, e[m] + 1, k) = Append(last, s)
    <3>1. e[m] + 1 \in 1..Len(text) /\ k \in e[m] + 1 .. Len(text) /\ k - 1 \in 0..Len(text)
      <4> HIDE DEF p, before, last, m, s, q, x, new
      <4>1. QED
        BY <1>1, <1>4
    <3>2. last \in Seq(Sentence) /\ SubSeq(text, e[m] + 1, k) = last \o <<s>>
      BY <1>5, <3>1, SubSeqRecursiveSecond
    <3>3. Append(last, s) = last \o <<s>>
      BY <1>1, <3>2, AppendIsConcat
    <3>4. QED
      BY <3>2, <3>3
  <2>6. Append(done.current, s) = Joined(before, SubSeq(text, e[m] + 1, k))
    <3> HIDE DEF before, last, s
    <3>1. Append(Joined(before, last), s) = Joined(before, Append(last, s))
      BY <1>1, <1>5, <2>5, JoinedFacts
    <3>2. QED
      BY <1>4, <2>5, <3>1
  <2>7. done.current # <<>>
    <3>1. last # <<>>
      <4>1. Len(last) = k - 1 - (e[m] + 1) + 1
        <5> HIDE DEF p, before, m, s, new, q, x
        <5>1. \A i \in (e[m] + 1)..(k - 1) : text[i] \in Sentence
          BY <1>1, <1>4, ElementOfSeq
        <5>2. e[m] + 1 \in Int /\ k - 1 \in Int /\ e[m] + 1 <= k - 1
          BY <1>1, <1>4
        <5> DEFINE lo == e[m] + 1
                   hi == k - 1
        <5> HIDE DEF lo, hi
        <5>3. lo \in Int /\ hi \in Int /\ lo <= hi /\ \A i \in lo..hi : text[i] \in Sentence
          BY <5>1, <5>2 DEF lo, hi
        <5>4. Len(SubSeq(text, lo, hi)) = hi - lo + 1
          BY <5>3, SubSeqProperties
        <5>5. QED
          BY <5>4 DEF lo, hi
      <4>2. Len(last) # 0
        <5> HIDE DEF last, p, before, m, s, new, q, x
        <5>1. QED
          BY <1>1, <1>4, <4>1
      <4> HIDE DEF last
      <4>3. Len(<<>>) = 0
        OBVIOUS
      <4>4. QED
        BY <4>2, <4>3
    <3> HIDE DEF last, before
    <3>2. QED
      BY <1>4, <1>5, <2>5, <3>1, JoinedFacts
  <2>8. ASSUME NEW i \in 1..(m + 1)
        PROVE  PartIs(text, q, x, i, max, overlap)
    <3>1. CASE i = m + 1
      <4>1. /\ i - 1 = m /\ (i = 1 <=> m = 0) /\ x[i - 1] = e[m] /\ x[i] = k
            /\ m # 0 => q[i - 1] = p[m]
            /\ q[i] = Append(done.current, s)
        <5>1. m + 1 - 1 = m /\ m \in 0..m /\ (m # 0 => m \in 1..m) /\ (m + 1 = 1 <=> m = 0)
          BY <1>2
        <5> HIDE DEF p, before, last, m, s, q, x
        <5>2. QED
          BY <2>3, <2>4, <3>1, <5>1
      <4>2. ~(EstimateTokens(CharsOf(Append(done.current, s))) > max)
        BY <1>7, <2>7
      <4> HIDE DEF q, x, p, s
      <4>3. q[i] = Joined(IF i = 1 THEN <<>> ELSE LastOf(q[i - 1], overlap),
                          SubSeq(text, x[i - 1] + 1, x[i]))
        BY <2>6, <4>1 DEF before
      <4>4. k \in Nat /\ e[m] < k
        BY <1>1, <1>4
      <4>5. QED
        BY <1>1, <1>4, <4>1, <4>2, <4>3, <4>4 DEF PartIs
    <3>2. CASE i \in 1..m
      <4>1. PartIs(text, p, e, i, max, overlap)
        BY <1>2, <3>2 DEF IsSplit
      <4>2. /\ x[i] = e[i] /\ x[i - 1] = e[i - 1] /\ q[i] = p[i]
            /\ i # 1 => q[i - 1] = p[i - 1]
        <5>1. i \in 0..m /\ i - 1 \in 0..m /\ (i # 1 => i - 1 \in 1..m)
          BY <1>2, <3>2
        <5>2. QED
          BY <2>3, <2>4, <3>2, <5>1
      <4> HIDE DEF q, x, p
      <4>3. QED
        BY <4>1, <4>2 DEF PartIs
    <3>3. i = m + 1 \/ i \in 1..m
      BY <1>2
    <3>4. QED
      BY <3>1, <3>2, <3>3
  <2>9. IsSplit(text, q, x, k, max, overlap)
    <3> HIDE DEF q, x
    <3>1. QED
      BY <1>2, <2>3, <2>4, <2>8 DEF IsSplit
  <2>10. QED
    BY <1>3, <2>9
<1>8. QED
  BY <1>6, <1>7

LEMMA CharsOfType ==
    ASSUME NEW text \in Seq(Sentence)
    PROVE  /\ CharsOf(text) \in Int /\ CharsOf(text) >= Len(text) - 1
           /\ text # <<>> => EstimateTokens(CharsOf(text)) \in Nat
<1> DEFINE n == Len(text)
           base == n - 1
           A == {x \in Int : x >= base}
           step == [p \in A \X (1..n) |-> p[1] + text[p[2]].chars]
           Recursive(f) == f = [s \in SUBSET (1..n) |->
                                   IF s = {} THEN base
                                   ELSE f[s \ {Max(s)}] + text[Max(s)].chars]
           chosen == CHOOSE f : Recursive(f)
<1>1. n \in Nat /\ DOMAIN text = 1..n /\ base \in A
  OBVIOUS
<1>2. \A i \in 1..n : text[i].chars \in Nat
  <2>1. \A i \in 1..n : text[i] \in Sentence
    BY ElementOfSeq
  <2>2. QED
    BY <2>1 DEF Sentence
<1>3. \A a \in A, i \in 1..n : step[<<a, i>>] = a + text[i].chars /\ step[<<a, i>>] \in A
  <2>1. \A a \in A, i \in 1..n : step[<<a, i>>] = a + text[i].chars
    OBVIOUS
  <2> HIDE DEF step
  <2>2. \A a \in A, i \in 1..n : a + text[i].chars \in A
    BY <1>1, <1>2
  <2> HIDE DEF A
  <2>3. QED
    BY <2>1, <2>2
<1>4. PICK f : IsFold(f, 1..n, base, step)
  <2> HIDE DEF step, base
  <2>1. QED
    BY <1>1, FoldsExist
<1>5. \A s \in SUBSET (1..n) : f[s] \in A
  <2> HIDE DEF step, A, base
  <2>1. QED
    BY <1>1, <1>3, <1>4, FoldTyped
<1>6. ASSUME NEW s \in SUBSET (1..n), s # {}
      PROVE  step[<<f[s \ {Max(s)}], Max(s)>>] = f[s \ {Max(s)}] + text[Max(s)].chars
  <2>1. Max(s) \in 1..n /\ s \ {Max(s)} \in SUBSET (1..n)
    BY <1>1, <1>6, MaxIn
  <2>2. f[s \ {Max(s)}] \in A
    BY <1>5, <2>1
  <2> HIDE DEF step, A
  <2>3. QED
    BY <1>3, <2>1, <2>2
<1>7. Recursive(f)
  <2> HIDE DEF step, base
  <2>1. QED
    BY <1>4, <1>6 DEF IsFold
<1>8. Recursive(chosen)
  <2> HIDE DEF Recursive
  <2>1. QED
    BY <1>7
<1>9. CharsOf(text) = chosen[1..n]
  BY <1>1 DEF CharsOf, FoldLeft, MapThenFoldSet
<1>10. chosen[1..n] \in A
  <2> DEFINE Good == {s \in SUBSET (1..n) : chosen[s] \in A}
  <2> HIDE DEF chosen
  <2>1. \A s \in SUBSET (1..n) :
            chosen[s] = IF s = {} THEN base ELSE chosen[s \ {Max(s)}] + text[Max(s)].chars
    <3> HIDE DEF base
    <3>1. QED
      BY <1>8
  <2>2. {} \in Good
    BY <1>1, <2>1
  <2>3. ASSUME NEW s \in SUBSET (1..n), s # {}, s \ {Max(s)} \in Good
        PROVE  s \in Good
    <3>1. Max(s) \in 1..n
      BY <1>1, <2>3, MaxIn
    <3>2. \A a \in A, c \in Nat : a + c \in A
      BY <1>1
    <3> HIDE DEF A
    <3>3. QED
      BY <1>2, <2>1, <2>3, <3>1, <3>2
  <2>4. SUBSET (1..n) \subseteq Good
    <3> HIDE DEF Good
    <3>1. QED
      BY <1>1, <2>2, <2>3, OnSubsets
  <2>5. QED
    BY <2>4
<1>12. CharsOf(text) \in Int /\ CharsOf(text) >= Len(text) - 1
  BY <1>9, <1>10
<1>13. ASSUME text # <<>>
       PROVE  EstimateTokens(CharsOf(text)) \in Nat
  <2>1. Len(text) \in Nat /\ Len(text) # 0
    BY <1>13
  <2>2. CharsOf(text) \in Nat
    BY <1>12, <2>1
  <2>3. \A c \in Nat : EstimateTokens(c) \in Nat
    BY DEF EstimateTokens, CharsPerToken
  <2>4. QED
    BY <2>2, <2>3
<1>14. QED
  BY <1>12, <1>13

\* A split that has only one part.
LEMMA OnePart ==
    ASSUME NEW text \in Seq(Sentence), NEW max, NEW overlap \in Nat, NEW k \in 1..Len(text),
           k = 1 \/ ~(EstimateTokens(CharsOf(SubSeq(text, 1, k))) > max)
    PROVE  \E e : IsSplit(text, <<SubSeq(text, 1, k)>>, e, k, max, overlap)
<1> DEFINE part == SubSeq(text, 1, k)
           p == <<part>>
           e == [i \in 0..1 |-> IF i = 0 THEN 0 ELSE k]
<1>1. Len(text) \in Nat /\ k \in Nat /\ 1 <= k /\ k <= Len(text)
  OBVIOUS
<1>2. part \in Seq(Sentence) /\ Len(part) = k
  <2>1. \A i \in 1..k : text[i] \in Sentence
    BY <1>1, ElementOfSeq
  <2>2. part \in Seq(Sentence) /\ Len(part) = k - 1 + 1
    BY <1>1, <2>1, SubSeqProperties
  <2> HIDE DEF part
  <2>3. QED
    BY <1>1, <2>2
<1> HIDE DEF part
<1>3. p \in Seq(Seq(Sentence)) /\ Len(p) = 1 /\ p[1] = part
  BY <1>2
<1>4. DOMAIN e = 0..1 /\ e[0] = 0 /\ e[1] = k
  OBVIOUS
<1>5. part = Joined(<<>>, SubSeq(text, 0 + 1, k))
  <2>1. <<>> \in Seq(Sentence) /\ 0 + 1 = 1
    OBVIOUS
  <2>2. Joined(<<>>, part) = part
    BY <1>2, <2>1, JoinedFacts
  <2>3. QED
    BY <2>1, <2>2 DEF part
<1>6. \/ ~(EstimateTokens(CharsOf(part)) > max)
      \/ k = 0 + 1 /\ Len(part) <= overlap + 1
  BY <1>2 DEF part
<1> HIDE DEF p, e
<1>7. PartIs(text, p, e, 1, max, overlap)
  <2>1. e[1 - 1] = 0
    BY <1>4
  <2>2. QED
    BY <1>1, <1>3, <1>4, <1>5, <1>6, <2>1 DEF PartIs
<1>8. IsSplit(text, p, e, k, max, overlap)
  BY <1>3, <1>4, <1>7 DEF IsSplit
<1>9. QED
  BY <1>8 DEF p, part

\* _split_summary splits a summary that is not empty.
LEMMA SplitParts ==
    ASSUME NEW text \in Seq(Sentence), text # <<>>, NEW max \in Nat, NEW overlap \in Nat
    PROVE  \E e : IsSplit(text, SplitSummary(text, max, overlap), e, Len(text), max, overlap)
<1> DEFINE n == Len(text)
<1>1. n \in Nat /\ n >= 1
  BY EmptySeq
<1>2. PICK h : /\ h[0] = Empty
               /\ \A i \in 1..n : h[i] = AddSentence(h[i - 1], text[i], max, overlap)
               /\ SplitSummary(text, max, overlap) =
                     IF EstimateTokens(CharsOf(text)) <= max THEN <<text>>
                     ELSE Append(h[n].groups, h[n].current)
  BY SplitFold, ZenonT(30)
<1> HIDE DEF n
<1>3. CASE EstimateTokens(CharsOf(text)) <= max
  <2>1. SubSeq(text, 1, n) = text
    BY SubSeqFull DEF n
  <2>2. EstimateTokens(CharsOf(text)) \in Nat
    BY CharsOfType
  <2>3. ~(EstimateTokens(CharsOf(text)) > max)
    BY <1>3, <2>2
  <2>4. \E e : IsSplit(text, <<SubSeq(text, 1, n)>>, e, n, max, overlap)
    <3>1. n \in 1..Len(text)
      BY <1>1 DEF n
    <3>2. ~(EstimateTokens(CharsOf(SubSeq(text, 1, n))) > max)
      BY <2>1, <2>3
    <3>3. QED
      BY <3>1, <3>2, OnePart
  <2>5. QED
    BY <1>2, <1>3, <2>1, <2>4 DEF n
<1>4. CASE ~(EstimateTokens(CharsOf(text)) <= max)
  <2> DEFINE Whole(i) == \E e : IsSplit(text, Append(h[i].groups, h[i].current), e, i, max, overlap)
             T == {i \in Nat : i = 0 \/ (h[i] \in Splits /\ Whole(i))}
  <2>1. 0 \in T
    OBVIOUS
  <2>2. ASSUME NEW i \in 1..n, i - 1 \in T
        PROVE  i \in T
    <3>1. text[i] \in Sentence
      BY ElementOfSeq DEF n
    <3>2. CASE i = 1
      <4>1. h[1] = AddSentence(Empty, text[1], max, overlap)
        BY <1>1, <1>2, <3>2
      <4>2. h[1] = [groups |-> <<>>, current |-> <<text[1]>>]
        BY <4>1 DEF AddSentence, Empty
      <4>3. h[1] \in Splits
        BY <3>1, <3>2, <4>2 DEF Splits
      <4>4. SubSeq(text, 1, 1) = <<text[1]>>
        <5>1. 1 \in 1..Len(text)
          BY <1>1 DEF n
        <5>2. QED
          BY <5>1, OneOf
      <4>5. Append(h[1].groups, h[1].current) = <<SubSeq(text, 1, 1)>>
        BY <4>2, <4>4
      <4>6. Whole(1)
        <5>1. 1 \in 1..Len(text)
          BY <1>1 DEF n
        <5>2. \E e : IsSplit(text, <<SubSeq(text, 1, 1)>>, e, 1, max, overlap)
          BY <5>1, OnePart
        <5>3. QED
          BY <4>5, <5>2
      <4> HIDE DEF Whole
      <4>7. QED
        BY <3>2, <4>3, <4>6
    <3>3. CASE i # 1
      <4>1. i \in Nat /\ i > 1 /\ i - 1 # 0 /\ i \in 1..Len(text)
        BY <1>1, <3>3 DEF n
      <4>2. h[i - 1] \in Splits /\ Whole(i - 1)
        BY <2>2, <4>1
      <4>3. PICK e : IsSplit(text, Append(h[i - 1].groups, h[i - 1].current), e, i - 1,
                             max, overlap)
        BY <4>2
      <4>4. h[i] = AddSentence(h[i - 1], text[i], max, overlap)
        BY <1>2
      <4> DEFINE done == h[i - 1]
      <4> HIDE DEF done, Whole
      <4>5. done \in Splits /\ IsSplit(text, Append(done.groups, done.current), e, i - 1, max, overlap)
        BY <4>2, <4>3 DEF done
      <4>6. LET new == AddSentence(done, text[i], max, overlap)
            IN  /\ new \in Splits
                /\ \E x : IsSplit(text, Append(new.groups, new.current), x, i, max, overlap)
        BY <4>1, <4>5, SplitStep
      <4>7. h[i] = AddSentence(done, text[i], max, overlap)
        BY <4>4 DEF done
      <4>8. h[i] \in Splits /\ Whole(i)
        BY <4>6, <4>7 DEF Whole
      <4>9. QED
        BY <4>1, <4>8
    <3>4. QED
      BY <3>2, <3>3
  <2>3. n \in T
    <3> HIDE DEF T
    <3>1. \A i \in 0..n : i \in T
      BY <1>1, <2>1, <2>2, UpTo
    <3>2. n \in 0..n
      BY <1>1
    <3>3. QED
      BY <3>1, <3>2
  <2>4. Whole(n)
    <3> HIDE DEF Whole
    <3>1. QED
      BY <1>1, <2>3
  <2>5. QED
    BY <1>2, <1>4, <2>4 DEF n
<1>5. QED
  BY <1>3, <1>4

\* Adjacent pieces of a text make up the text.
LEMMA Flattened ==
    ASSUME NEW A, NEW text \in Seq(A), NEW n \in Nat \ {0},
           NEW fresh \in [1..n -> Seq(A)], NEW e, e[0] = 0, e[n] = Len(text),
           \A i \in 1..n : /\ e[i - 1] \in Nat /\ e[i] \in Nat
                           /\ e[i - 1] <= e[i] /\ e[i] <= Len(text)
                           /\ fresh[i] = SubSeq(text, e[i - 1] + 1, e[i])
    PROVE  FlattenSeq(fresh) = text
<1> DEFINE Recursive(f) == f = [i \in 1..n |-> IF i = 1 THEN fresh[i] ELSE f[i - 1] \o fresh[i]]
           g == [i \in 1..n |-> SubSeq(text, 1, e[i])]
           chosen == CHOOSE f : Recursive(f)
<1>1. Len(fresh) = n /\ fresh \in Seq(Seq(A)) /\ n \in Nat /\ n # 0 /\ Len(text) \in Nat
  OBVIOUS
<1>2. ASSUME NEW i \in 1..n, i # 1
      PROVE  SubSeq(text, 1, e[i - 1]) \o fresh[i] = SubSeq(text, 1, e[i])
  <2>1. e[i - 1] \in Nat /\ e[i] \in Nat /\ e[i - 1] <= e[i] /\ e[i] <= Len(text)
    OBVIOUS
  <2> DEFINE k == e[i - 1]
             m == e[i]
             l == Len(text)
  <2>2. k \in Nat /\ m \in Nat /\ k <= m /\ m <= l /\ l \in Nat
    BY <1>1, <2>1
  <2> HIDE DEF k, m
  <2>3. 1 \in 1..(Len(text) + 1) /\ k \in (1 - 1)..Len(text) /\ m \in k..Len(text)
    <3> HIDE DEF l
    <3>1. 1 \in 1..(l + 1) /\ k \in (1 - 1)..l /\ m \in k..l
      BY <2>2
    <3>2. QED
      BY <3>1 DEF l
  <2>4. SubSeq(text, 1, k) \o SubSeq(text, k + 1, m) = SubSeq(text, 1, m)
    BY <2>3, ConcatAdjacentSubSeq
  <2>5. fresh[i] = SubSeq(text, k + 1, m)
    BY DEF k, m
  <2>6. QED
    BY <2>4, <2>5 DEF k, m
<1>3. fresh[1] = SubSeq(text, 1, e[1])
  <2>1. 1 \in 1..n /\ 1 - 1 = 0 /\ 0 + 1 = 1
    BY <1>1
  <2>2. fresh[1] = SubSeq(text, e[1 - 1] + 1, e[1])
    BY <2>1
  <2>3. QED
    BY <2>1, <2>2
<1>4. Recursive(g)
  <2>1. ASSUME NEW i \in 1..n
        PROVE  SubSeq(text, 1, e[i]) = IF i = 1 THEN fresh[i] ELSE g[i - 1] \o fresh[i]
    <3>1. CASE i = 1
      BY <1>3, <3>1
    <3>2. CASE i # 1
      <4>1. i - 1 \in 1..n
        BY <1>1, <3>2
      <4>2. g[i - 1] = SubSeq(text, 1, e[i - 1])
        BY <4>1
      <4> HIDE DEF g
      <4>3. QED
        BY <1>2, <3>2, <4>2
    <3>3. QED
      BY <3>1, <3>2
  <2> DEFINE body == [i \in 1..n |-> IF i = 1 THEN fresh[i] ELSE g[i - 1] \o fresh[i]]
             Entry(i) == IF i = 1 THEN fresh[i] ELSE g[i - 1] \o fresh[i]
  <2>2. \A i \in 1..n : SubSeq(text, 1, e[i]) = Entry(i)
    BY <2>1
  <2> HIDE DEF Entry
  <2>3. g = [i \in 1..n |-> Entry(i)]
    BY <2>2
  <2>4. QED
    BY <2>3 DEF Entry
<1>5. Recursive(chosen)
  <2> HIDE DEF Recursive, g
  <2>1. QED
    BY <1>4
<1>6. FlattenSeq(fresh) = chosen[n]
  BY <1>1 DEF FlattenSeq
<1> DEFINE T == {i \in Nat : i = 0 \/ chosen[i] = SubSeq(text, 1, e[i])}
<1> HIDE DEF chosen
<1>7. \A i \in 1..n : chosen[i] = IF i = 1 THEN fresh[i] ELSE chosen[i - 1] \o fresh[i]
  BY <1>5
<1>8. ASSUME NEW i \in 1..n, i - 1 \in T
      PROVE  i \in T
  <2>1. CASE i = 1
    BY <1>3, <1>7, <2>1
  <2>2. CASE i # 1
    <3>1. i - 1 # 0 /\ i \in Nat
      BY <1>1, <2>2
    <3>2. chosen[i - 1] = SubSeq(text, 1, e[i - 1])
      BY <1>8, <3>1
    <3>3. chosen[i] = chosen[i - 1] \o fresh[i]
      BY <1>7, <2>2
    <3>4. chosen[i] = SubSeq(text, 1, e[i])
      BY <1>2, <2>2, <3>2, <3>3
    <3>5. QED
      BY <3>1, <3>4
  <2>3. QED
    BY <2>1, <2>2
<1>9. chosen[n] = SubSeq(text, 1, e[n])
  <2>1. 0 \in T /\ n \in 0..n
    BY <1>1
  <2>2. n \in T
    <3> HIDE DEF T
    <3>1. \A i \in 0..n : i \in T
      BY <1>1, <1>8, <2>1, UpTo
    <3>2. QED
      BY <2>1, <3>1
  <2>3. QED
    BY <1>1, <2>2
<1>10. SubSeq(text, 1, Len(text)) = text
  BY SubSeqFull
<1>11. QED
  BY <1>6, <1>9, <1>10

\* The parts of a control's summary, as its chunks show them.
LEMMA ChunkParts ==
    ASSUME NEW control, NEW max, NEW overlap,
           NEW n \in Nat, NEW p, p = SplitSummary(control.summary, max, overlap),
           DOMAIN p = 1..n
    PROVE  /\ Cardinality(ChunksOf(control, max, overlap)) = n
           /\ \A i \in 1..n :
                 (CHOOSE c \in ChunksOf(control, max, overlap) : c.index = i).part = p[i]
<1> DEFINE Chunk(i) == [framework |-> control.framework, control |-> control.id, index |-> i,
                        chars |-> control.head + CharsOf(p[i]),
                        terms |-> control.terms \cup TermsOf(p[i]),
                        part |-> p[i]]
           chunks == {Chunk(i) : i \in 1..n}
           f == [i \in 1..n |-> Chunk(i)]
<1>1. ChunksOf(control, max, overlap) = chunks
  BY DEF ChunksOf
<1>2. \A i \in 1..n : Chunk(i).index = i /\ Chunk(i).part = p[i]
  OBVIOUS
<1> HIDE DEF Chunk
<1>3. Cardinality(chunks) = n
  <2>1. f \in Injection(1..n, chunks)
    BY <1>2, Fun_IsInj
  <2>2. f \in Surjection(1..n, chunks)
    BY Fun_IsSurj
  <2>3. IsFiniteSet(1..n) /\ Cardinality(1..n) = n
    BY FS_Interval
  <2> HIDE DEF f, chunks
  <2>4. QED
    BY <2>1, <2>2, <2>3, FS_Surjection
<1>4. ASSUME NEW i \in 1..n
      PROVE  (CHOOSE c \in chunks : c.index = i).part = p[i]
  <2>1. Chunk(i) \in chunks /\ Chunk(i).index = i
    BY <1>2
  <2>2. \A c \in chunks : c.index = i => c = Chunk(i)
    BY <1>2
  <2> HIDE DEF chunks
  <2>3. (CHOOSE c \in chunks : c.index = i) = Chunk(i)
    BY <2>1, <2>2
  <2>4. QED
    BY <1>2, <2>3
<1>5. QED
  BY <1>1, <1>3, <1>4

LEMMA SplitLoses ==
    ASSUME NEW control, IsControl(control)
    PROVE  LET chunks == ChunksOf(control, ChunkMaxTokens, Overlap)
               n == Cardinality(chunks)
               Part(i) == (CHOOSE c \in chunks : c.index = i).part
               fresh == [i \in 1..n |->
                            IF i = 1 THEN Part(1)
                            ELSE SubSeq(Part(i), Len(LastOf(Part(i - 1), Overlap)) + 1,
                                        Len(Part(i)))]
           IN  /\ FlattenSeq(fresh) = control.summary
               /\ \A i \in 1..n :
                     /\ fresh[i] # <<>>
                     /\ i > 1 => IsPrefix(LastOf(Part(i - 1), Overlap), Part(i))
                     /\ \/ EstimateTokens(CharsOf(Part(i))) <= ChunkMaxTokens
                        \/ Len(fresh[i]) = 1 /\ Len(Part(i)) <= Overlap + 1
<1> DEFINE text == control.summary
           chunks == ChunksOf(control, ChunkMaxTokens, Overlap)
           Part(i) == (CHOOSE c \in chunks : c.index = i).part
           p == SplitSummary(text, ChunkMaxTokens, Overlap)
           n == Len(p)
           fresh == [i \in 1..n |->
                        IF i = 1 THEN Part(1)
                        ELSE SubSeq(Part(i), Len(LastOf(Part(i - 1), Overlap)) + 1,
                                    Len(Part(i)))]
<1>1. text \in Seq(Sentence) /\ text # <<>> /\ ChunkMaxTokens \in Nat /\ Overlap \in Nat
  BY RetrievalAssumption DEF IsControl, RetrievalAssumption
<1>2. PICK e : IsSplit(text, p, e, Len(text), ChunkMaxTokens, Overlap)
  <2> HIDE DEF text
  <2>1. QED
    BY <1>1, SplitParts
<1>3. /\ p \in Seq(Seq(Sentence)) /\ n >= 1 /\ e[0] = 0 /\ e[n] = Len(text)
      /\ \A i \in 1..n : PartIs(text, p, e, i, ChunkMaxTokens, Overlap)
  BY <1>2 DEF IsSplit
<1>4. n \in Nat \ {0} /\ DOMAIN p = 1..n /\ \A i \in 1..n : p[i] \in Seq(Sentence)
  <2> HIDE DEF p
  <2>1. QED
    BY <1>3, ElementOfSeq
<1>5. Cardinality(chunks) = n /\ \A i \in 1..n : Part(i) = p[i]
  <2>1. n \in Nat /\ DOMAIN p = 1..n /\ p = SplitSummary(control.summary, ChunkMaxTokens, Overlap)
    BY <1>4
  <2> HIDE DEF n, p, text
  <2>2. QED
    BY <2>1, ChunkParts
<1> DEFINE tail(i) == IF i = 1 THEN <<>> ELSE LastOf(p[i - 1], Overlap)
           piece(i) == SubSeq(text, e[i - 1] + 1, e[i])
<1> HIDE DEF p, n, text, chunks, Part, fresh
<1>6. ASSUME NEW i \in 1..n
      PROVE  /\ e[i - 1] \in Nat /\ e[i] \in Nat /\ e[i - 1] < e[i] /\ e[i] <= Len(text)
             /\ p[i] = Joined(tail(i), piece(i))
             /\ \/ ~(EstimateTokens(CharsOf(p[i])) > ChunkMaxTokens)
                \/ e[i] = e[i - 1] + 1 /\ Len(p[i]) <= Overlap + 1
             /\ tail(i) \in Seq(Sentence)
             /\ piece(i) \in Seq(Sentence) /\ Len(piece(i)) = e[i] - e[i - 1]
             /\ piece(i) # <<>> /\ p[i] # <<>>
  <2>1. /\ e[i - 1] \in Nat /\ e[i] \in Nat /\ e[i - 1] < e[i] /\ e[i] <= Len(text)
        /\ p[i] = Joined(tail(i), piece(i))
        /\ \/ ~(EstimateTokens(CharsOf(p[i])) > ChunkMaxTokens)
           \/ e[i] = e[i - 1] + 1 /\ Len(p[i]) <= Overlap + 1
    BY <1>3 DEF PartIs
  <2>2. tail(i) \in Seq(Sentence)
    <3>1. CASE i = 1
      BY <3>1
    <3>2. CASE i # 1
      <4>1. p[i - 1] \in Seq(Sentence)
        BY <1>4, <3>2
      <4>2. QED
        BY <1>1, <3>2, <4>1, LastOfFacts
    <3>3. QED
      BY <3>1, <3>2
  <2>3. piece(i) \in Seq(Sentence) /\ Len(piece(i)) = e[i] - e[i - 1]
    <3> DEFINE lo == e[i - 1] + 1
               hi == e[i]
    <3>1. lo \in Int /\ hi \in Int /\ lo <= hi /\ \A j \in lo..hi : j \in 1..Len(text)
      BY <2>1
    <3>2. hi - lo + 1 = e[i] - e[i - 1]
      BY <2>1
    <3> HIDE DEF lo, hi, tail
    <3>3. \A j \in lo..hi : text[j] \in Sentence
      BY <1>1, <3>1, ElementOfSeq
    <3>4. SubSeq(text, lo, hi) \in Seq(Sentence) /\ Len(SubSeq(text, lo, hi)) = hi - lo + 1
      BY <3>1, <3>3, SubSeqProperties
    <3>5. QED
      BY <3>2, <3>4 DEF lo, hi
  <2> HIDE DEF tail, piece
  <2>4. piece(i) # <<>>
    <3>1. Len(piece(i)) # 0
      BY <2>1, <2>3
    <3>2. QED
      BY <3>1
  <2>5. p[i] # <<>>
    BY <2>1, <2>2, <2>3, <2>4, JoinedFacts
  <2>6. QED
    BY <2>1, <2>2, <2>3, <2>4, <2>5
<1>7. ASSUME NEW i \in 1..n
      PROVE  fresh[i] = piece(i)
  <2>1. CASE i = 1
    <3>1. fresh[i] = p[1]
      BY <1>5, <2>1 DEF fresh
    <3>2. tail(i) = <<>>
      BY <2>1
    <3> HIDE DEF tail, piece
    <3>3. Joined(tail(i), piece(i)) = piece(i)
      BY <1>6, <3>2, JoinedFacts
    <3>4. QED
      BY <1>6, <2>1, <3>1, <3>3
  <2>2. CASE i # 1
    <3>1. i - 1 \in 1..n
      BY <1>4, <2>2
    <3>2. fresh[i] = SubSeq(p[i], Len(tail(i)) + 1, Len(p[i]))
      BY <1>5, <2>2, <3>1 DEF fresh
    <3> HIDE DEF tail, piece
    <3>3. QED
      BY <1>6, <3>2, ConcatParts
  <2>3. QED
    BY <2>1, <2>2
<1>8. FlattenSeq(fresh) = text
  <2>1. fresh \in [1..n -> Seq(Sentence)]
    <3>1. fresh = [i \in 1..n |-> fresh[i]]
      BY DEF fresh
    <3> HIDE DEF piece
    <3>2. \A i \in 1..n : fresh[i] \in Seq(Sentence)
      BY <1>6, <1>7
    <3>3. QED
      BY <3>1, <3>2
  <2> HIDE DEF tail
  <2>2. \A i \in 1..n : /\ e[i - 1] \in Nat /\ e[i] \in Nat
                         /\ e[i - 1] <= e[i] /\ e[i] <= Len(text)
                         /\ fresh[i] = SubSeq(text, e[i - 1] + 1, e[i])
    <3>1. \A i \in 1..n : fresh[i] = SubSeq(text, e[i - 1] + 1, e[i])
      BY <1>7
    <3> HIDE DEF piece
    <3>2. \A i \in 1..n : /\ e[i - 1] \in Nat /\ e[i] \in Nat
                           /\ e[i - 1] < e[i] /\ e[i] <= Len(text)
      BY <1>6
    <3>3. \A a, b \in Nat : a < b => a <= b
      OBVIOUS
    <3>4. QED
      BY <3>1, <3>2, <3>3
  <2>3. QED
    BY <1>1, <1>3, <1>4, <2>1, <2>2, Flattened
<1>9. ASSUME NEW i \in 1..n
      PROVE  /\ fresh[i] # <<>>
             /\ i > 1 => IsPrefix(LastOf(Part(i - 1), Overlap), Part(i))
             /\ \/ EstimateTokens(CharsOf(Part(i))) <= ChunkMaxTokens
                \/ Len(fresh[i]) = 1 /\ Len(Part(i)) <= Overlap + 1
  <2>1. fresh[i] # <<>>
    <3> HIDE DEF piece, tail
    <3>1. QED
      BY <1>6, <1>7
  <2>2. ASSUME i > 1
        PROVE  IsPrefix(LastOf(Part(i - 1), Overlap), Part(i))
    <3>1. i - 1 \in 1..n /\ i # 1
      BY <1>4, <2>2
    <3>2. LastOf(Part(i - 1), Overlap) = tail(i)
      BY <1>5, <3>1
    <3> HIDE DEF tail, piece
    <3>3. IsPrefix(tail(i), p[i])
      BY <1>6, ConcatParts
    <3>4. QED
      BY <1>5, <3>2, <3>3
  <2>3. CASE ~(EstimateTokens(CharsOf(p[i])) > ChunkMaxTokens)
    <3>1. EstimateTokens(CharsOf(p[i])) \in Nat
      BY <1>4, <1>6, CharsOfType
    <3> DEFINE size == EstimateTokens(CharsOf(p[i]))
    <3> HIDE DEF size
    <3>2. size \in Nat /\ ~(size > ChunkMaxTokens)
      BY <2>3, <3>1 DEF size
    <3>3. size <= ChunkMaxTokens
      BY <1>1, <3>2
    <3>4. QED
      BY <1>5, <2>1, <2>2, <3>3 DEF size
  <2>4. CASE e[i] = e[i - 1] + 1 /\ Len(p[i]) <= Overlap + 1
    <3>1. Len(fresh[i]) = e[i] - e[i - 1] /\ e[i - 1] \in Nat
      <4> HIDE DEF piece, tail
      <4>1. QED
        BY <1>6, <1>7
    <3>2. Len(fresh[i]) = 1
      BY <2>4, <3>1
    <3>3. QED
      BY <1>5, <2>1, <2>2, <2>4, <3>2
  <2>5. QED
    BY <1>6, <2>3, <2>4
<1>10. Cardinality(chunks) = n
  BY <1>5
<1>11. QED
  BY <1>8, <1>9, <1>10 DEF fresh, Part, chunks, text

-----------------------------------------------------------------------------
\* Assembly: AddBlock, Packed and Context.

\* Assembly. R is any set of rows whose chunks have a length.

HashOf(row) == ContentHash(row.chunk)
TokensOf(row) == EstimateTokens(BlockChars(row))
States(R) == [rows : Seq(R), used : Nat, full : BOOLEAN]
Unpacked == [rows |-> <<>>, used |-> 0, full |-> FALSE]

\* The first i of n numbers.
LEMMA SectionOf ==
    ASSUME NEW n \in Nat, NEW i \in 1..n
    PROVE  /\ 1..i \in SUBSET (1..n) /\ 1..i # {}
           /\ Max(1..i) = i /\ (1..i) \ {i} = 1..(i - 1)
<1>1. i \in Nat \ {0} /\ i <= n
  OBVIOUS
<1>2. i \in 1..i /\ \A x \in 1..i : x \in 1..n
  BY <1>1
<1>3. QED
  BY <1>1, <1>2, MaxOfSection

\* A block is as long as its tokens say, but for the rounding.
LEMMA BlockFacts ==
    ASSUME NEW row, row.chunk.chars \in Nat
    PROVE  /\ BlockChars(row) \in Nat /\ TokensOf(row) \in Nat
           /\ CharsPerToken * TokensOf(row) <= BlockChars(row)
           /\ BlockChars(row) <= CharsPerToken * TokensOf(row) + 3
<1>1. BlockChars(row) \in Nat /\ BlockChars(row) >= 4
  BY RetrievalAssumption DEF RetrievalAssumption, BlockChars, CharsPerToken
<1>2. \A c \in Nat : c >= 4 => /\ c \div 4 \in Nat /\ 4 * (c \div 4) <= c
                               /\ c <= 4 * (c \div 4) + 3
  OBVIOUS
<1>3. TokensOf(row) = BlockChars(row) \div 4
  BY <1>1 DEF TokensOf, EstimateTokens, CharsPerToken
<1>4. QED
  BY <1>1, <1>2, <1>3 DEF CharsPerToken

LEMMA AddBlockType ==
    ASSUME NEW R, \A r \in R : r.chunk.chars \in Nat,
           NEW a \in States(R), NEW row \in R, NEW budget
    PROVE  AddBlock(a, row, budget) \in States(R)
<1>1. EstimateTokens(BlockChars(row)) \in Nat
  BY BlockFacts DEF TokensOf
<1>2. Append(a.rows, row) \in Seq(R) /\ a.used + EstimateTokens(BlockChars(row)) \in Nat
  BY <1>1, AppendProperties DEF States
<1>3. QED
  BY <1>2 DEF AddBlock, Closed, States

\* Packed, block by block.
LEMMA PackedFold ==
    ASSUME NEW R, \A r \in R : r.chunk.chars \in Nat, NEW result \in Seq(R), NEW budget
    PROVE  \E h : /\ h[1..0] = Unpacked
                  /\ \A i \in 1..Len(result) :
                        h[1..i] = AddBlock(h[1..(i - 1)], result[i], budget)
                  /\ Packed(result, budget) = h[1..Len(result)].rows
<1> DEFINE n == Len(result)
           A == States(R)
           step == [p \in A \X (1..n) |-> AddBlock(p[1], result[p[2]], budget)]
           Recursive(f) == f = [s \in SUBSET (1..n) |->
                                   IF s = {} THEN Unpacked
                                   ELSE AddBlock(f[s \ {Max(s)}], result[Max(s)], budget)]
           chosen == CHOOSE f : Recursive(f)
<1>1. n \in Nat /\ DOMAIN result = 1..n
  OBVIOUS
<1>2. \A a \in A, i \in 1..n : /\ step[<<a, i>>] = AddBlock(a, result[i], budget)
                               /\ AddBlock(a, result[i], budget) \in A
  <2>1. \A a \in A, i \in 1..n : AddBlock(a, result[i], budget) \in A
    BY AddBlockType
  <2>2. QED
    BY <2>1
<1>3. Unpacked \in A
  BY DEF Unpacked, States
<1> HIDE DEF step, A
<1>4. PICK f : IsFold(f, 1..n, Unpacked, step)
  BY <1>1, FoldsExist
<1>5. \A s \in SUBSET (1..n) : f[s] \in A
  BY <1>1, <1>2, <1>3, <1>4, FoldTyped
<1>6. ASSUME NEW s \in SUBSET (1..n), s # {}
      PROVE  step[<<f[s \ {Max(s)}], Max(s)>>] =
                 AddBlock(f[s \ {Max(s)}], result[Max(s)], budget)
  <2>1. Max(s) \in 1..n /\ s \ {Max(s)} \in SUBSET (1..n)
    BY <1>1, <1>6, MaxIn
  <2>2. f[s \ {Max(s)}] \in A
    BY <1>5, <2>1
  <2>3. QED
    BY <1>2, <2>1, <2>2
<1>7. Recursive(f)
  BY <1>4, <1>6 DEF IsFold
<1>8. Recursive(chosen)
  <2> HIDE DEF Recursive
  <2>1. QED
    BY <1>7
<1>9. Packed(result, budget) = chosen[1..n].rows
  BY <1>1 DEF Packed, FoldLeft, MapThenFoldSet, Unpacked
<1> HIDE DEF chosen
<1>10. chosen[1..0] = Unpacked
  BY <1>8
<1>11. ASSUME NEW i \in 1..n
       PROVE  chosen[1..i] = AddBlock(chosen[1..(i - 1)], result[i], budget)
  <2>1. /\ 1..i \in SUBSET (1..n) /\ 1..i # {}
        /\ Max(1..i) = i /\ (1..i) \ {i} = 1..(i - 1)
    BY <1>1, SectionOf
  <2>2. QED
    BY <1>8, <2>1
<1>12. QED
  BY <1>9, <1>10, <1>11

\* The rows packed of the first k results are at the places o, which are the first
\* of their text, in order; of what lies before such a place, every text is packed.
Placed(result, rows, o, k) ==
    /\ o \in [1..Len(rows) -> 1..k]
    /\ \A i \in 1..Len(rows) :
          /\ rows[i] = result[o[i]]
          /\ i > 1 => o[i - 1] < o[i]
          /\ \A j \in 1..(o[i] - 1) : HashOf(result[j]) # HashOf(result[o[i]])
          /\ \A j \in 1..o[i] : \E h \in 1..i : HashOf(rows[h]) = HashOf(result[j])

Covered(result, rows, k) ==
    \A j \in 1..k : \E h \in 1..Len(rows) : HashOf(rows[h]) = HashOf(result[j])

\* u counts the tokens of the packed blocks.
Counted(rows, u) ==
    /\ u[0] = 0
    /\ \A i \in 0..Len(rows) : u[i] \in Nat
    /\ \A i \in 1..Len(rows) : u[i] = u[i - 1] + TokensOf(rows[i])

IsPacked(result, a, o, u, k, budget) ==
    /\ Placed(result, a.rows, o, k)
    /\ Counted(a.rows, u) /\ u[Len(a.rows)] = a.used
    /\ ~a.full => Covered(result, a.rows, k)
    /\ (k = 0) <=> (a.rows = <<>>)
    /\ Len(a.rows) > 1 => a.used <= budget
    /\ a.full => \E j \in 1..k : a.used + TokensOf(result[j]) > budget

\* One more row packed, passed over as a repetition, or kept out by the budget.
LEMMA PackedStep ==
    ASSUME NEW R, \A r \in R : r.chunk.chars \in Nat, NEW result \in Seq(R),
           NEW budget \in Nat, NEW k \in 1..Len(result), NEW a \in States(R), NEW o, NEW u,
           IsPacked(result, a, o, u, k - 1, budget)
    PROVE  LET b == AddBlock(a, result[k], budget)
           IN  b \in States(R) /\ \E p, v : IsPacked(result, b, p, v, k, budget)
<1> DEFINE row == result[k]
           b == AddBlock(a, row, budget)
           m == Len(a.rows)
           tokens == TokensOf(row)
           seen == \E i \in 1..m : HashOf(a.rows[i]) = HashOf(row)
<1>1. row \in R /\ k \in Nat /\ k >= 1
  BY ElementOfSeq
<1>2. b \in States(R)
  BY <1>1, AddBlockType
<1>3. /\ a.rows \in Seq(R) /\ m \in Nat /\ a.used \in Nat /\ a.full \in BOOLEAN
      /\ DOMAIN a.rows = 1..m /\ (a.rows = <<>> <=> m = 0)
  BY DEF States
<1>4. tokens \in Nat
  BY <1>1, BlockFacts
<1>5. /\ Placed(result, a.rows, o, k - 1)
      /\ Counted(a.rows, u) /\ u[m] = a.used
      /\ ~a.full => Covered(result, a.rows, k - 1)
      /\ (k - 1 = 0) <=> (a.rows = <<>>)
      /\ m > 1 => a.used <= budget
      /\ a.full => \E j \in 1..(k - 1) : a.used + TokensOf(result[j]) > budget
  BY DEF IsPacked
<1>6. 1..(k - 1) \subseteq 1..k /\ \A j \in 1..k : j \in 1..(k - 1) \/ j = k
  BY <1>1
<1>7. Placed(result, a.rows, o, k)
  BY <1>5, <1>6 DEF Placed
<1>8. b = IF a.full \/ seen THEN a
          ELSE IF a.rows # <<>> /\ a.used + tokens > budget THEN Closed(a)
          ELSE [a EXCEPT !.rows = Append(@, row), !.used = @ + tokens]
  BY <1>3 DEF AddBlock, TokensOf, HashOf
<1> HIDE DEF b, row, tokens, m, seen
<1>9. CASE a.full \/ seen
  <2>1. b = a
    BY <1>8, <1>9
  <2>2. a.rows # <<>>
    <3>1. CASE a.full
      BY <1>1, <1>5, <3>1
    <3>2. CASE seen
      <4>1. m # 0
        BY <1>3, <3>2 DEF seen
      <4>2. QED
        BY <1>3, <4>1
    <3>3. QED
      BY <1>9, <3>1, <3>2
  <2>3. ~a.full => Covered(result, a.rows, k)
    BY <1>5, <1>6, <1>9 DEF Covered, seen, row, m
  <2>4. a.full => \E j \in 1..k : a.used + TokensOf(result[j]) > budget
    BY <1>5, <1>6
  <2>5. k # 0
    BY <1>1
  <2>6. IsPacked(result, b, o, u, k, budget)
    BY <1>5, <1>7, <2>1, <2>2, <2>3, <2>4, <2>5 DEF IsPacked, m
  <2>7. QED
    BY <1>2, <2>6 DEF b, row
<1>10. CASE ~(a.full \/ seen) /\ a.rows # <<>> /\ a.used + tokens > budget
  <2>1. b.rows = a.rows /\ b.used = a.used /\ b.full = TRUE
    BY <1>8, <1>10 DEF Closed, States
  <2>2. \E j \in 1..k : a.used + TokensOf(result[j]) > budget
    BY <1>1, <1>10 DEF tokens, row
  <2>3. k # 0
    BY <1>1
  <2>4. IsPacked(result, b, o, u, k, budget)
    BY <1>5, <1>7, <1>10, <2>1, <2>2, <2>3 DEF IsPacked, m
  <2>5. QED
    BY <1>2, <2>4 DEF b, row
<1>11. CASE ~(a.full \/ seen) /\ ~(a.rows # <<>> /\ a.used + tokens > budget)
  <2> DEFINE rows == Append(a.rows, row)
             p == [i \in 1..(m + 1) |-> IF i = m + 1 THEN k ELSE o[i]]
             v == [i \in 0..(m + 1) |-> IF i = m + 1 THEN a.used + tokens ELSE u[i]]
  <2>1. b.rows = rows /\ b.used = a.used + tokens /\ b.full = FALSE
    BY <1>8, <1>11 DEF States
  <2>2. /\ Len(rows) = m + 1 /\ rows[m + 1] = row
        /\ \A i \in 1..m : rows[i] = a.rows[i]
    BY <1>1, <1>3, AppendIs DEF m
  <2> HIDE DEF rows
  <2>3. /\ p[m + 1] = k /\ \A i \in 1..m : p[i] = o[i]
        /\ p \in [1..(m + 1) -> 1..k]
    <3>1. o \in [1..m -> 1..k]
      BY <1>7 DEF Placed, m
    <3>2. k \in 1..k /\ m + 1 \in 1..(m + 1)
      BY <1>1, <1>3
    <3>3. \A i \in 1..(m + 1) : i = m + 1 \/ i \in 1..m
      BY <1>3
    <3>4. \A i \in 1..m : i \in 1..(m + 1) /\ i # m + 1
      BY <1>3
    <3>5. QED
      BY <3>1, <3>2, <3>3, <3>4
  <2>4. /\ v[m + 1] = a.used + tokens /\ \A i \in 0..m : v[i] = u[i]
    <3>1. m + 1 \in 0..(m + 1) /\ \A i \in 0..m : i \in 0..(m + 1) /\ i # m + 1
      BY <1>3
    <3>2. QED
      BY <3>1
  <2> HIDE DEF p, v
  <2>5. Covered(result, a.rows, k - 1)
    BY <1>5, <1>11
  <2>6. Covered(result, rows, k)
    <3>1. ASSUME NEW j \in 1..k
          PROVE  \E h \in 1..(m + 1) : HashOf(rows[h]) = HashOf(result[j])
      <4>1. m + 1 \in 1..(m + 1) /\ \A h \in 1..m : h \in 1..(m + 1)
        BY <1>3
      <4>2. CASE j = k
        BY <2>2, <4>1, <4>2 DEF row
      <4>3. CASE j \in 1..(k - 1)
        BY <2>2, <2>5, <4>1, <4>3 DEF Covered, m
      <4>4. QED
        BY <1>6, <4>2, <4>3
    <3>2. QED
      BY <2>2, <3>1 DEF Covered
  <2>7. Placed(result, rows, p, k)
    <3>1. ASSUME NEW i \in 1..(m + 1)
          PROVE  /\ rows[i] = result[p[i]]
                 /\ i > 1 => p[i - 1] < p[i]
                 /\ \A j \in 1..(p[i] - 1) : HashOf(result[j]) # HashOf(result[p[i]])
                 /\ \A j \in 1..p[i] : \E h \in 1..i : HashOf(rows[h]) = HashOf(result[j])
      <4>1. CASE i = m + 1
        <5>1. rows[i] = result[p[i]] /\ p[i] = k
          BY <2>2, <2>3, <4>1 DEF row
        <5>2. ASSUME i > 1
              PROVE  p[i - 1] < p[i]
          <6>1. i - 1 = m /\ m \in 1..m
            BY <1>3, <4>1, <5>2
          <6>2. o[m] \in 1..(k - 1) /\ p[m] = o[m]
            BY <1>5, <2>3, <6>1 DEF Placed, m
          <6>3. o[m] < k
            BY <1>1, <6>2
          <6>4. QED
            BY <5>1, <6>1, <6>2, <6>3
        <5>3. ASSUME NEW j \in 1..(k - 1)
              PROVE  HashOf(result[j]) # HashOf(row)
          BY <1>11, <2>5 DEF Covered, seen, m
        <5>4. \A j \in 1..k : \E h \in 1..i : HashOf(rows[h]) = HashOf(result[j])
          BY <2>2, <2>6, <4>1 DEF Covered
        <5>5. QED
          BY <5>1, <5>2, <5>3, <5>4 DEF row
      <4>2. CASE i \in 1..m
        <5>1. /\ a.rows[i] = result[o[i]]
              /\ i > 1 => o[i - 1] < o[i]
              /\ \A j \in 1..(o[i] - 1) : HashOf(result[j]) # HashOf(result[o[i]])
              /\ \A j \in 1..o[i] : \E h \in 1..i : HashOf(a.rows[h]) = HashOf(result[j])
          BY <1>7, <4>2 DEF Placed, m
        <5>2. \A h \in 1..i : h \in 1..m
          BY <1>3, <4>2
        <5>3. i > 1 => i - 1 \in 1..m
          BY <1>3, <4>2
        <5>4. p[i] = o[i] /\ rows[i] = a.rows[i] /\ (i > 1 => p[i - 1] = o[i - 1])
              /\ \A h \in 1..i : rows[h] = a.rows[h]
          BY <2>2, <2>3, <4>2, <5>2, <5>3
        <5>5. QED
          BY <5>1, <5>4
      <4>3. i = m + 1 \/ i \in 1..m
        BY <1>3
      <4>4. QED
        BY <4>1, <4>2, <4>3
    <3>2. QED
      BY <2>2, <2>3, <3>1 DEF Placed
  <2>8. Counted(rows, v)
    <3>1. /\ u[0] = 0 /\ \A i \in 0..m : u[i] \in Nat
          /\ \A i \in 1..m : u[i] = u[i - 1] + TokensOf(a.rows[i])
      BY <1>5 DEF Counted, m
    <3>2. /\ 0 \in 0..m /\ m \in 0..m /\ m + 1 - 1 = m /\ a.used + tokens \in Nat
          /\ \A i \in 1..m : i \in 0..m /\ i - 1 \in 0..m
      BY <1>3, <1>4
    <3>3. v[0] = 0
      BY <2>4, <3>1, <3>2
    <3>4. \A i \in 0..(m + 1) : v[i] \in Nat
      <4>1. \A i \in 0..(m + 1) : i \in 0..m \/ i = m + 1
        BY <1>3
      <4>2. QED
        BY <2>4, <3>1, <3>2, <4>1
    <3>5. ASSUME NEW i \in 1..(m + 1)
          PROVE  v[i] = v[i - 1] + TokensOf(rows[i])
      <4>1. CASE i = m + 1
        BY <1>5, <2>2, <2>4, <3>2, <4>1 DEF tokens
      <4>2. CASE i \in 1..m
        BY <2>2, <2>4, <3>1, <3>2, <4>2
      <4>3. i = m + 1 \/ i \in 1..m
        BY <1>3
      <4>4. QED
        BY <4>1, <4>2, <4>3
    <3>6. QED
      BY <2>2, <3>3, <3>4, <3>5 DEF Counted
  <2>9. Len(rows) > 1 => a.used + tokens <= budget
    <3>1. ASSUME m + 1 > 1
          PROVE  a.used + tokens <= budget
      <4>1. a.rows # <<>>
        BY <1>3, <3>1
      <4>2. QED
        BY <1>3, <1>4, <1>11, <4>1
    <3>2. QED
      BY <2>2, <3>1
  <2>10. rows # <<>> /\ k # 0
    <3>1. Len(rows) # 0
      BY <1>3, <2>2
    <3>2. Len(<<>>) = 0
      OBVIOUS
    <3>3. QED
      BY <1>1, <3>1, <3>2
  <2>11. IsPacked(result, b, p, v, k, budget)
    BY <2>1, <2>2, <2>4, <2>6, <2>7, <2>8, <2>9, <2>10 DEF IsPacked
  <2>12. QED
    BY <1>2, <2>11 DEF b, row
<1>12. QED
  BY <1>9, <1>10, <1>11

\* What is packed of a whole result.
LEMMA PackedIs ==
    ASSUME NEW R, \A r \in R : r.chunk.chars \in Nat, NEW result \in Seq(R), NEW budget \in Nat
    PROVE  \E a \in States(R) : /\ Packed(result, budget) = a.rows
                                /\ \E o, u : IsPacked(result, a, o, u, Len(result), budget)
<1> DEFINE n == Len(result)
<1>1. n \in Nat
  OBVIOUS
<1>2. PICK h : /\ h[1..0] = Unpacked
               /\ \A i \in 1..n : h[1..i] = AddBlock(h[1..(i - 1)], result[i], budget)
               /\ Packed(result, budget) = h[1..n].rows
  BY PackedFold
<1> DEFINE Fine(k) == /\ h[1..k] \in States(R)
                      /\ \E o, u : IsPacked(result, h[1..k], o, u, k, budget)
           T == {k \in Nat : Fine(k)}
<1>3. Fine(0)
  <2> DEFINE o == [i \in 1..0 |-> i]
             u == [i \in 0..0 |-> 0]
  <2>1. Unpacked \in States(R)
    BY DEF Unpacked, States
  <2>2. Len(<<>>) = 0 /\ 1..0 = {}
    OBVIOUS
  <2>3. Placed(result, <<>>, o, 0)
    BY <2>2 DEF Placed
  <2>4. Counted(<<>>, u) /\ u[0] = 0
    BY <2>2 DEF Counted
  <2> HIDE DEF o, u
  <2>5. Covered(result, <<>>, 0)
    BY <2>2 DEF Covered
  <2>6. IsPacked(result, Unpacked, o, u, 0, budget)
    BY <2>2, <2>3, <2>4, <2>5 DEF IsPacked, Unpacked
  <2>7. QED
    BY <1>2, <2>1, <2>6
<1>4. ASSUME NEW k \in 1..n, k - 1 \in T
      PROVE  k \in T
  <2>1. PICK o, u : IsPacked(result, h[1..(k - 1)], o, u, k - 1, budget)
    BY <1>4
  <2>2. h[1..(k - 1)] \in States(R)
    BY <1>4
  <2> DEFINE a == h[1..(k - 1)]
  <2> HIDE DEF a, Fine
  <2>3. a \in States(R) /\ IsPacked(result, a, o, u, k - 1, budget)
    BY <2>1, <2>2 DEF a
  <2>4. LET b == AddBlock(a, result[k], budget)
        IN  b \in States(R) /\ \E p, v : IsPacked(result, b, p, v, k, budget)
    BY <2>3, PackedStep
  <2>5. h[1..k] = AddBlock(a, result[k], budget)
    BY <1>2 DEF a
  <2>6. Fine(k)
    BY <2>4, <2>5 DEF Fine
  <2>7. k \in Nat
    BY <1>1
  <2>8. QED
    BY <2>6, <2>7
<1> HIDE DEF Fine
<1>5. n \in T
  <2>1. 0 \in T /\ n \in 0..n
    BY <1>1, <1>3
  <2> HIDE DEF T, n
  <2>2. \A i \in 0..n : i \in T
    BY <1>1, <1>4, <2>1, UpTo
  <2>3. QED
    BY <2>1, <2>2
<1>6. Fine(n)
  BY <1>5
<1>7. QED
  BY <1>2, <1>6 DEF Fine

\* The characters of a context.
BlankLines(rows) == IF rows = <<>> THEN 0 ELSE 2 * (Len(rows) - 1)

\* The length of a context, block by block.
LEMMA ContextFold ==
    ASSUME NEW R, \A r \in R : r.chunk.chars \in Nat, NEW rows \in Seq(R)
    PROVE  \E h : /\ h[1..0] = BlankLines(rows) /\ BlankLines(rows) \in Nat
                  /\ \A i \in 1..Len(rows) : h[1..i] = h[1..(i - 1)] + BlockChars(rows[i])
                  /\ \A i \in 0..Len(rows) : h[1..i] \in Nat
                  /\ Context(rows).tokens = EstimateTokens(h[1..Len(rows)])
<1> DEFINE n == Len(rows)
           base == BlankLines(rows)
           step == [p \in Nat \X (1..n) |-> p[1] + BlockChars(rows[p[2]])]
           Recursive(f) == f = [s \in SUBSET (1..n) |->
                                   IF s = {} THEN base
                                   ELSE f[s \ {Max(s)}] + BlockChars(rows[Max(s)])]
           chosen == CHOOSE f : Recursive(f)
<1>1. n \in Nat /\ DOMAIN rows = 1..n
  OBVIOUS
<1>2. base \in Nat
  <2>1. rows # <<>> => n >= 1
    BY EmptySeq
  <2>2. QED
    BY <1>1, <2>1 DEF BlankLines
<1>3. \A i \in 1..n : BlockChars(rows[i]) \in Nat
  <2>1. \A i \in 1..n : rows[i] \in R
    BY ElementOfSeq
  <2>2. QED
    BY <2>1, BlockFacts
<1>4. \A a \in Nat, i \in 1..n : /\ step[<<a, i>>] = a + BlockChars(rows[i])
                                 /\ a + BlockChars(rows[i]) \in Nat
  <2>1. \A a \in Nat, i \in 1..n : a + BlockChars(rows[i]) \in Nat
    BY <1>3
  <2>2. QED
    BY <2>1
<1> HIDE DEF step, base
<1>5. PICK f : IsFold(f, 1..n, base, step)
  BY <1>1, FoldsExist
<1>6. \A s \in SUBSET (1..n) : f[s] \in Nat
  <2>1. \A a \in Nat, i \in 1..n : step[<<a, i>>] \in Nat
    BY <1>4
  <2>2. QED
    BY <1>1, <1>2, <1>5, <2>1, FoldTyped
<1>7. ASSUME NEW s \in SUBSET (1..n), s # {}
      PROVE  step[<<f[s \ {Max(s)}], Max(s)>>] = f[s \ {Max(s)}] + BlockChars(rows[Max(s)])
  <2>1. Max(s) \in 1..n /\ s \ {Max(s)} \in SUBSET (1..n)
    BY <1>1, <1>7, MaxIn
  <2>2. f[s \ {Max(s)}] \in Nat
    BY <1>6, <2>1
  <2>3. QED
    BY <1>4, <2>1, <2>2
<1>8. Recursive(f)
  BY <1>5, <1>7 DEF IsFold
<1>9. Recursive(chosen)
  <2> HIDE DEF Recursive
  <2>1. QED
    BY <1>8
<1>10. Context(rows).tokens = EstimateTokens(chosen[1..n])
  BY <1>1 DEF Context, FoldLeft, MapThenFoldSet, base, BlankLines
<1> HIDE DEF chosen
<1>11. chosen[1..0] = base
  BY <1>9
<1>12. ASSUME NEW i \in 1..n
       PROVE  chosen[1..i] = chosen[1..(i - 1)] + BlockChars(rows[i])
  <2>1. /\ 1..i \in SUBSET (1..n) /\ 1..i # {}
        /\ Max(1..i) = i /\ (1..i) \ {i} = 1..(i - 1)
    BY <1>1, SectionOf
  <2>2. QED
    BY <1>9, <2>1
<1>13. \A i \in 0..n : chosen[1..i] \in Nat
  <2> DEFINE T == {i \in Nat : chosen[1..i] \in Nat}
  <2>1. 0 \in T
    BY <1>2, <1>11
  <2>2. ASSUME NEW i \in 1..n, i - 1 \in T
        PROVE  i \in T
    <3>1. chosen[1..(i - 1)] \in Nat /\ BlockChars(rows[i]) \in Nat /\ i \in Nat
      BY <1>1, <1>3, <2>2
    <3>2. QED
      BY <1>12, <3>1
  <2> HIDE DEF T
  <2>3. \A i \in 0..n : i \in T
    BY <1>1, <2>1, <2>2, UpTo
  <2>4. QED
    BY <2>3 DEF T
<1>14. QED
  BY <1>2, <1>10, <1>11, <1>12, <1>13 DEF base

\* Counted together, blocks are as many tokens as counted one by one, and at most
\* what is lost in rounding them down more.
LEMMA ContextTokens ==
    ASSUME NEW R, \A r \in R : r.chunk.chars \in Nat, NEW rows \in Seq(R), NEW u,
           Counted(rows, u)
    PROVE  /\ Context(rows).tokens \in Nat
           /\ u[Len(rows)] <= Context(rows).tokens
           /\ rows # <<>> => Context(rows).tokens
                               <= u[Len(rows)] + (5 * Len(rows) - 2) \div CharsPerToken
<1> DEFINE n == Len(rows)
           base == BlankLines(rows)
<1>1. n \in Nat
  OBVIOUS
<1>2. PICK h : /\ h[1..0] = base /\ base \in Nat
               /\ \A i \in 1..n : h[1..i] = h[1..(i - 1)] + BlockChars(rows[i])
               /\ \A i \in 0..n : h[1..i] \in Nat
               /\ Context(rows).tokens = EstimateTokens(h[1..n])
  BY ContextFold
<1>3. /\ u[0] = 0 /\ \A i \in 0..n : u[i] \in Nat
      /\ \A i \in 1..n : u[i] = u[i - 1] + TokensOf(rows[i])
  BY DEF Counted
<1> DEFINE Near(i) == /\ base + 4 * u[i] <= h[1..i]
                      /\ h[1..i] <= base + 4 * u[i] + 3 * i
           T == {i \in Nat : Near(i)}
<1>4. 0 \in T
  BY <1>2, <1>3
<1>5. ASSUME NEW i \in 1..n, i - 1 \in T
      PROVE  i \in T
  <2> DEFINE c == BlockChars(rows[i])
             t == TokensOf(rows[i])
             g == h[1..(i - 1)]
             w == u[i - 1]
  <2>1. rows[i] \in R
    BY ElementOfSeq
  <2>2. c \in Nat /\ t \in Nat /\ 4 * t <= c /\ c <= 4 * t + 3
    BY <2>1, BlockFacts DEF CharsPerToken
  <2>3. i \in Nat /\ i - 1 \in 0..n
    BY <1>1
  <2>4. /\ g \in Nat /\ w \in Nat /\ base \in Nat
        /\ base + 4 * w <= g /\ g <= base + 4 * w + 3 * (i - 1)
    BY <1>2, <1>3, <1>5, <2>3
  <2>5. h[1..i] = g + c /\ u[i] = w + t
    BY <1>2, <1>3
  <2> HIDE DEF c, t, g, w, base
  <2>6. base + 4 * (w + t) <= g + c /\ g + c <= base + 4 * (w + t) + 3 * i
    BY <2>2, <2>3, <2>4
  <2>7. Near(i)
    BY <2>5, <2>6
  <2> HIDE DEF Near
  <2>8. QED
    BY <2>3, <2>7
<1>6. Near(n)
  <2> HIDE DEF T, n
  <2>1. \A i \in 0..n : i \in T
    BY <1>1, <1>4, <1>5, UpTo
  <2>2. n \in 0..n
    BY <1>1
  <2>3. QED
    BY <2>1, <2>2 DEF T
<1> DEFINE chars == h[1..n]
           used == u[n]
<1>7. chars \in Nat /\ used \in Nat
  BY <1>1, <1>2, <1>3
<1>8. Context(rows).tokens = EstimateTokens(chars)
  BY <1>2
<1>9. base + 4 * used <= chars /\ chars <= base + 4 * used + 3 * n
  BY <1>6
<1>10. base \in Nat /\ (rows # <<>> => base = 2 * (n - 1) /\ n >= 1)
  BY <1>2, EmptySeq DEF BlankLines
<1> HIDE DEF chars, used, base, n
<1>11. /\ EstimateTokens(chars) \in Nat /\ EstimateTokens(chars) >= used
       /\ EstimateTokens(chars) <= IF chars \in {1, 2, 3} THEN 1 ELSE chars \div 4
  BY <1>7, <1>9, <1>10 DEF EstimateTokens, CharsPerToken
<1>12. ASSUME rows # <<>>
       PROVE  EstimateTokens(chars) <= used + (5 * n - 2) \div 4
  <2>1. chars <= 4 * used + (5 * n - 2) /\ n >= 1
    BY <1>1, <1>7, <1>9, <1>10, <1>12
  <2>2. chars \div 4 <= used + (5 * n - 2) \div 4
    BY <1>1, <1>7, <2>1
  <2>3. chars \in {1, 2, 3} => 1 <= used + (5 * n - 2) \div 4
    <3>1. CASE n >= 2
      <4>1. (5 * n - 2) \div 4 >= 1
        BY <1>1, <3>1
      <4>2. QED
        BY <1>1, <1>7, <4>1
    <3>2. CASE n = 1
      <4>1. used >= 1
        <5>1. TokensOf(rows[1]) >= 1 /\ TokensOf(rows[1]) \in Nat
          <6>1. rows[1] \in R
            BY <3>2, ElementOfSeq DEF n
          <6>2. BlockChars(rows[1]) \in Nat /\ BlockChars(rows[1]) >= 4
            <7>1. BlockFrame \in Nat /\ BlockFrame >= CharsPerToken
              BY RetrievalAssumption, Zenon DEF RetrievalAssumption
            <7>2. rows[1].chunk.chars \in Nat
              BY <6>1
            <7>3. QED
              BY <7>1, <7>2 DEF BlockChars, CharsPerToken
          <6>3. QED
            BY <6>2 DEF TokensOf, EstimateTokens, CharsPerToken
        <5>2. u[1] = u[0] + TokensOf(rows[1])
          BY <1>3, <3>2
        <5>3. QED
          BY <1>3, <3>2, <5>1, <5>2 DEF used
      <4>2. (5 * n - 2) \div 4 = 0
        BY <3>2
      <4>3. QED
        BY <1>7, <4>1, <4>2
    <3>3. QED
      BY <1>1, <2>1, <3>1, <3>2
  <2>4. QED
    BY <1>1, <1>7, <1>11, <2>2, <2>3
<1>13. QED
  BY <1>8, <1>11, <1>12 DEF used, n, CharsPerToken

\* Among the first n there is one that none is above, in a total preorder.
LEMMA SomeTop ==
    ASSUME NEW n \in Nat \ {0}, NEW L,
           \A i, j \in 1..n : (<<i, j>> \in L \/ <<j, i>> \in L),
           \A i, j, k \in 1..n : (<<i, j>> \in L /\ <<j, k>> \in L => <<i, k>> \in L)
    PROVE  \E m \in 1..n : \A j \in 1..n : <<j, m>> \in L
<1> DEFINE T == {i \in Nat : (i = 0) \/ \E m \in 1..i : \A j \in 1..i : <<j, m>> \in L}
<1>1. 0 \in T
  OBVIOUS
<1>2. ASSUME NEW i \in 1..n, i - 1 \in T
      PROVE  i \in T
  <2>1. /\ i \in Nat /\ i \in 1..i /\ 1..i \subseteq 1..n
        /\ \A j \in 1..i : (j = i \/ j \in 1..(i - 1))
        /\ \A j \in 1..(i - 1) : j \in 1..i
    OBVIOUS
  <2>2. <<i, i>> \in L
    OBVIOUS
  <2>3. CASE i - 1 = 0
    <3>1. \A j \in 1..i : j = i
      BY <2>1, <2>3
    <3>2. QED
      BY <2>1, <2>2, <3>1
  <2>4. CASE i - 1 # 0
    <3>1. PICK m \in 1..(i - 1) : \A j \in 1..(i - 1) : <<j, m>> \in L
      BY <1>2, <2>4
    <3>2. m \in 1..i /\ m \in 1..n
      BY <2>1
    <3>3. CASE <<i, m>> \in L
      <4>1. \A j \in 1..i : <<j, m>> \in L
        BY <2>1, <3>1, <3>3
      <4>2. QED
        BY <2>1, <3>2, <4>1
    <3>4. CASE <<m, i>> \in L
      <4>1. \A j \in 1..i : <<j, i>> \in L
        <5>1. \A j \in 1..(i - 1) : j \in 1..n
          BY <2>1
        <5>2. QED
          BY <2>1, <2>2, <3>1, <3>2, <3>4, <5>1
      <4>2. QED
        BY <2>1, <4>1
    <3>5. QED
      BY <3>2, <3>3, <3>4
  <2>5. QED
    BY <2>3, <2>4
<1>3. n \in T
  <2> HIDE DEF T
  <2>1. \A i \in 0..n : i \in T
    BY <1>1, <1>2, UpTo
  <2>2. QED
    BY <2>1
<1>4. QED
  BY <1>3

\* The greatest value of a function, and the least number of a set.
LEMMA MaxOver ==
    ASSUME NEW n \in Nat \ {0}, NEW f, \A i \in 1..n : f[i] \in Nat
    PROVE  LET X == {f[i] : i \in 1..n}
           IN  Max(X) \in X /\ \A i \in 1..n : f[i] <= Max(X)
<1> DEFINE L == {p \in (1..n) \X (1..n) : f[p[1]] <= f[p[2]]}
           X == {f[i] : i \in 1..n}
<1>1. \A i, j \in 1..n : <<i, j>> \in L <=> f[i] <= f[j]
  OBVIOUS
<1> HIDE DEF L
<1>2. /\ \A i, j \in 1..n : <<i, j>> \in L \/ <<j, i>> \in L
      /\ \A i, j, k \in 1..n : <<i, j>> \in L /\ <<j, k>> \in L => <<i, k>> \in L
  BY <1>1
<1>3. PICK m \in 1..n : \A j \in 1..n : <<j, m>> \in L
  BY <1>2, SomeTop
<1>4. f[m] \in X /\ \A x \in X : f[m] >= x
  BY <1>1, <1>3
<1> HIDE DEF X
<1>5. Max(X) \in X /\ \A x \in X : Max(X) >= x
  BY <1>4 DEF Max
<1>6. X \subseteq Nat
  BY DEF X
<1>7. QED
  BY <1>5, <1>6 DEF X

LEMMA MinIn ==
    ASSUME NEW X, X \subseteq Nat, X # {}
    PROVE  Min(X) \in X /\ \A y \in X : Min(X) <= y
BY LeastNumber DEF Min

\* Any result makes a context as ContextIsCited says.
LEMMA ContextCited ==
    ASSUME NEW R, \A r \in R : r.chunk.chars \in Nat, NEW result \in Seq(R)
    PROVE  Cited(result, Context(Packed(result, TokenBudget)))
<1> DEFINE k == Len(result)
           c == Context(Packed(result, TokenBudget))
<1>1. TokenBudget \in Nat
  BY RetrievalAssumption DEF RetrievalAssumption
<1>2. PICK a \in States(R) : /\ Packed(result, TokenBudget) = a.rows
                             /\ \E o, u : IsPacked(result, a, o, u, k, TokenBudget)
  BY <1>1, PackedIs
<1>3. PICK o, u : IsPacked(result, a, o, u, k, TokenBudget)
  BY <1>2
<1> DEFINE rows == a.rows
           n == Len(rows)
<1>4. /\ Placed(result, rows, o, k) /\ Counted(rows, u) /\ u[n] = a.used
      /\ ~a.full => Covered(result, rows, k)
      /\ ((k = 0) <=> (rows = <<>>))
      /\ n > 1 => a.used <= TokenBudget
      /\ a.full => \E j \in 1..k : a.used + TokensOf(result[j]) > TokenBudget
  BY <1>3 DEF IsPacked
<1>5. /\ rows \in Seq(R) /\ n \in Nat /\ k \in Nat /\ a.used \in Nat /\ a.full \in BOOLEAN
      /\ DOMAIN rows = 1..n /\ DOMAIN result = 1..k
      /\ (rows = <<>> <=> n = 0) /\ (result = <<>> <=> k = 0)
  BY DEF States
<1>6. /\ c.rows = rows /\ c.tokens = Context(rows).tokens /\ Len(c.citations) = n
  <2>1. c = Context(rows)
    BY <1>2
  <2>2. Context(rows).rows = rows
    BY DEF Context
  <2>3. Len(Context(rows).citations) = n
    <3> DEFINE Cite(i) == [framework |-> rows[i].chunk.framework,
                           control |-> rows[i].chunk.control]
    <3>1. Context(rows).citations = [i \in 1..n |-> Cite(i)]
      BY <1>5 DEF Context
    <3> HIDE DEF Cite
    <3>2. n \in Nat
      BY <1>5
    <3>3. QED
      BY <3>1, <3>2
  <2>4. QED
    BY <2>1, <2>2, <2>3
<1>7. /\ c.tokens \in Nat /\ a.used <= c.tokens
      /\ rows # <<>> => c.tokens <= a.used + (5 * n - 2) \div CharsPerToken
  BY <1>4, <1>5, <1>6, ContextTokens
<1> HIDE DEF c, rows, n
<1> DEFINE First(row) == Min({i \in 1..k : HashOf(result[i]) = HashOf(row)})
<1>8. ASSUME NEW i \in 1..n
      PROVE  First(rows[i]) = o[i] /\ o[i] \in 1..k
  <2>1. /\ o[i] \in 1..k /\ rows[i] = result[o[i]]
        /\ \A j \in 1..(o[i] - 1) : HashOf(result[j]) # HashOf(result[o[i]])
    BY <1>4 DEF Placed, n
  <2> DEFINE X == {j \in 1..k : HashOf(result[j]) = HashOf(rows[i])}
  <2>2. X \subseteq Nat /\ o[i] \in X
    BY <1>5, <2>1
  <2>3. \A j \in X : o[i] <= j
    <3>1. \A j \in 1..k : j \in 1..(o[i] - 1) \/ o[i] <= j
      BY <1>5, <2>1
    <3>2. QED
      BY <2>1, <3>1
  <2>4. First(rows[i]) = Min(X)
    OBVIOUS
  <2> HIDE DEF X, First
  <2>5. Min(X) \in X /\ \A y \in X : Min(X) <= y
    BY <2>2, MinIn
  <2>6. Min(X) = o[i]
    <3>1. o[i] \in Nat /\ Min(X) \in Nat
      BY <2>2, <2>5
    <3>2. Min(X) <= o[i] /\ o[i] <= Min(X)
      BY <2>2, <2>3, <2>5
    <3>3. QED
      BY <3>1, <3>2
  <2>7. QED
    BY <2>1, <2>4, <2>6
<1>9. ASSUME NEW i \in 1..n
      PROVE  /\ rows[i] = result[First(rows[i])]
             /\ i > 1 => First(rows[i - 1]) < First(rows[i])
             /\ \A j \in 1..First(rows[i]) :
                   \E h \in 1..i : HashOf(rows[h]) = HashOf(result[j])
  <2>1. /\ rows[i] = result[o[i]] /\ (i > 1 => o[i - 1] < o[i])
        /\ \A j \in 1..o[i] : \E h \in 1..i : HashOf(rows[h]) = HashOf(result[j])
    BY <1>4 DEF Placed, n
  <2>2. i > 1 => i - 1 \in 1..n
    BY <1>5
  <2> HIDE DEF First
  <2>3. QED
    BY <1>8, <2>1, <2>2
<1>10. n > 1 => c.tokens <= TokenBudget + (5 * n - 2) \div CharsPerToken
  <2>1. ASSUME n > 1
        PROVE  c.tokens <= TokenBudget + (5 * n - 2) \div CharsPerToken
    <3>1. a.used <= TokenBudget /\ c.tokens <= a.used + (5 * n - 2) \div CharsPerToken
      BY <1>4, <1>5, <1>7, <2>1 DEF n
    <3>2. (5 * n - 2) \div CharsPerToken \in Int
      BY <1>5 DEF CharsPerToken
    <3>3. QED
      BY <1>1, <1>5, <1>7, <3>1, <3>2
  <2>2. QED
    BY <2>1
<1>11. ASSUME ToSet(result) # {}, NEW tokens,
              tokens = Max({TokensOf(row) : row \in ToSet(result)})
       PROVE  \/ {HashOf(row) : row \in ToSet(result)} = {HashOf(row) : row \in ToSet(rows)}
              \/ c.tokens + tokens >= TokenBudget
  <2>1. ToSet(result) = {result[i] : i \in 1..k} /\ ToSet(rows) = {rows[i] : i \in 1..n}
    BY <1>5 DEF ToSet
  <2>2. CASE ~a.full
    <3>1. \A j \in 1..k : \E h \in 1..n : HashOf(rows[h]) = HashOf(result[j])
      BY <1>4, <2>2 DEF Covered, n
    <3>2. \A i \in 1..n : o[i] \in 1..k /\ rows[i] = result[o[i]]
      BY <1>4 DEF Placed, n
    <3>3. QED
      BY <2>1, <3>1, <3>2
  <2>3. CASE a.full
    <3>1. PICK j \in 1..k : a.used + TokensOf(result[j]) > TokenBudget
      BY <1>4, <2>3
    <3> DEFINE f == [i \in 1..k |-> TokensOf(result[i])]
    <3>2. \A i \in 1..k : f[i] \in Nat
      <4>1. \A i \in 1..k : result[i] \in R
        BY ElementOfSeq
      <4>2. QED
        BY <4>1, BlockFacts
    <3>3. k \in Nat \ {0}
      BY <1>5
    <3>4. {f[i] : i \in 1..k} = {TokensOf(row) : row \in ToSet(result)}
      BY <2>1
    <3>5. f[j] = TokensOf(result[j])
      OBVIOUS
    <3> HIDE DEF f
    <3>6. tokens \in {f[i] : i \in 1..k} /\ f[j] <= tokens
      BY <1>11, <3>2, <3>3, <3>4, MaxOver
    <3>7. tokens \in Nat /\ f[j] \in Nat
      BY <3>2, <3>6
    <3>8. a.used + f[j] > TokenBudget
      BY <3>1, <3>5
    <3>9. c.tokens + tokens >= TokenBudget
      BY <1>1, <1>5, <1>7, <3>6, <3>7, <3>8
    <3>10. QED
      BY <3>9
  <2>4. QED
    BY <1>5, <2>2, <2>3
<1>12. (n = 0) <=> (result = <<>>)
  BY <1>4, <1>5
<1>13. c.rows = rows /\ DOMAIN c.rows = 1..n /\ DOMAIN result = 1..k /\ Len(c.rows) = n
       /\ Len(c.citations) = n
  BY <1>5, <1>6 DEF n
<1> HIDE DEF k
<1>14. Cited(result, c)
  <2>1. ASSUME NEW i \in 1..n
        PROVE  LET Hash(row) == ContentHash(row.chunk)
                   First1(row) == Min({j \in 1..k : Hash(result[j]) = Hash(row)})
               IN  /\ rows[i] = result[First1(rows[i])]
                   /\ i > 1 => First1(rows[i - 1]) < First1(rows[i])
                   /\ \A j \in 1..First1(rows[i]) :
                         \E h \in 1..i : Hash(rows[h]) = Hash(result[j])
    BY <1>9 DEF HashOf
  <2>2. \/ ToSet(result) = {}
        \/ {ContentHash(row.chunk) : row \in ToSet(result)}
              = {ContentHash(row.chunk) : row \in ToSet(rows)}
        \/ c.tokens + Max({EstimateTokens(BlockChars(row)) : row \in ToSet(result)})
              >= TokenBudget
    BY <1>11 DEF HashOf, TokensOf
  <2> DEFINE First1(row) == Min({i \in DOMAIN result : ContentHash(result[i].chunk) = ContentHash(row.chunk)})
  <2>3. \A i \in DOMAIN c.rows :
            /\ c.rows[i] = result[First1(c.rows[i])]
            /\ i > 1 => First1(c.rows[i - 1]) < First1(c.rows[i])
            /\ \A j \in 1..First1(c.rows[i]) :
                  \E h \in 1..i : ContentHash(c.rows[h].chunk) = ContentHash(result[j].chunk)
    <3>1. SUFFICES ASSUME NEW i \in 1..n
                   PROVE  /\ rows[i] = result[First1(rows[i])]
                          /\ i > 1 => First1(rows[i - 1]) < First1(rows[i])
                          /\ \A j \in 1..First1(rows[i]) :
                                \E h \in 1..i : ContentHash(rows[h].chunk) = ContentHash(result[j].chunk)
      <4> HIDE DEF First1
      <4>1. QED
        BY <1>13, Zenon
    <3>2. QED
      BY <1>13, <2>1, Zenon
  <2>4. /\ (Len(c.rows) = 0) <=> (result = <<>>)
        /\ Len(c.citations) = Len(c.rows)
        /\ Len(c.rows) > 1 => c.tokens <= TokenBudget + (5 * Len(c.rows) - 2) \div CharsPerToken
    BY <1>10, <1>12, <1>13
  <2>5. \/ ToSet(result) = {}
        \/ {ContentHash(row.chunk) : row \in ToSet(result)}
              = {ContentHash(row.chunk) : row \in ToSet(c.rows)}
        \/ c.tokens + Max({EstimateTokens(BlockChars(row)) : row \in ToSet(result)})
              >= TokenBudget
    BY <1>13, <2>2
  <2>6. QED
    BY <2>3, <2>4, <2>5, Zenon DEF Cited
<1>15. QED
  BY <1>14 DEF c

-----------------------------------------------------------------------------
\* Fractions: Gcd, Frac and the operations on them.

Pairs(m) == Nat \X (0..m)
Step(f, p) == IF p[2] = 0 THEN p[1] ELSE f[<<p[2], p[1] % p[2]>>]
IsGcd(f, m) == f = [p \in Pairs(m) |-> Step(f, p)]

LEMMA ModIs ==
    ASSUME NEW a \in Nat, NEW b \in Nat \ {0}
    PROVE  a % b \in 0..(b - 1) /\ a % b <= a
OBVIOUS

LEMMA StepIn ==
    ASSUME NEW m \in Nat, NEW p \in Pairs(m), p[2] # 0
    PROVE  /\ <<p[2], p[1] % p[2]>> \in Pairs(m)
           /\ p[1] % p[2] \in Nat /\ p[1] % p[2] <= p[2] - 1
           /\ p[1] \in Nat /\ p[2] \in 1..m
<1>1. p[1] \in Nat /\ p[2] \in 1..m
  BY DEF Pairs
<1> DEFINE x == p[1]
           y == p[2]
           r == x % y
<1>3. r \in 0..(y - 1) /\ y \in 1..m /\ x \in Nat
  <2>1. x \in Nat /\ y \in Nat \ {0} /\ y \in 1..m
    BY <1>1
  <2> HIDE DEF x, y
  <2>2. x % y \in 0..(y - 1)
    BY <2>1, ModIs
  <2>3. QED
    BY <2>1, <2>2
<1> HIDE DEF x, y, r
<1>4. r \in 0..m /\ y \in Nat /\ r \in Nat /\ r <= y - 1
  BY <1>3
<1>5. QED
  BY <1>3, <1>4 DEF Pairs, x, y, r

LEMMA GcdsAgree ==
    ASSUME NEW m \in Nat, NEW k \in Nat, m <= k, NEW f, NEW g, IsGcd(f, m), IsGcd(g, k)
    PROVE  \A p \in Pairs(m) : f[p] = g[p]
<1> DEFINE Bad == {b \in Nat : \E p \in Pairs(m) : p[2] = b /\ f[p] # g[p]}
<1>1. Pairs(m) \subseteq Pairs(k)
  BY DEF Pairs
<1>2. SUFFICES ASSUME Bad # {}
               PROVE  FALSE
  <2>1. \A p \in Pairs(m) : p[2] \in Nat
    BY DEF Pairs
  <2>2. QED
    BY <2>1
<1>3. PICK b \in Bad : \A c \in Bad : b <= c
  <2>1. Bad \subseteq Nat
    OBVIOUS
  <2> HIDE DEF Bad
  <2>2. QED
    BY <1>2, <2>1, LeastNumber
<1>4. PICK p \in Pairs(m) : p[2] = b /\ f[p] # g[p]
  BY <1>3
<1>5. f[p] = Step(f, p) /\ g[p] = Step(g, p)
  BY <1>1 DEF IsGcd
<1>6. p[2] # 0
  BY <1>4, <1>5 DEF Step
<1> DEFINE q == <<p[2], p[1] % p[2]>>
<1>7. q \in Pairs(m) /\ q[2] \in Nat /\ q[2] <= b - 1
  BY <1>4, <1>6, StepIn
<1>8. f[q] = g[q]
  <2> SUFFICES ASSUME f[q] # g[q]
               PROVE  FALSE
    OBVIOUS
  <2> HIDE DEF q
  <2>1. q[2] \in Bad
    BY <1>7
  <2>2. b <= q[2]
    BY <1>3, <2>1
  <2>3. b \in Nat
    BY <1>3
  <2>4. QED
    BY <1>7, <2>2, <2>3
<1>9. QED
  BY <1>4, <1>5, <1>6, <1>8 DEF Step

LEMMA GcdsExist ==
    ASSUME NEW m \in Nat
    PROVE  \E f : IsGcd(f, m)
<1> DEFINE Bad == {k \in Nat : ~\E f : IsGcd(f, k)}
<1> SUFFICES ASSUME Bad # {}
             PROVE  FALSE
  OBVIOUS
<1>1. PICK k \in Bad : \A c \in Bad : k <= c
  <2>1. Bad \subseteq Nat
    OBVIOUS
  <2> HIDE DEF Bad
  <2>2. QED
    BY <2>1, LeastNumber
<1>2. k \in Nat /\ ~\E f : IsGcd(f, k)
  BY <1>1
<1>3. CASE k = 0
  <2> DEFINE f == [p \in Pairs(0) |-> p[1]]
  <2>1. \A p \in Pairs(0) : Step(f, p) = p[1]
    BY DEF Pairs, Step
  <2>2. IsGcd(f, 0)
    BY <2>1 DEF IsGcd
  <2>3. QED
    BY <1>2, <1>3, <2>2
<1>4. CASE k # 0
  <2>1. k - 1 \in Nat /\ ~(k <= k - 1)
    BY <1>2, <1>4
  <2>2. k - 1 \notin Bad
    BY <1>1, <2>1
  <2>3. PICK f : IsGcd(f, k - 1)
    BY <2>1, <2>2
  <2> DEFINE g == [p \in Pairs(k) |-> Step(f, p)]
  <2>4. ASSUME NEW p \in Pairs(k)
        PROVE  Step(f, p) = Step(g, p)
    <3>1. CASE p[2] = 0
      BY <3>1 DEF Step
    <3>2. CASE p[2] # 0
      <4> DEFINE q == <<p[2], p[1] % p[2]>>
      <4>1. q \in Pairs(k) /\ q[2] \in Nat /\ q[2] <= p[2] - 1 /\ p[2] \in 1..k /\ q[1] \in Nat
        BY <1>2, <3>2, StepIn
      <4>2. q = <<q[1], q[2]>>
        OBVIOUS
      <4> HIDE DEF q
      <4>3. q[2] \in 0..(k - 1)
        BY <1>2, <4>1
      <4>4. q \in Pairs(k - 1)
        BY <4>1, <4>2, <4>3 DEF Pairs
      <4>5. f[q] = Step(f, q) /\ g[q] = Step(f, q)
        BY <2>3, <4>1, <4>4 DEF IsGcd
      <4> HIDE DEF g
      <4>6. QED
        BY <3>2, <4>5 DEF Step, q
    <3>3. QED
      BY <3>1, <3>2
  <2>5. g = [p \in Pairs(k) |-> Step(g, p)]
    BY <2>4
  <2>6. QED
    BY <1>2, <2>5 DEF IsGcd
<1>5. QED
  BY <1>3, <1>4

\* Euclid's algorithm is a recursion on the second number: it has a solution, which
\* satisfies its equation.
LEMMA GcdIs == \A p \in Nat \X Nat : Gcd[p] = Step(Gcd, p)
<1> DEFINE F(m) == CHOOSE f : IsGcd(f, m)
           G == [p \in Nat \X Nat |-> F(p[2])[p]]
<1>1. \A m \in Nat : IsGcd(F(m), m)
  BY GcdsExist
<1> HIDE DEF F
<1>2. ASSUME NEW p \in Nat \X Nat
      PROVE  G[p] = Step(G, p)
  <2> DEFINE b == p[2]
             q == <<p[2], p[1] % p[2]>>
  <2>1. p \in Pairs(b) /\ b \in Nat /\ p[1] \in Nat
    BY DEF Pairs
  <2>2. F(b)[p] = Step(F(b), p)
    BY <1>1, <2>1 DEF IsGcd
  <2>3. G[p] = F(b)[p]
    OBVIOUS
  <2>4. CASE b = 0
    BY <2>2, <2>3, <2>4 DEF Step
  <2>5. CASE b # 0
    <3>1. q[2] \in Nat /\ q[2] <= b /\ q \in Pairs(q[2]) /\ q \in Nat \X Nat
      <4>1. q \in Pairs(b) /\ p[1] % p[2] \in Nat /\ p[1] % p[2] <= p[2] - 1
        BY <2>1, <2>5, StepIn
      <4> DEFINE r == p[1] % p[2]
      <4> HIDE DEF r
      <4>2. q = <<b, r>> /\ r \in Nat /\ r <= b - 1
        BY <4>1 DEF r
      <4>3. q \in Pairs(r) /\ q \in Nat \X Nat
        BY <2>1, <4>2 DEF Pairs
      <4>4. q[2] = r
        BY DEF r
      <4>5. QED
        BY <2>1, <4>2, <4>3, <4>4
    <3>2. Step(F(b), p) = F(b)[q]
      BY <2>5 DEF Step
    <3>3. F(q[2])[q] = F(b)[q]
      <4> HIDE DEF q, b
      <4>1. IsGcd(F(q[2]), q[2]) /\ IsGcd(F(b), b)
        BY <1>1, <2>1, <3>1
      <4>2. QED
        BY <2>1, <3>1, <4>1, GcdsAgree
    <3>4. G[q] = F(q[2])[q]
      <4> HIDE DEF q
      <4>1. QED
        BY <3>1
    <3>5. Step(G, p) = G[q]
      BY <2>5 DEF Step
    <3> HIDE DEF G, q
    <3>6. QED
      BY <2>2, <2>3, <3>2, <3>3, <3>4, <3>5
  <2>6. QED
    BY <2>4, <2>5
<1> HIDE DEF F
<1>3. G = [p \in Nat \X Nat |-> IF p[2] = 0 THEN p[1] ELSE G[<<p[2], p[1] % p[2]>>]]
  <2>1. G = [p \in Nat \X Nat |-> Step(G, p)]
    <3>1. G = [p \in Nat \X Nat |-> G[p]]
      OBVIOUS
    <3> HIDE DEF G
    <3>2. QED
      BY <1>2, <3>1
  <2> HIDE DEF G
  <2>2. QED
    BY <2>1 DEF Step
<1> HIDE DEF G
<1>4. Gcd = [p \in Nat \X Nat |-> IF p[2] = 0 THEN p[1] ELSE Gcd[<<p[2], p[1] % p[2]>>]]
  BY <1>3, Zenon DEF Gcd
<1> DEFINE g == Gcd
<1> HIDE DEF g
<1>5. g = [p \in Nat \X Nat |-> Step(g, p)]
  BY <1>4 DEF Step, g
<1>6. \A p \in Nat \X Nat : g[p] = Step(g, p)
  BY <1>5
<1>7. QED
  BY <1>6 DEF g

Divides(g, a) == \E x \in Nat : a = g * x

LEMMA DividesSum ==
    ASSUME NEW g \in Nat, NEW a \in Nat, NEW b \in Nat, NEW r \in Nat, NEW q \in Nat,
           a = b * q + r, Divides(g, b), Divides(g, r)
    PROVE  Divides(g, a)
<1>1. PICK y \in Nat : b = g * y
  BY DEF Divides
<1>2. PICK z \in Nat : r = g * z
  BY DEF Divides
<1>3. a = g * (y * q + z)
  <2>1. (g * y) * q = g * (y * q)
    OBVIOUS
  <2>2. y * q \in Nat
    OBVIOUS
  <2> DEFINE w == y * q
  <2>3. g * (w + z) = g * w + g * z
    <3> HIDE DEF w
    <3>1. w \in Nat
      BY <2>2 DEF w
    <3>2. QED
      BY <3>1
  <2>4. QED
    BY <1>1, <1>2, <2>1, <2>3
<1>4. y * q + z \in Nat
  OBVIOUS
<1>5. QED
  BY <1>3, <1>4 DEF Divides

LEMMA DivModIs ==
    ASSUME NEW a \in Nat, NEW b \in Nat \ {0}
    PROVE  a \div b \in Nat /\ a % b \in Nat /\ a = b * (a \div b) + (a % b)
OBVIOUS

\* The greatest common divisor divides both numbers.
LEMMA GcdDivides ==
    ASSUME NEW a \in Nat, NEW b \in Nat
    PROVE  /\ Gcd[<<a, b>>] \in Nat
           /\ Divides(Gcd[<<a, b>>], a) /\ Divides(Gcd[<<a, b>>], b)
<1> DEFINE Fine(p) == /\ Gcd[p] \in Nat
                      /\ Divides(Gcd[p], p[1]) /\ Divides(Gcd[p], p[2])
           Bad == {c \in Nat : \E p \in Nat \X Nat : p[2] = c /\ ~Fine(p)}
<1>1. SUFFICES ASSUME Bad # {}
               PROVE  FALSE
  <2>1. \A p \in Nat \X Nat : Fine(p)
    <3> HIDE DEF Fine
    <3>1. QED
      OBVIOUS
  <2>2. Fine(<<a, b>>)
    <3> HIDE DEF Fine
    <3>1. QED
      BY <2>1
  <2>3. QED
    BY <2>2
<1> HIDE DEF Fine
<1>2. PICK c \in Bad : \A d \in Bad : c <= d
  <2>1. Bad \subseteq Nat
    OBVIOUS
  <2> HIDE DEF Bad
  <2>2. QED
    BY <1>1, <2>1, LeastNumber
<1>3. PICK p \in Nat \X Nat : p[2] = c /\ ~Fine(p)
  BY <1>2
<1>4. Gcd[p] = Step(Gcd, p)
  BY GcdIs
<1> DEFINE x == p[1]
           q == <<c, x % c>>
<1>5. x \in Nat /\ c \in Nat
  BY <1>2
<1>6. CASE c = 0
  <2>1. Gcd[p] = x
    BY <1>3, <1>4, <1>6 DEF Step
  <2>2. x = x * 1 /\ 0 = x * 0
    BY <1>5
  <2>3. Divides(x, x) /\ Divides(x, 0)
    BY <2>2 DEF Divides
  <2>4. Fine(p)
    BY <1>3, <1>5, <1>6, <2>1, <2>3 DEF Fine
  <2>5. QED
    BY <1>3, <2>4
<1>7. CASE c # 0
  <2> DEFINE r == x % c
             h == x \div c
  <2>1. r \in Nat /\ r \in 0..(c - 1) /\ h \in Nat /\ x = c * h + r
    <3> HIDE DEF x
    <3>1. QED
      BY <1>5, <1>7, ModIs, DivModIs
  <2> HIDE DEF r, h
  <2>2. q \in Nat \X Nat /\ q[1] = c /\ q[2] = r
    BY <1>5, <2>1 DEF r
  <2>3. Gcd[p] = Gcd[q]
    BY <1>3, <1>4, <1>7 DEF Step
  <2> HIDE DEF q, x
  <2>4. Fine(q)
    <3> SUFFICES ASSUME ~Fine(q)
                 PROVE  FALSE
      OBVIOUS
    <3>1. r \in Bad
      BY <2>1, <2>2
    <3>2. c <= r
      BY <1>2, <3>1
    <3>3. QED
      BY <1>5, <2>1, <3>2
  <2>5. Gcd[q] \in Nat /\ Divides(Gcd[q], c) /\ Divides(Gcd[q], r)
    BY <2>2, <2>4 DEF Fine
  <2>6. Divides(Gcd[q], x)
    <3> DEFINE g == Gcd[q]
    <3> HIDE DEF g
    <3>1. g \in Nat /\ Divides(g, c) /\ Divides(g, r)
      BY <2>5 DEF g
    <3>2. Divides(g, x)
      BY <1>5, <2>1, <3>1, DividesSum
    <3>3. QED
      BY <3>2 DEF g
  <2>7. Fine(p)
    BY <1>3, <2>3, <2>5, <2>6 DEF Fine, x
  <2>8. QED
    BY <1>3, <2>7
<1>8. QED
  BY <1>6, <1>7

LEMMA GcdOfZero ==
    ASSUME NEW b \in Nat \ {0}
    PROVE  Gcd[<<0, b>>] = b
<1>1. 0 % b = 0
  OBVIOUS
<1>2. <<0, b>> \in Nat \X Nat /\ <<b, 0>> \in Nat \X Nat
  OBVIOUS
<1>3. Gcd[<<0, b>>] = Gcd[<<b, 0>>]
  BY <1>1, <1>2, GcdIs DEF Step
<1>4. Gcd[<<b, 0>>] = b
  BY <1>2, GcdIs DEF Step
<1>5. QED
  BY <1>3, <1>4

\* A fraction has a whole numerator and a positive denominator.
Fraction == Int \X (Nat \ {0})

LEMMA FactorIs ==
    ASSUME NEW g \in Nat, NEW x \in Nat, NEW m \in Nat, m = g * x, g # 0
    PROVE  m \div g = x /\ (-m) \div g = -x
<1>1. m \div g = x
  <2>1. m \div g \in Nat /\ m % g \in 0..(g - 1) /\ m = g * (m \div g) + (m % g)
    BY DivModIs, ModIs
  <2> DEFINE h == m \div g
             r == m % g
  <2> HIDE DEF h, r
  <2>2. h \in Nat /\ r \in 0..(g - 1) /\ g * x = g * h + r
    BY <2>1 DEF h, r
  <2>3. g * (x - h) = r
    BY <2>2
  <2>4. ~(x - h >= 1)
    <3> SUFFICES ASSUME x - h >= 1
                 PROVE  FALSE
      OBVIOUS
    <3> DEFINE w == x - h
    <3> HIDE DEF w
    <3>1. w \in Nat /\ w >= 1 /\ g * w = r
      BY <2>2, <2>3 DEF w
    <3>2. g * w >= g
      BY <3>1
    <3>3. QED
      BY <2>2, <3>1, <3>2
  <2>5. ~(x - h <= -1)
    <3> SUFFICES ASSUME x - h <= -1
                 PROVE  FALSE
      OBVIOUS
    <3> DEFINE w == x - h
    <3> HIDE DEF w
    <3>1. w \in Int /\ w <= -1 /\ g * w = r
      BY <2>2, <2>3 DEF w
    <3>2. g * w <= -g
      BY <3>1
    <3>3. QED
      BY <2>2, <3>1, <3>2
  <2>6. x = h
    BY <2>2, <2>4, <2>5
  <2>7. QED
    BY <2>6 DEF h
<1>2. (-m) \div g = -x
  <2> DEFINE k == -m
             h == k \div g
             r == k % g
  <2>1. h \in Int /\ r \in 0..(g - 1) /\ k = g * h + r
    OBVIOUS
  <2> HIDE DEF h, r
  <2>2. -(g * x) = g * h + r
    BY <2>1
  <2>3. g * (x + h) = -r
    BY <2>1, <2>2
  <2> DEFINE w == x + h
  <2> HIDE DEF w
  <2>4. w \in Int /\ g * w = -r
    BY <2>1, <2>3 DEF w
  <2>5. ~(w >= 1)
    <3> SUFFICES ASSUME w >= 1
                 PROVE  FALSE
      OBVIOUS
    <3>1. g * w >= g
      BY <2>4
    <3>2. QED
      BY <2>1, <2>4, <3>1
  <2>6. ~(w <= -1)
    <3> SUFFICES ASSUME w <= -1
                 PROVE  FALSE
      OBVIOUS
    <3>1. g * w <= -g
      BY <2>4
    <3>2. QED
      BY <2>1, <2>4, <3>1
  <2>7. h = -x
    BY <2>1, <2>4, <2>5, <2>6 DEF w
  <2>8. QED
    BY <2>7 DEF h
<1>3. QED
  BY <1>1, <1>2

\* Frac divides both numbers by a common divisor.
LEMMA FracIs ==
    ASSUME NEW n \in Int, NEW d \in Nat \ {0}
    PROVE  /\ Frac(n, d) \in Fraction
           /\ \E g \in Nat \ {0} : n = g * Frac(n, d)[1] /\ d = g * Frac(n, d)[2]
           /\ n = 0 => Frac(n, d) = Zero
<1> DEFINE a == IF n < 0 THEN -n ELSE n
           g == Gcd[<<a, d>>]
<1>1. a \in Nat /\ d \in Nat /\ d # 0 /\ (n = a \/ n = -a)
  OBVIOUS
<1>2. Frac(n, d) = <<n \div g, d \div g>>
  BY DEF Frac
<1>3. g \in Nat /\ Divides(g, a) /\ Divides(g, d)
  <2> HIDE DEF a
  <2>1. QED
    BY <1>1, GcdDivides
<1>4. (n = 0) => g = d
  BY GcdOfZero
<1> HIDE DEF a, g
<1>5. PICK x \in Nat : a = g * x
  BY <1>3 DEF Divides
<1>6. PICK y \in Nat : d = g * y
  BY <1>3 DEF Divides
<1>7. g # 0 /\ y # 0
  BY <1>1, <1>3, <1>6
<1>8. d \div g = y /\ a \div g = x /\ (-a) \div g = -x
  BY <1>1, <1>3, <1>5, <1>6, <1>7, FactorIs
<1>9. \E z \in Int : n \div g = z /\ n = g * z
  <2>1. CASE n = a
    BY <1>5, <1>8, <2>1
  <2>2. CASE n = -a
    <3>1. -(g * x) = g * (-x)
      BY <1>3
    <3>2. -x \in Int
      OBVIOUS
    <3>3. QED
      BY <1>5, <1>8, <2>2, <3>1, <3>2
  <2>3. QED
    BY <1>1, <2>1, <2>2
<1>10. PICK z \in Int : n \div g = z /\ n = g * z
  BY <1>9
<1>11. Frac(n, d) = <<z, y>>
  BY <1>2, <1>8, <1>10
<1>12. n = 0 => z = 0 /\ y = 1
  <2> SUFFICES ASSUME n = 0
               PROVE  z = 0 /\ y = 1
    OBVIOUS
  <2>1. g * z = 0 /\ g = g * y
    BY <1>4, <1>6, <1>10
  <2>2. z = 0
    BY <1>3, <1>7, <2>1
  <2>3. y = 1
    <3>1. g * (y - 1) = 0
      BY <1>3, <2>1
    <3>2. y - 1 = 0
      BY <1>3, <1>7, <3>1
    <3>3. QED
      BY <3>2
  <2>4. QED
    BY <2>2, <2>3
<1>13. QED
  BY <1>3, <1>6, <1>7, <1>10, <1>11, <1>12 DEF Fraction, Zero

LEMMA Product ==
    ASSUME NEW a \in Nat \ {0}, NEW b \in Nat \ {0}
    PROVE  a * b \in Nat \ {0}
OBVIOUS

\* The operations on fractions yield fractions.
LEMMA Ops ==
    ASSUME NEW x \in Fraction, NEW y \in Fraction
    PROVE  /\ Plus(x, y) \in Fraction /\ Minus(x, y) \in Fraction /\ Times(x, y) \in Fraction
           /\ y[1] > 0 => Over(x, y) \in Fraction
<1> DEFINE x1 == x[1]
           x2 == x[2]
           y1 == y[1]
           y2 == y[2]
<1>1. x1 \in Int /\ x2 \in Nat \ {0} /\ y1 \in Int /\ y2 \in Nat \ {0}
  BY DEF Fraction
<1> HIDE DEF x1, x2, y1, y2
<1>2. /\ x2 * y2 \in Nat \ {0}
      /\ x1 * y2 + y1 * x2 \in Int /\ x1 * y2 - y1 * x2 \in Int /\ x1 * y1 \in Int
      /\ x1 * y2 \in Int
  BY <1>1, Product
<1>3. y1 > 0 => x2 * y1 \in Nat \ {0}
  BY <1>1, Product
<1>4. /\ Frac(x1 * y2 + y1 * x2, x2 * y2) \in Fraction
      /\ Frac(x1 * y2 - y1 * x2, x2 * y2) \in Fraction
      /\ Frac(x1 * y1, x2 * y2) \in Fraction
  BY <1>2, FracIs
<1>5. y1 > 0 => Frac(x1 * y2, x2 * y1) \in Fraction
  BY <1>2, <1>3, FracIs
<1>6. QED
  BY <1>4, <1>5 DEF Plus, Minus, Times, Over, x1, x2, y1, y2

\* A difference is positive if it is not negative and not zero.
LEMMA Span ==
    ASSUME NEW x \in Fraction, NEW y \in Fraction, ~Less(x, y), Minus(x, y) # Zero
    PROVE  Minus(x, y)[1] > 0
<1> DEFINE x1 == x[1]
           x2 == x[2]
           y1 == y[1]
           y2 == y[2]
           n == x1 * y2 - y1 * x2
           f == Minus(x, y)
<1>1. x1 \in Int /\ x2 \in Nat \ {0} /\ y1 \in Int /\ y2 \in Nat \ {0}
  BY DEF Fraction
<1>2. ~(x1 * y2 < y1 * x2) /\ f = Frac(n, x2 * y2)
  BY DEF Less, Minus
<1> HIDE DEF x1, x2, y1, y2, f
<1>3. n \in Nat /\ x2 * y2 \in Nat \ {0}
  <2>1. x1 * y2 \in Int /\ y1 * x2 \in Int
    BY <1>1
  <2>2. QED
    BY <1>1, <1>2, <2>1, Product
<1> HIDE DEF n
<1>4. f \in Fraction /\ n # 0
  <2>1. n = 0 => Frac(n, x2 * y2) = Zero
    BY <1>3, FracIs
  <2>2. Frac(n, x2 * y2) \in Fraction
    BY <1>3, FracIs
  <2>3. QED
    BY <1>2, <2>1, <2>2 DEF f
<1>5. PICK g \in Nat \ {0} : n = g * f[1]
  BY <1>2, <1>3, FracIs
<1> DEFINE z == f[1]
<1>6. z \in Int
  BY <1>4 DEF Fraction
<1> HIDE DEF z
<1>7. z > 0
  <2>1. n = g * z
    BY <1>5 DEF z
  <2>2. CASE z <= 0
    <3>1. g * z <= 0
      BY <1>6, <2>2
    <3>2. QED
      BY <1>3, <1>4, <2>1, <3>1
  <2>3. QED
    BY <1>6, <2>2
<1>8. QED
  BY <1>7 DEF z, f

LEMMA Scaled ==
    ASSUME NEW a \in Int, NEW b \in Int, NEW c \in Nat \ {0}
    PROVE  a * c <= b * c <=> a <= b
<1>1. ASSUME a <= b
      PROVE  a * c <= b * c
  BY <1>1
<1>2. ASSUME a > b
      PROVE  a * c > b * c
  <2> DEFINE d == a - b
  <2>1. d \in Nat \ {0} /\ a = b + d
    BY <1>2
  <2> HIDE DEF d
  <2>2. d * c \in Nat \ {0} /\ a * c = b * c + d * c
    BY <2>1
  <2>3. QED
    BY <2>2
<1>3. a * c \in Int /\ b * c \in Int
  OBVIOUS
<1>4. QED
  BY <1>1, <1>2, <1>3

\* Less is a strict weak order.
LEMMA Ordered ==
    /\ \A x \in Fraction : ~Less(x, x)
    /\ \A x, y \in Fraction : Less(x, y) => ~Less(y, x)
    /\ \A x, y, z \in Fraction : ~Less(x, y) /\ ~Less(y, z) => ~Less(x, z)
<1>1. \A x \in Fraction : ~Less(x, x)
  BY DEF Less, Fraction
<1>2. ASSUME NEW x \in Fraction, NEW y \in Fraction
      PROVE  Less(x, y) => ~Less(y, x)
  <2> DEFINE u == x[1] * y[2]
             v == y[1] * x[2]
  <2>1. u \in Int /\ v \in Int
    BY DEF Fraction
  <2>2. (Less(x, y) <=> u < v) /\ (Less(y, x) <=> v < u)
    BY DEF Less
  <2> HIDE DEF u, v
  <2>3. QED
    BY <2>1, <2>2
<1>3. ASSUME NEW x \in Fraction, NEW y \in Fraction, NEW z \in Fraction,
             ~Less(x, y), ~Less(y, z)
      PROVE  ~Less(x, z)
  <2> DEFINE x1 == x[1]
             x2 == x[2]
             y1 == y[1]
             y2 == y[2]
             z1 == z[1]
             z2 == z[2]
  <2>1. /\ x1 \in Int /\ x2 \in Nat \ {0} /\ y1 \in Int /\ y2 \in Nat \ {0}
        /\ z1 \in Int /\ z2 \in Nat \ {0}
    BY DEF Fraction
  <2>2. /\ ~(x1 * y2 < y1 * x2) /\ ~(y1 * z2 < z1 * y2)
        /\ Less(x, z) <=> (x1 * z2 < z1 * x2)
    BY <1>3 DEF Less
  <2> HIDE DEF x1, x2, y1, y2, z1, z2
  <2> DEFINE xy == x1 * y2
             yx == y1 * x2
             yz == y1 * z2
             zy == z1 * y2
             xz == x1 * z2
             zx == z1 * x2
  <2>3. /\ xy \in Int /\ yx \in Int /\ yz \in Int /\ zy \in Int /\ xz \in Int /\ zx \in Int
        /\ xy * z2 = xz * y2 /\ yx * z2 = yz * x2 /\ zy * x2 = zx * y2
    BY <2>1
  <2>4. yx <= xy /\ zy <= yz
    BY <2>2, <2>3
  <2> HIDE DEF xy, yx, yz, zy, xz, zx
  <2>5. yx * z2 <= xy * z2 /\ zy * x2 <= yz * x2
    BY <2>1, <2>3, <2>4, Scaled
  <2>6. zx * y2 <= xz * y2
    <3>1. zx * y2 \in Int /\ xz * y2 \in Int /\ yx * z2 \in Int
      BY <2>1, <2>3
    <3>2. QED
      BY <2>3, <2>5, <3>1
  <2>7. zx <= xz
    BY <2>1, <2>3, <2>6, Scaled
  <2>8. QED
    BY <2>2, <2>3, <2>7 DEF xz, zx
<1>4. QED
  BY <1>1, <1>2, <1>3

-----------------------------------------------------------------------------
\* Sorting: Ahead, At and ByScore.

RankIn(L, n, i) == Cardinality({j \in 1..n : <<j, i>> \in L})

\* In a strict total order of 1..n every place is somebody's.
LEMMA Ranked ==
    ASSUME NEW n \in Nat, NEW L,
           \A i \in 1..n : <<i, i>> \notin L,
           \A i, j \in 1..n : (i # j => (<<i, j>> \in L \/ <<j, i>> \in L)),
           \A i, j, k \in 1..n : (<<i, j>> \in L /\ <<j, k>> \in L => <<i, k>> \in L)
    PROVE  /\ \A i \in 1..n : RankIn(L, n, i) \in 0..(n - 1)
           /\ \A i, j \in 1..n : <<i, j>> \in L => RankIn(L, n, i) < RankIn(L, n, j)
           /\ \A m \in 1..n : \E i \in 1..n : RankIn(L, n, i) = m - 1
<1> DEFINE Before(i) == {j \in 1..n : <<j, i>> \in L}
           rank(i) == Cardinality(Before(i))
<1>1. IsFiniteSet(1..n) /\ Cardinality(1..n) = n
  BY FS_Interval
<1>2. ASSUME NEW i \in 1..n
      PROVE  IsFiniteSet(Before(i)) /\ rank(i) \in 0..(n - 1)
  <2>1. Before(i) \in SUBSET (1..n) /\ Before(i) # 1..n
    OBVIOUS
  <2> HIDE DEF Before
  <2>2. IsFiniteSet(Before(i)) /\ rank(i) <= n /\ rank(i) # n
    BY <1>1, <2>1, FS_Subset
  <2>3. rank(i) \in Nat
    BY <2>2, FS_CardinalityType
  <2>4. QED
    BY <2>2, <2>3
<1>3. ASSUME NEW i \in 1..n, NEW j \in 1..n, <<i, j>> \in L
      PROVE  rank(i) < rank(j)
  <2>1. Before(i) \in SUBSET Before(j) /\ Before(i) # Before(j)
    BY <1>3
  <2> HIDE DEF Before
  <2>2. rank(i) <= rank(j) /\ rank(i) # rank(j)
    BY <1>2, <2>1, FS_Subset
  <2>3. QED
    BY <1>2, <2>2
<1> DEFINE f == [i \in 1..n |-> rank(i)]
<1>4. f \in Injection(1..n, 0..(n - 1))
  <2>1. f \in [1..n -> 0..(n - 1)]
    <3> HIDE DEF rank
    <3>1. QED
      BY <1>2
  <2>2. ASSUME NEW i \in 1..n, NEW j \in 1..n, i # j
        PROVE  rank(i) # rank(j)
    <3>0. rank(i) \in 0..(n - 1) /\ rank(j) \in 0..(n - 1)
      BY <1>2
    <3> HIDE DEF rank
    <3>1. rank(i) < rank(j) \/ rank(j) < rank(i)
      BY <1>3, <2>2
    <3>2. rank(i) \in Int /\ rank(j) \in Int
      BY <3>0
    <3>3. QED
      BY <3>1, <3>2
  <2> HIDE DEF rank
  <2>3. IsInjective(f)
    BY <2>2 DEF IsInjective
  <2> HIDE DEF f
  <2>4. QED
    BY <2>1, <2>3 DEF Injection
<1>5. f \in Surjection(1..n, 0..(n - 1))
  <2>1. IsFiniteSet(0..(n - 1)) /\ Cardinality(0..(n - 1)) = n
    <3>1. n - 1 \in Int /\ (0 > n - 1 => n = 0) /\ n - 1 - 0 + 1 = n
      OBVIOUS
    <3>2. QED
      BY <3>1, FS_Interval
  <2> HIDE DEF f
  <2>2. QED
    BY <1>1, <1>4, <2>1, FS_Injection
<1>6. ASSUME NEW m \in 1..n
      PROVE  \E i \in 1..n : rank(i) = m - 1
  <2>1. m - 1 \in 0..(n - 1)
    OBVIOUS
  <2>2. \E i \in 1..n : f[i] = m - 1
    <3> HIDE DEF f
    <3>1. QED
      BY <1>5, <2>1 DEF Surjection
  <2>3. QED
    BY <2>2
<1>7. \A i : rank(i) = RankIn(L, n, i)
  BY DEF RankIn
<1> HIDE DEF rank
<1>8. QED
  BY <1>2, <1>3, <1>6, <1>7

\* Ahead is one, of the places of a list.
LEMMA AheadOrders ==
    ASSUME NEW R, \A r \in R : r.score \in Fraction, NEW list \in Seq(R),
           NEW i \in DOMAIN list
    PROVE  /\ ~Ahead(list, i, i)
           /\ \A j \in DOMAIN list : i # j => Ahead(list, i, j) \/ Ahead(list, j, i)
           /\ \A j, k \in DOMAIN list :
                 Ahead(list, i, j) /\ Ahead(list, j, k) => Ahead(list, i, k)
<1>1. \A j \in DOMAIN list : list[j].score \in Fraction /\ j \in Nat
  BY ElementOfSeq
<1>2. ~Ahead(list, i, i)
  BY <1>1, Ordered DEF Ahead
<1>3. \A j \in DOMAIN list : i # j => Ahead(list, i, j) \/ Ahead(list, j, i)
  BY <1>1, Ordered DEF Ahead
<1>4. ASSUME NEW j \in DOMAIN list, NEW k \in DOMAIN list, Ahead(list, i, j), Ahead(list, j, k)
      PROVE  Ahead(list, i, k)
  <2> DEFINE a == list[i].score
             b == list[j].score
             c == list[k].score
  <2>1. a \in Fraction /\ b \in Fraction /\ c \in Fraction
    BY <1>1
  <2>2. /\ Less(b, a) \/ (~Less(a, b) /\ i < j)
        /\ Less(c, b) \/ (~Less(b, c) /\ j < k)
        /\ Ahead(list, i, k) <=> (Less(c, a) \/ (~Less(a, c) /\ i < k))
    BY <1>4 DEF Ahead
  <2>3. i < j /\ j < k => i < k
    BY <1>1
  <2> HIDE DEF a, b, c
  <2>4. ~Less(a, b) /\ ~Less(b, c)
    BY <2>1, <2>2, Ordered
  <2>5. ~Less(a, c)
    BY <2>1, <2>4, Ordered
  <2>6. ~Less(c, a) => ~Less(c, b) /\ ~Less(b, a)
    BY <2>1, <2>4, Ordered
  <2>7. QED
    BY <2>2, <2>3, <2>5, <2>6
<1>5. QED
  BY <1>2, <1>3, <1>4

\* Sorting rearranges a list, by descending score.
LEMMA ByScoreIs ==
    ASSUME NEW R, \A r \in R : r.score \in Fraction, NEW list \in Seq(R)
    PROVE  /\ ByScore(list) \in Seq(R) /\ Len(ByScore(list)) = Len(list)
           /\ \E p \in [1..Len(list) -> 1..Len(list)] :
                 /\ \A m \in 1..Len(list) : ByScore(list)[m] = list[p[m]]
                 /\ \A i \in 1..Len(list) : \E m \in 1..Len(list) : p[m] = i
                 /\ \A m, h \in 1..Len(list) : m < h => Ahead(list, p[m], p[h])
<1> DEFINE n == Len(list)
           L == {q \in (1..n) \X (1..n) : Ahead(list, q[1], q[2])}
           rank(i) == RankIn(L, n, i)
           p == [m \in 1..n |-> At(list, m)]
<1>1. n \in Nat /\ DOMAIN list = 1..n
  OBVIOUS
<1>2. \A i, j \in 1..n : <<i, j>> \in L <=> Ahead(list, i, j)
  OBVIOUS
<1>3. \A m : At(list, m) = CHOOSE i \in 1..n : rank(i) = m - 1
  <2>1. ASSUME NEW i \in 1..n
        PROVE  {j \in 1..n : Ahead(list, j, i)} = {j \in 1..n : <<j, i>> \in L}
    <3> HIDE DEF L
    <3>1. QED
      BY <1>2
  <2> HIDE DEF L, n
  <2>2. QED
    BY <1>1, <2>1 DEF At, RankIn
<1> HIDE DEF L
<1>4. /\ \A i \in 1..n : rank(i) \in 0..(n - 1)
      /\ \A i, j \in 1..n : <<i, j>> \in L => rank(i) < rank(j)
      /\ \A m \in 1..n : \E i \in 1..n : rank(i) = m - 1
  <2> HIDE DEF n
  <2>1. /\ \A i \in 1..n : <<i, i>> \notin L
        /\ \A i, j \in 1..n : (i # j => (<<i, j>> \in L \/ <<j, i>> \in L))
        /\ \A i, j, k \in 1..n : (<<i, j>> \in L /\ <<j, k>> \in L => <<i, k>> \in L)
    BY <1>1, <1>2, AheadOrders
  <2> DEFINE Claim == /\ \A i \in 1..n : rank(i) \in 0..(n - 1)
                      /\ \A i, j \in 1..n : <<i, j>> \in L => rank(i) < rank(j)
                      /\ \A m \in 1..n : \E i \in 1..n : rank(i) = m - 1
  <2>2. Claim
    BY <1>1, <2>1, Ranked
  <2>3. QED
    BY <2>2
<1> HIDE DEF n, rank
<1>5. \A m \in 1..n : p[m] \in 1..n /\ rank(p[m]) = m - 1
  BY <1>3, <1>4
<1>6. \A m \in 1..n : ByScore(list)[m] = list[p[m]]
  BY <1>1 DEF ByScore
<1>7. ByScore(list) \in Seq(R) /\ Len(ByScore(list)) = n
  <2>1. \A m \in 1..n : list[p[m]] \in R
    BY <1>1, <1>5, ElementOfSeq
  <2>2. ByScore(list) = [m \in 1..n |-> list[p[m]]]
    BY <1>1 DEF ByScore
  <2> HIDE DEF p
  <2>3. QED
    BY <1>1, <2>1, <2>2
<1> HIDE DEF p
<1>8. ASSUME NEW i \in 1..n, NEW j \in 1..n, rank(i) = rank(j)
      PROVE  i = j
  <2>1. rank(i) \in Int /\ rank(j) \in Int
    BY <1>4
  <2>2. <<i, j>> \notin L /\ <<j, i>> \notin L
    <3>1. ~(rank(i) < rank(j)) /\ ~(rank(j) < rank(i))
      BY <1>8, <2>1
    <3>2. QED
      BY <1>4, <3>1
  <2>3. QED
    BY <1>1, <1>2, <2>2, AheadOrders
<1>9. ASSUME NEW i \in 1..n
      PROVE  \E m \in 1..n : p[m] = i
  <2>1. rank(i) \in 0..(n - 1)
    BY <1>4
  <2> DEFINE m == rank(i) + 1
  <2>2. m \in 1..n /\ m - 1 = rank(i)
    BY <1>1, <2>1
  <2> HIDE DEF m
  <2>3. p[m] = i
    BY <1>5, <1>8, <2>2
  <2>4. QED
    BY <2>2, <2>3
<1>10. ASSUME NEW m \in 1..n, NEW h \in 1..n, m < h
       PROVE  Ahead(list, p[m], p[h])
  <2>1. p[m] \in 1..n /\ p[h] \in 1..n /\ rank(p[m]) = m - 1 /\ rank(p[h]) = h - 1
    BY <1>5
  <2>2. <<p[h], p[m]>> \notin L /\ p[m] # p[h]
    <3>1. ~(h - 1 < m - 1) /\ m - 1 # h - 1
      BY <1>1, <1>10
    <3>2. QED
      BY <1>4, <2>1, <3>1
  <2>3. QED
    BY <1>1, <1>2, <2>1, <2>2, AheadOrders
<1>11. p \in [1..n -> 1..n]
  BY <1>5 DEF p
<1>12. QED
  BY <1>6, <1>7, <1>9, <1>10, <1>11 DEF n

-----------------------------------------------------------------------------
\* Fusion: FusedScore, AddRow and Fused.

\* A text has finitely many terms.
LEMMA FiniteTerms ==
    ASSUME NEW text \in Seq(Sentence)
    PROVE  IsFiniteSet(TermsOf(text))
<1> DEFINE n == Len(text)
           S == {text[i].terms : i \in 1..n}
           f == [i \in 1..n |-> text[i].terms]
<1>1. n \in Nat /\ DOMAIN text = 1..n /\ IsFiniteSet(1..n)
  BY FS_Interval
<1>2. f \in Surjection(1..n, S)
  BY Fun_IsSurj
<1>3. \A T \in S : IsFiniteSet(T)
  <2>1. \A i \in 1..n : text[i] \in Sentence
    BY ElementOfSeq
  <2>2. \A s \in Sentence : IsFiniteSet(s.terms)
    BY DEF Sentence, Terms
  <2>3. QED
    BY <2>1, <2>2
<1>4. TermsOf(text) = UNION S
  BY <1>1 DEF TermsOf
<1> HIDE DEF f, S, n
<1>5. IsFiniteSet(S)
  BY <1>1, <1>2, FS_Surjection
<1>6. QED
  BY <1>3, <1>4, <1>5, FS_UNION

\* What is in a chunk.
LEMMA ChunkFacts == \A c \in AllChunks : c.chars \in Nat /\ IsFiniteSet(c.terms)
<1> SUFFICES ASSUME NEW c \in AllChunks
             PROVE  c.chars \in Nat /\ IsFiniteSet(c.terms)
  OBVIOUS
<1>1. PICK controls \in Corpora : c \in ChunksOfCorpus(controls)
  BY DEF AllChunks
<1>2. PICK control \in controls : c \in ChunksOf(control, ChunkMaxTokens, Overlap)
  BY <1>1 DEF ChunksOfCorpus
<1>3. IsControl(control) /\ ChunkMaxTokens \in Nat /\ Overlap \in Nat
  BY RetrievalAssumption DEF RetrievalAssumption
<1> DEFINE text == control.summary
           p == SplitSummary(text, ChunkMaxTokens, Overlap)
           n == Len(p)
<1>4. text \in Seq(Sentence) /\ text # <<>> /\ control.head \in Nat /\ IsFiniteSet(control.terms)
  BY <1>3 DEF IsControl, Terms
<1>5. PICK e : IsSplit(text, p, e, Len(text), ChunkMaxTokens, Overlap)
  <2> HIDE DEF text
  <2>1. QED
    BY <1>3, <1>4, SplitParts
<1>6. /\ p \in Seq(Seq(Sentence))
      /\ \A i \in 1..n : PartIs(text, p, e, i, ChunkMaxTokens, Overlap)
  BY <1>5 DEF IsSplit
<1>7. PICK i \in 1..n : /\ c.chars = control.head + CharsOf(p[i])
                        /\ c.terms = control.terms \cup TermsOf(p[i])
  <2>1. DOMAIN p = 1..n
    BY <1>6
  <2>2. \E i \in DOMAIN p : c = [framework |-> control.framework, control |-> control.id,
                                 index |-> i,
                                 chars |-> control.head + CharsOf(p[i]),
                                 terms |-> control.terms \cup TermsOf(p[i]),
                                 part |-> p[i]]
    BY <1>2 DEF ChunksOf
  <2> HIDE DEF p, n
  <2>3. QED
    BY <2>1, <2>2
<1> HIDE DEF p, text, n
<1>8. n \in Nat /\ p[i] \in Seq(Sentence)
  BY <1>6, ElementOfSeq DEF n
<1>9. p[i] # <<>>
  <2> DEFINE before == IF i = 1 THEN <<>> ELSE LastOf(p[i - 1], Overlap)
             piece == SubSeq(text, e[i - 1] + 1, e[i])
  <2>1. /\ e[i - 1] \in Nat /\ e[i] \in Nat /\ e[i - 1] < e[i] /\ e[i] <= Len(text)
        /\ p[i] = Joined(before, piece)
    BY <1>6 DEF PartIs
  <2>2. before \in Seq(Sentence)
    <3>1. i # 1 => p[i - 1] \in Seq(Sentence)
      <4>1. i # 1 => i - 1 \in 1..n
        BY <1>8
      <4>2. QED
        BY <1>6, <4>1, ElementOfSeq DEF n
    <3>2. i # 1 => LastOf(p[i - 1], Overlap) \in Seq(Sentence)
      BY <1>3, <3>1, LastOfFacts
    <3>3. QED
      BY <3>2
  <2>3. piece \in Seq(Sentence) /\ piece # <<>>
    <3> DEFINE lo == e[i - 1] + 1
               hi == e[i]
    <3>1. lo \in Nat /\ hi \in Nat /\ 1 <= lo /\ lo <= hi /\ hi <= Len(text) /\ Len(text) \in Nat
      BY <1>4, <2>1
    <3> HIDE DEF lo, hi
    <3>2. lo \in Int /\ hi \in Int /\ \A j \in lo..hi : text[j] \in Sentence
      <4>1. \A j \in lo..hi : j \in 1..Len(text)
        BY <3>1
      <4>2. QED
        BY <1>4, <3>1, <4>1, ElementOfSeq
    <3>3. /\ SubSeq(text, lo, hi) \in Seq(Sentence)
          /\ Len(SubSeq(text, lo, hi)) = IF lo <= hi THEN hi - lo + 1 ELSE 0
      BY <3>2, SubSeqProperties
    <3>4. SubSeq(text, lo, hi) # <<>>
      <4>1. Len(SubSeq(text, lo, hi)) # 0
        BY <3>1, <3>3
      <4>2. Len(<<>>) = 0
        OBVIOUS
      <4>3. QED
        BY <4>1, <4>2
    <3>5. QED
      BY <3>3, <3>4 DEF lo, hi
  <2> HIDE DEF before, piece
  <2>4. Joined(before, piece) # <<>>
    BY <2>2, <2>3, JoinedFacts
  <2>5. QED
    BY <2>1, <2>4
<1>10. CharsOf(p[i]) \in Nat
  <2>1. Len(p[i]) >= 1
    BY <1>8, <1>9, EmptySeq
  <2>2. CharsOf(p[i]) \in Int /\ CharsOf(p[i]) >= Len(p[i]) - 1 /\ Len(p[i]) \in Nat
    BY <1>8, CharsOfType
  <2>3. QED
    BY <2>1, <2>2
<1>11. c.chars \in Nat
  BY <1>4, <1>7, <1>10
<1>12. IsFiniteSet(TermsOf(p[i]))
  BY <1>8, FiniteTerms
<1>13. IsFiniteSet(c.terms)
  <2> DEFINE A == control.terms
             B == TermsOf(p[i])
  <2>1. IsFiniteSet(A) /\ IsFiniteSet(B) /\ c.terms = A \cup B
    BY <1>4, <1>7, <1>12
  <2> HIDE DEF A, B
  <2>2. QED
    BY <2>1, FS_Union
<1>14. QED
  BY <1>11, <1>13

\* Fusion.  A list of rows is ranked if it has no chunk twice.

Ranking(list) == \A i, j \in DOMAIN list : list[i].chunk = list[j].chunk => i = j

\* RankOf is a place of the chunk, and in a ranking the only one.
LEMMA RankIs ==
    ASSUME NEW R, NEW list \in Seq(R), NEW chunk \in ChunksIn(list)
    PROVE  RankOf(list, chunk) \in 1..Len(list) /\ list[RankOf(list, chunk)].chunk = chunk
<1>1. DOMAIN list = 1..Len(list)
  OBVIOUS
<1>2. \E i \in DOMAIN list : list[i].chunk = chunk
  BY DEF ChunksIn
<1>3. QED
  BY <1>1, <1>2 DEF RankOf

LEMMA RankWhere ==
    ASSUME NEW R, NEW list \in Seq(R), Ranking(list), NEW i \in 1..Len(list)
    PROVE  list[i].chunk \in ChunksIn(list) /\ RankOf(list, list[i].chunk) = i
<1>1. i \in DOMAIN list
  OBVIOUS
<1>2. list[i].chunk \in ChunksIn(list)
  BY <1>1 DEF ChunksIn
<1>3. /\ RankOf(list, list[i].chunk) \in DOMAIN list
      /\ list[RankOf(list, list[i].chunk)].chunk = list[i].chunk
  BY <1>2, RankIs
<1>4. QED
  BY <1>1, <1>2, <1>3 DEF Ranking

\* What a list adds to the score of a chunk.
Share(list, chunk) == <<1, RrfK + RankOf(list, chunk)>>
Added(list, chunk, total) ==
    IF chunk \in ChunksIn(list) THEN Plus(total, Share(list, chunk)) ELSE total

LEMMA AddedType ==
    ASSUME NEW R, NEW list \in Seq(R), NEW chunk, NEW total \in Fraction
    PROVE  /\ chunk \in ChunksIn(list) => Share(list, chunk) \in Fraction
           /\ Added(list, chunk, total) \in Fraction
<1>1. ASSUME chunk \in ChunksIn(list)
      PROVE  Share(list, chunk) \in Fraction
  <2>1. RankOf(list, chunk) \in Nat
    BY <1>1, RankIs
  <2>2. RrfK \in Nat \ {0}
    BY RetrievalAssumption DEF RetrievalAssumption
  <2>3. QED
    BY <2>1, <2>2 DEF Share, Fraction
<1>2. QED
  BY <1>1, Ops DEF Added

\* The score of a chunk is the sum of what the two lists add to it.
LEMMA FusedScoreIs ==
    ASSUME NEW R, NEW semantic \in Seq(R), NEW lexical \in Seq(R), NEW chunk
    PROVE  /\ FusedScore(<<semantic, lexical>>, chunk)
                  = Added(lexical, chunk, Added(semantic, chunk, Zero))
           /\ FusedScore(<<semantic, lexical>>, chunk) \in Fraction
<1> DEFINE lists == <<semantic, lexical>>
           A == Fraction
           step == [p \in A \X (1..2) |-> Added(lists[p[2]], chunk, p[1])]
           Recursive(f) == f = [s \in SUBSET (1..2) |->
                                   IF s = {} THEN Zero
                                   ELSE IF chunk \in ChunksIn(lists[Max(s)])
                                        THEN Plus(f[s \ {Max(s)}],
                                                  <<1, RrfK + RankOf(lists[Max(s)], chunk)>>)
                                        ELSE f[s \ {Max(s)}]]
           chosen == CHOOSE f : Recursive(f)
<1>1. 2 \in Nat /\ DOMAIN lists = 1..2 /\ Len(lists) = 2
      /\ lists[1] = semantic /\ lists[2] = lexical /\ \A i \in 1..2 : lists[i] \in Seq(R)
  OBVIOUS
<1> HIDE DEF lists
<1>2. \A a \in A, i \in 1..2 : /\ step[<<a, i>>] = Added(lists[i], chunk, a)
                               /\ Added(lists[i], chunk, a) \in A
  <2>1. \A a \in A, i \in 1..2 : Added(lists[i], chunk, a) \in A
    BY <1>1, AddedType
  <2>2. QED
    BY <2>1
<1>3. Zero \in A
  BY DEF Zero, Fraction
<1> HIDE DEF step, A
<1>4. PICK f : IsFold(f, 1..2, Zero, step)
  BY <1>1, FoldsExist
<1>5. \A s \in SUBSET (1..2) : f[s] \in A
  <2>1. \A a \in A, i \in 1..2 : step[<<a, i>>] \in A
    BY <1>2
  <2> DEFINE n == 2
  <2>2. n \in Nat
    OBVIOUS
  <2> HIDE DEF n
  <2>3. \A s \in SUBSET (1..n) : f[s] \in A
    BY <1>3, <1>4, <2>1, <2>2, FoldTyped DEF n
  <2>4. QED
    BY <2>3 DEF n
<1>6. ASSUME NEW s \in SUBSET (1..2), s # {}
      PROVE  step[<<f[s \ {Max(s)}], Max(s)>>] = Added(lists[Max(s)], chunk, f[s \ {Max(s)}])
  <2>1. Max(s) \in 1..2 /\ s \ {Max(s)} \in SUBSET (1..2)
    BY <1>1, <1>6, MaxIn
  <2>2. f[s \ {Max(s)}] \in A
    BY <1>5, <2>1
  <2>3. QED
    BY <1>2, <2>1, <2>2
<1>7. Recursive(f)
  BY <1>4, <1>6 DEF IsFold, Added, Share
<1>8. Recursive(chosen)
  <2> HIDE DEF Recursive
  <2>1. QED
    BY <1>7
<1>9. FusedScore(lists, chunk) = chosen[1..2]
  BY <1>1 DEF FusedScore, FoldLeft, MapThenFoldSet
<1> HIDE DEF chosen
<1>10. chosen[1..0] = Zero
  BY <1>8
<1>11. ASSUME NEW i \in 1..2
       PROVE  chosen[1..i] = Added(lists[i], chunk, chosen[1..(i - 1)])
  <2>1. /\ 1..i \in SUBSET (1..2) /\ 1..i # {}
        /\ Max(1..i) = i /\ (1..i) \ {i} = 1..(i - 1)
    BY <1>1, SectionOf
  <2>2. QED
    BY <1>8, <2>1 DEF Added, Share
<1>12. chosen[1..1] = Added(semantic, chunk, Zero)
       /\ chosen[1..2] = Added(lexical, chunk, chosen[1..1])
  <2>1. 1 \in 1..2 /\ 2 \in 1..2 /\ 1 - 1 = 0 /\ 2 - 1 = 1
    OBVIOUS
  <2>2. chosen[1..1] = Added(lists[1], chunk, chosen[1..0])
    BY <1>11, <2>1
  <2>3. chosen[1..2] = Added(lists[2], chunk, chosen[1..1])
    BY <1>11, <2>1
  <2>4. QED
    BY <1>1, <1>10, <2>2, <2>3
<1>13. Added(semantic, chunk, Zero) \in Fraction
  BY <1>3, AddedType DEF A
<1>14. Added(lexical, chunk, Added(semantic, chunk, Zero)) \in Fraction
  BY <1>13, AddedType
<1>15. QED
  BY <1>9, <1>12, <1>14 DEF lists

\* The rows are taken from the first list, then from the second.
LEMMA TwoLists ==
    ASSUME NEW R, NEW s \in Seq(R), NEW t \in Seq(R)
    PROVE  FlattenSeq(<<s, t>>) = Joined(s, t)
<1> DEFINE text == Joined(s, t)
           e == [i \in 0..2 |-> IF i = 0 THEN 0 ELSE IF i = 1 THEN Len(s) ELSE Len(text)]
           fresh == <<s, t>>
<1>1. /\ text \in Seq(R) /\ Len(text) = Len(s) + Len(t) /\ Len(s) \in Nat /\ Len(t) \in Nat
      /\ SubSeq(text, Len(s) + 1, Len(text)) = t /\ IsPrefix(s, text)
  <2>1. Joined(s, t) \in Seq(R) /\ Len(Joined(s, t)) = Len(s) + Len(t)
    BY JoinedFacts
  <2>2. SubSeq(Joined(s, t), Len(s) + 1, Len(Joined(s, t))) = t /\ IsPrefix(s, Joined(s, t))
    BY ConcatParts
  <2>3. QED
    BY <2>1, <2>2
<1> HIDE DEF text
<1>2. SubSeq(text, 1, Len(s)) = s
  <2>1. SubSeq(s, 1, Len(s)) = s
    BY SubSeqFull
  <2>2. QED
    BY <1>1, <2>1 DEF IsPrefix
<1>3. e[0] = 0 /\ e[1] = Len(s) /\ e[2] = Len(text)
  OBVIOUS
<1>4. fresh \in [1..2 -> Seq(R)] /\ fresh[1] = s /\ fresh[2] = t
  OBVIOUS
<1> HIDE DEF e, fresh
<1>5. \A i \in 1..2 : /\ e[i - 1] \in Nat /\ e[i] \in Nat
                      /\ e[i - 1] <= e[i] /\ e[i] <= Len(text)
                      /\ fresh[i] = SubSeq(text, e[i - 1] + 1, e[i])
  <2>1. \A i \in 1..2 : (i = 1 /\ i - 1 = 0) \/ (i = 2 /\ i - 1 = 1)
    OBVIOUS
  <2>2. 0 + 1 = 1 /\ Len(text) \in Nat /\ Len(s) <= Len(text)
    BY <1>1
  <2>3. /\ e[0] \in Nat /\ e[1] \in Nat /\ e[0] <= e[1] /\ e[1] <= Len(text)
        /\ fresh[1] = SubSeq(text, e[0] + 1, e[1])
    BY <1>1, <1>2, <1>3, <1>4, <2>2
  <2>4. /\ e[1] \in Nat /\ e[2] \in Nat /\ e[1] <= e[2] /\ e[2] <= Len(text)
        /\ fresh[2] = SubSeq(text, e[1] + 1, e[2])
    BY <1>1, <1>3, <1>4, <2>2
  <2>5. QED
    BY <2>1, <2>3, <2>4
<1>6. 2 \in Nat \ {0}
  OBVIOUS
<1>7. FlattenSeq(fresh) = text
  <2>1. text \in Seq(R) /\ e[0] = 0 /\ e[2] = Len(text) /\ fresh \in [1..2 -> Seq(R)]
    BY <1>1, <1>3, <1>4
  <2>2. ASSUME NEW n \in Nat \ {0}, n = 2
        PROVE  FlattenSeq(fresh) = text
    <3>1. /\ text \in Seq(R) /\ e[0] = 0 /\ e[n] = Len(text)
          /\ fresh \in [1..n -> Seq(R)]
      BY <2>1, <2>2
    <3>2. \A i \in 1..n : /\ e[i - 1] \in Nat /\ e[i] \in Nat
                          /\ e[i - 1] <= e[i] /\ e[i] <= Len(text)
                          /\ fresh[i] = SubSeq(text, e[i - 1] + 1, e[i])
      BY <1>5, <2>2
    <3>3. QED
      BY ONLY n \in Nat \ {0}, <3>1, <3>2, Flattened
  <2>3. QED
    BY <1>6, <2>2
<1>8. QED
  BY <1>7 DEF fresh, text

Scored == [chunk : AllChunks, version : Versions, model : Models, score : Fraction]

LEMMA AddRowType ==
    ASSUME NEW s \in Seq(Scored), NEW t \in Seq(Scored), NEW list \in Seq(Scored),
           NEW row \in Scored
    PROVE  /\ [row EXCEPT !.score = FusedScore(<<s, t>>, row.chunk)] \in Scored
           /\ AddRow(<<s, t>>, list, row) \in Seq(Scored)
<1>1. FusedScore(<<s, t>>, row.chunk) \in Fraction
  BY FusedScoreIs
<1> DEFINE new == [row EXCEPT !.score = FusedScore(<<s, t>>, row.chunk)]
<1>2. new \in Scored
  BY <1>1 DEF Scored
<1> HIDE DEF new
<1>3. Append(list, new) \in Seq(Scored)
  BY <1>2, AppendIs
<1>4. QED
  BY <1>2, <1>3 DEF AddRow, new

\* The fused list, row by row.
LEMMA FusedFold ==
    ASSUME NEW s \in Seq(Scored), NEW t \in Seq(Scored)
    PROVE  LET all == Joined(s, t)
           IN  \E h : /\ h[1..0] = <<>>
                      /\ \A i \in 1..Len(all) :
                            h[1..i] = AddRow(<<s, t>>, h[1..(i - 1)], all[i])
                      /\ Fused(<<s, t>>) = ByScore(h[1..Len(all)])
                      /\ \A i \in 0..Len(all) : h[1..i] \in Seq(Scored)
<1> DEFINE lists == <<s, t>>
           all == FlattenSeq(lists)
           n == Len(all)
           A == Seq(Scored)
           step == [p \in A \X (1..n) |-> AddRow(lists, p[1], all[p[2]])]
           Recursive(f) == f = [u \in SUBSET (1..n) |->
                                   IF u = {} THEN <<>>
                                   ELSE AddRow(lists, f[u \ {Max(u)}], all[Max(u)])]
           chosen == CHOOSE f : Recursive(f)
<1>0. all = Joined(s, t) /\ all \in Seq(Scored)
  BY TwoLists, JoinedFacts
<1> HIDE DEF all
<1>1. n \in Nat /\ DOMAIN all = 1..n
  BY <1>0
<1>2. \A a \in A, i \in 1..n : /\ step[<<a, i>>] = AddRow(lists, a, all[i])
                               /\ AddRow(lists, a, all[i]) \in A
  <2>1. \A i \in 1..n : all[i] \in Scored
    BY <1>0, ElementOfSeq
  <2>2. \A a \in A, i \in 1..n : AddRow(lists, a, all[i]) \in A
    BY <2>1, AddRowType
  <2>3. QED
    BY <2>2
<1>3. <<>> \in A
  OBVIOUS
<1> HIDE DEF step, A, n, lists
<1>4. PICK f : IsFold(f, 1..n, <<>>, step)
  BY <1>1, FoldsExist
<1>5. \A u \in SUBSET (1..n) : f[u] \in A
  <2>1. \A a \in A, i \in 1..n : step[<<a, i>>] \in A
    BY <1>2
  <2>2. QED
    BY <1>1, <1>3, <1>4, <2>1, FoldTyped
<1>6. ASSUME NEW u \in SUBSET (1..n), u # {}
      PROVE  step[<<f[u \ {Max(u)}], Max(u)>>] = AddRow(lists, f[u \ {Max(u)}], all[Max(u)])
  <2>1. Max(u) \in 1..n /\ u \ {Max(u)} \in SUBSET (1..n)
    BY <1>1, <1>6, MaxIn
  <2>2. f[u \ {Max(u)}] \in A
    BY <1>5, <2>1
  <2>3. QED
    BY <1>2, <2>1, <2>2
<1>7. Recursive(f)
  BY <1>4, <1>6 DEF IsFold
<1>8. Recursive(chosen)
  <2> HIDE DEF Recursive
  <2>1. QED
    BY <1>7
<1>9. Fused(lists) = ByScore(chosen[1..n])
  BY <1>1 DEF Fused, FoldLeft, MapThenFoldSet, all
<1> HIDE DEF chosen
<1>10. chosen[1..0] = <<>>
  BY <1>8
<1>11. ASSUME NEW i \in 1..n
       PROVE  chosen[1..i] = AddRow(lists, chosen[1..(i - 1)], all[i])
  <2>1. /\ 1..i \in SUBSET (1..n) /\ 1..i # {}
        /\ Max(1..i) = i /\ (1..i) \ {i} = 1..(i - 1)
    BY <1>1, SectionOf
  <2>2. QED
    BY <1>8, <2>1
<1>12. \A i \in 0..n : chosen[1..i] \in A
  <2> DEFINE T == {i \in 0..n : chosen[1..i] \in A}
  <2>1. 0 \in T
    BY <1>1, <1>3, <1>10
  <2>2. ASSUME NEW i \in 1..n, i - 1 \in T
        PROVE  i \in T
    <3>1. chosen[1..(i - 1)] \in A /\ i \in 0..n
      BY <2>2
    <3>2. AddRow(lists, chosen[1..(i - 1)], all[i]) \in A
      BY <1>2, <3>1
    <3>3. chosen[1..i] \in A
      BY <1>11, <3>2
    <3>4. QED
      BY <3>1, <3>3
  <2> HIDE DEF T
  <2>3. \A i \in 0..n : i \in T
    BY <1>1, <2>1, <2>2, UpTo
  <2>4. QED
    BY <2>3 DEF T
<1>13. QED
  BY <1>0, <1>9, <1>10, <1>11, <1>12 DEF lists, n, A

\* The fused list before it is sorted.
Collected(lists, all, list, k) ==
    /\ list \in Seq(Scored) /\ Ranking(list)
    /\ ChunksIn(list) = {all[j].chunk : j \in 1..k}
    /\ \A m \in 1..Len(list) :
          \E j \in 1..k :
              list[m] = [all[j] EXCEPT !.score = FusedScore(lists, all[j].chunk)]

\* A row joins the fused list unless its chunk is in it.
LEMMA CollectedStep ==
    ASSUME NEW s \in Seq(Scored), NEW t \in Seq(Scored), NEW all \in Seq(Scored),
           NEW k \in 1..Len(all), NEW list, Collected(<<s, t>>, all, list, k - 1)
    PROVE  Collected(<<s, t>>, all, AddRow(<<s, t>>, list, all[k]), k)
<1> DEFINE lists == <<s, t>>
           row == all[k]
           new == [row EXCEPT !.score = FusedScore(lists, row.chunk)]
<1>1. /\ row \in Scored /\ k \in 1..k
      /\ \A j \in 1..k : (j = k \/ j \in 1..(k - 1))
      /\ \A j \in 1..(k - 1) : j \in 1..k
  BY ElementOfSeq
<1>2. /\ list \in Seq(Scored) /\ Ranking(list)
      /\ ChunksIn(list) = {all[j].chunk : j \in 1..(k - 1)}
      /\ \A m \in 1..Len(list) :
            \E j \in 1..(k - 1) :
                list[m] = [all[j] EXCEPT !.score = FusedScore(lists, all[j].chunk)]
  BY DEF Collected
<1>3. new \in Scored /\ new.chunk = row.chunk
  BY <1>1, AddRowType DEF Scored
<1>4. CASE row.chunk \in ChunksIn(list)
  <2>1. AddRow(lists, list, row) = list
    BY <1>4 DEF AddRow
  <2>2. ChunksIn(list) = {all[j].chunk : j \in 1..k}
    <3> HIDE DEF lists, new
    <3>1. QED
      BY <1>1, <1>2, <1>4
  <2>3. QED
    BY <1>1, <1>2, <2>1, <2>2 DEF Collected
<1>5. CASE row.chunk \notin ChunksIn(list)
  <2> DEFINE n == Len(list)
             longer == Append(list, new)
  <2>1. AddRow(lists, list, row) = longer
    BY <1>5 DEF AddRow
  <2>2. /\ longer \in Seq(Scored) /\ Len(longer) = n + 1 /\ n \in Nat
        /\ longer[n + 1] = new /\ \A i \in 1..n : longer[i] = list[i]
    <3> HIDE DEF new
    <3>1. QED
      BY <1>2, <1>3, AppendIs
  <2>3. /\ DOMAIN longer = 1..(n + 1) /\ DOMAIN list = 1..n
        /\ \A i \in 1..(n + 1) : (i = n + 1 \/ i \in 1..n)
        /\ n + 1 \in 1..(n + 1)
        /\ \A i \in 1..n : i \in 1..(n + 1)
    BY <1>2, <2>2
  <2>4. \A m \in 1..(n + 1) :
            \E j \in 1..k :
                longer[m] = [all[j] EXCEPT !.score = FusedScore(lists, all[j].chunk)]
    <3> HIDE DEF lists, n, longer
    <3>1. new = [all[k] EXCEPT !.score = FusedScore(lists, all[k].chunk)]
      OBVIOUS
    <3>2. \A m \in 1..n : \E j \in 1..(k - 1) :
              list[m] = [all[j] EXCEPT !.score = FusedScore(lists, all[j].chunk)]
      BY <1>2 DEF n
    <3> HIDE DEF new
    <3>3. ASSUME NEW m \in 1..n
          PROVE  \E j \in 1..k :
                     longer[m] = [all[j] EXCEPT !.score = FusedScore(lists, all[j].chunk)]
      <4>1. PICK j \in 1..(k - 1) :
                list[m] = [all[j] EXCEPT !.score = FusedScore(lists, all[j].chunk)]
        BY <3>2
      <4>2. j \in 1..k /\ longer[m] = list[m]
        BY <1>1, <2>2
      <4>3. QED
        BY <4>1, <4>2
    <3>4. \E j \in 1..k :
              longer[n + 1] = [all[j] EXCEPT !.score = FusedScore(lists, all[j].chunk)]
      BY <1>1, <2>2, <3>1
    <3>5. QED
      BY <2>3, <3>3, <3>4
  <2> HIDE DEF longer, new, lists, n, row
  <2>5. Ranking(longer)
    <3>1. \A i \in 1..n : list[i].chunk # new.chunk
      BY <1>3, <1>5, <2>3 DEF ChunksIn
    <3>2. \A i, j \in 1..n : list[i].chunk = list[j].chunk => i = j
      BY <1>2, <2>3 DEF Ranking
    <3>3. QED
      BY <2>2, <2>3, <3>1, <3>2 DEF Ranking
  <2>6. ChunksIn(longer) = ChunksIn(list) \cup {row.chunk}
    <3>1. ChunksIn(longer) = {longer[i].chunk : i \in 1..(n + 1)}
          /\ ChunksIn(list) = {list[i].chunk : i \in 1..n}
      BY <2>3 DEF ChunksIn
    <3>2. \A i \in 1..n : longer[i].chunk = list[i].chunk
      BY <2>2
    <3>3. longer[n + 1].chunk = row.chunk
      BY <1>3, <2>2
    <3>4. \A x \in ChunksIn(longer) : x \in ChunksIn(list) \cup {row.chunk}
      BY <2>3, <3>1, <3>2, <3>3
    <3>5. \A i \in 1..n : list[i].chunk \in ChunksIn(longer)
      BY <2>3, <3>1, <3>2
    <3>6. row.chunk \in ChunksIn(longer)
      BY <2>3, <3>1, <3>3
    <3>7. QED
      BY <3>1, <3>4, <3>5, <3>6
  <2>7. ChunksIn(longer) = {all[j].chunk : j \in 1..k}
    BY <1>1, <1>2, <2>6 DEF row
  <2>8. Collected(lists, all, longer, k)
    BY <2>2, <2>4, <2>5, <2>7 DEF Collected
  <2>9. QED
    BY <2>1, <2>8 DEF lists, row
<1>6. QED
  BY <1>4, <1>5

Descending(list) ==
    \A i, j \in DOMAIN list : i < j => ~Less(list[i].score, list[j].score)

\* The rows of list are rows of other.
Within(list, other) == \A i \in DOMAIN list : \E j \in DOMAIN other : list[i] = other[j]

LEMMA WithinChunks ==
    ASSUME NEW list, NEW other, Within(list, other)
    PROVE  ChunksIn(list) \subseteq ChunksIn(other)
BY DEF Within, ChunksIn

\* A ranking sorted by score is a ranking of the same rows, in descending order.
LEMMA Sorted ==
    ASSUME NEW list \in Seq(Scored), Ranking(list)
    PROVE  LET sorted == ByScore(list)
           IN  /\ sorted \in Seq(Scored) /\ Len(sorted) = Len(list)
               /\ Ranking(sorted) /\ Descending(sorted)
               /\ Within(sorted, list) /\ Within(list, sorted)
<1> DEFINE n == Len(list)
           sorted == ByScore(list)
<1>1. \A r \in Scored : r.score \in Fraction
  BY DEF Scored
<1>2. sorted \in Seq(Scored) /\ Len(sorted) = n
  BY <1>1, ByScoreIs
<1>3. PICK p \in [1..n -> 1..n] : /\ \A m \in 1..n : sorted[m] = list[p[m]]
                                  /\ \A i \in 1..n : \E m \in 1..n : p[m] = i
                                  /\ \A m, h \in 1..n : m < h => Ahead(list, p[m], p[h])
  BY <1>1, ByScoreIs
<1>4. DOMAIN list = 1..n /\ DOMAIN sorted = 1..n /\ n \in Nat
  BY <1>2
<1> HIDE DEF n, sorted
<1>5. \A i \in 1..n : list[i].score \in Fraction
  BY <1>1, <1>4, ElementOfSeq DEF n
<1>6. Descending(sorted)
  <2> SUFFICES ASSUME NEW i \in 1..n, NEW j \in 1..n, i < j
               PROVE  ~Less(sorted[i].score, sorted[j].score)
    BY <1>4 DEF Descending
  <2>1. Ahead(list, p[i], p[j]) /\ p[i] \in 1..n /\ p[j] \in 1..n
    BY <1>3
  <2>2. ~Less(list[p[i]].score, list[p[j]].score)
    BY <1>5, <2>1, Ordered DEF Ahead
  <2>3. QED
    BY <1>3, <2>2
<1>7. Ranking(sorted)
  <2> SUFFICES ASSUME NEW i \in 1..n, NEW j \in 1..n, sorted[i].chunk = sorted[j].chunk, i # j
               PROVE  FALSE
    BY <1>4 DEF Ranking
  <2>0. p[i] \in DOMAIN list /\ p[j] \in DOMAIN list /\ sorted[i] = list[p[i]]
        /\ sorted[j] = list[p[j]]
    BY <1>3, <1>4
  <2>1. p[i] = p[j] /\ p[i] \in 1..n
    BY <1>4, <2>0 DEF Ranking
  <2>2. i < j \/ j < i
    BY <1>4
  <2>3. Ahead(list, p[i], p[i])
    BY <1>3, <2>1, <2>2
  <2>4. QED
    BY <1>1, <1>4, <2>1, <2>3, AheadOrders
<1>8. Within(sorted, list) /\ Within(list, sorted)
  <2>1. \A m \in 1..n : p[m] \in 1..n /\ sorted[m] = list[p[m]]
    BY <1>3
  <2>2. Within(sorted, list)
    BY <1>4, <2>1 DEF Within
  <2>3. ASSUME NEW i \in 1..n
        PROVE  \E m \in 1..n : list[i] = sorted[m]
    <3>1. PICK m \in 1..n : p[m] = i
      BY <1>3
    <3>2. QED
      BY <2>1, <3>1
  <2>4. QED
    BY <1>4, <2>2, <2>3 DEF Within
<1>9. QED
  BY <1>2, <1>6, <1>7, <1>8 DEF n, sorted

\* A row of list tells what a row of one of the two rankings tells.
FromOne(list, s, t) ==
    \A i \in DOMAIN list :
        \E row \in ToSet(s) \cup ToSet(t) :
            list[i].chunk = row.chunk /\ list[i].version = row.version

\* What fusion yields of any two lists.
LEMMA FusedIs ==
    ASSUME NEW s \in Seq(Scored), NEW t \in Seq(Scored)
    PROVE  LET fused == Fused(<<s, t>>)
           IN  /\ fused \in Seq(Scored) /\ Ranking(fused) /\ Descending(fused)
               /\ ChunksIn(fused) = ChunksIn(s) \cup ChunksIn(t)
               /\ \A i \in DOMAIN fused :
                     fused[i].score = FusedScore(<<s, t>>, fused[i].chunk)
               /\ FromOne(fused, s, t)
<1> DEFINE lists == <<s, t>>
           all == Joined(s, t)
           n == Len(all)
           fused == Fused(lists)
<1>1. all \in Seq(Scored) /\ n \in Nat /\ Len(s) \in Nat /\ Len(t) \in Nat
      /\ n = Len(s) + Len(t) /\ DOMAIN all = 1..n
  <2>1. all \in Seq(Scored) /\ n = Len(s) + Len(t)
    BY JoinedFacts
  <2>2. QED
    BY <2>1
<1>2. PICK h : /\ h[1..0] = <<>>
               /\ \A i \in 1..n : h[1..i] = AddRow(lists, h[1..(i - 1)], all[i])
               /\ fused = ByScore(h[1..n])
               /\ \A i \in 0..n : h[1..i] \in Seq(Scored)
  BY FusedFold
<1> HIDE DEF lists, n, fused, all
<1>3. Collected(lists, all, h[1..n], n)
  <2> DEFINE T == {i \in 0..n : Collected(lists, all, h[1..i], i)}
  <2>1. 0 \in T
    <3>1. Collected(lists, all, <<>>, 0)
      BY DEF Collected, Ranking, ChunksIn
    <3>2. QED
      BY <1>1, <1>2, <3>1
  <2>2. ASSUME NEW i \in 1..n, i - 1 \in T
        PROVE  i \in T
    <3>1. Collected(lists, all, h[1..(i - 1)], i - 1) /\ i \in 0..n
      BY <2>2
    <3>2. Collected(lists, all, AddRow(lists, h[1..(i - 1)], all[i]), i)
      BY <1>1, <3>1, CollectedStep DEF lists, n
    <3>3. QED
      BY <1>2, <3>1, <3>2
  <2> HIDE DEF T
  <2>3. \A i \in 0..n : i \in T
    BY <1>1, <2>1, <2>2, UpTo
  <2>4. n \in 0..n
    BY <1>1
  <2>5. QED
    BY <2>3, <2>4 DEF T
<1> DEFINE list == h[1..n]
<1>4. /\ list \in Seq(Scored) /\ Ranking(list)
      /\ ChunksIn(list) = {all[j].chunk : j \in 1..n}
      /\ \A m \in 1..Len(list) :
            \E j \in 1..n :
                list[m] = [all[j] EXCEPT !.score = FusedScore(lists, all[j].chunk)]
  BY <1>3 DEF Collected
<1> HIDE DEF list
<1>5. /\ fused \in Seq(Scored) /\ Ranking(fused) /\ Descending(fused)
      /\ Within(fused, list) /\ Within(list, fused)
  BY <1>2, <1>4, Sorted DEF list
<1>6. \A j \in 1..n : all[j] \in Scored /\ all[j] \in ToSet(s) \cup ToSet(t)
  <2> SUFFICES ASSUME NEW j \in 1..n
               PROVE  all[j] \in Scored /\ all[j] \in ToSet(s) \cup ToSet(t)
    OBVIOUS
  <2>1. all[j] \in Scored
    BY <1>1, ElementOfSeq DEF n
  <2>2. (s \o t)[j] = IF j <= Len(s) THEN s[j] ELSE t[j - Len(s)]
    BY <1>1, ConcatProperties
  <2>3. CASE j <= Len(s)
    <3>1. j \in DOMAIN s
      BY <1>1, <2>3
    <3>2. all[j] = s[j]
      BY <2>2, <2>3 DEF all, Joined
    <3>3. QED
      BY <2>1, <3>1, <3>2 DEF ToSet
  <2>4. CASE ~(j <= Len(s))
    <3>1. j - Len(s) \in DOMAIN t
      BY <1>1, <2>4
    <3>2. all[j] = t[j - Len(s)]
      BY <2>2, <2>4 DEF all, Joined
    <3>3. QED
      BY <2>1, <3>1, <3>2 DEF ToSet
  <2>5. QED
    BY <2>3, <2>4
<1>7. ToSet(s) \cup ToSet(t) \subseteq {all[j] : j \in 1..n}
  <2>1. ASSUME NEW i \in 1..Len(s)
        PROVE  \E j \in 1..n : all[j] = s[i]
    <3>1. i \in 1..n
      BY <1>1
    <3>2. all[i] = s[i]
      BY <1>1, <2>1, ConcatProperties DEF all, Joined
    <3>3. QED
      BY <3>1, <3>2
  <2>2. ASSUME NEW i \in 1..Len(t)
        PROVE  \E j \in 1..n : all[j] = t[i]
    <3>1. i + Len(s) \in 1..n /\ ~(i + Len(s) <= Len(s)) /\ (i + Len(s)) - Len(s) = i
          /\ i + Len(s) \in 1..(Len(s) + Len(t))
      BY <1>1
    <3>2. (s \o t)[i + Len(s)] = IF i + Len(s) <= Len(s) THEN s[i + Len(s)]
                                 ELSE t[(i + Len(s)) - Len(s)]
      BY <3>1, ConcatProperties
    <3>3. all[i + Len(s)] = t[i]
      BY <3>1, <3>2 DEF all, Joined
    <3>4. QED
      BY <3>1, <3>3
  <2>3. DOMAIN s = 1..Len(s) /\ DOMAIN t = 1..Len(t)
    OBVIOUS
  <2>4. QED
    BY <2>1, <2>2, <2>3 DEF ToSet
<1>8. ChunksIn(fused) = ChunksIn(s) \cup ChunksIn(t)
  <2>1. ChunksIn(fused) = ChunksIn(list)
    <3>1. ChunksIn(fused) \subseteq ChunksIn(list)
      BY <1>5, WithinChunks
    <3>2. ChunksIn(list) \subseteq ChunksIn(fused)
      BY <1>5, WithinChunks
    <3>3. QED
      BY <3>1, <3>2
  <2>2. ChunksIn(s) \cup ChunksIn(t) = {row.chunk : row \in ToSet(s) \cup ToSet(t)}
    BY DEF ChunksIn, ToSet
  <2>3. ToSet(s) \cup ToSet(t) = {all[j] : j \in 1..n}
    BY <1>6, <1>7
  <2>4. QED
    BY <1>4, <2>1, <2>2, <2>3
<1>9. ASSUME NEW i \in DOMAIN fused
      PROVE  /\ fused[i].score = FusedScore(lists, fused[i].chunk)
             /\ \E row \in ToSet(s) \cup ToSet(t) :
                   fused[i].chunk = row.chunk /\ fused[i].version = row.version
  <2>1. PICK m \in 1..Len(list) : fused[i] = list[m]
    <3>1. DOMAIN list = 1..Len(list)
      BY <1>4
    <3>2. QED
      BY <1>5, <3>1 DEF Within
  <2>2. PICK j \in 1..n : list[m] = [all[j] EXCEPT !.score = FusedScore(lists, all[j].chunk)]
    BY <1>4
  <2>3. all[j] \in Scored /\ all[j] \in ToSet(s) \cup ToSet(t)
    BY <1>6
  <2>4. /\ fused[i].chunk = all[j].chunk /\ fused[i].version = all[j].version
        /\ fused[i].score = FusedScore(lists, all[j].chunk)
    BY <2>1, <2>2, <2>3 DEF Scored
  <2>5. QED
    BY <2>3, <2>4
<1>10. FromOne(fused, s, t)
  BY <1>9 DEF FromOne
<1>11. QED
  BY <1>5, <1>8, <1>9, <1>10 DEF fused, lists

-----------------------------------------------------------------------------
\* Reranking.

NotNegative(list) == \A i \in DOMAIN list : list[i].score[1] >= 0

\* The rows of list tell what rows of other tell.
From(list, other) ==
    \A i \in DOMAIN list : \E j \in DOMAIN other :
        list[i].chunk = other[j].chunk /\ list[i].version = other[j].version

\* A fraction of natural numbers is not negative.
LEMMA FracSign ==
    ASSUME NEW n \in Nat, NEW d \in Nat \ {0}
    PROVE  Frac(n, d) \in Fraction /\ Frac(n, d)[1] >= 0
<1>1. Frac(n, d) \in Fraction
  BY FracIs
<1>2. PICK g \in Nat \ {0} : n = g * Frac(n, d)[1]
  BY FracIs
<1> DEFINE z == Frac(n, d)[1]
<1>3. z \in Int /\ n = g * z
  BY <1>1, <1>2 DEF Fraction
<1> HIDE DEF z
<1>4. z >= 0
  <2> SUFFICES ASSUME z <= -1
               PROVE  FALSE
    BY <1>3
  <2>1. g * z <= -g
    BY <1>3
  <2>2. QED
    BY <1>3, <2>1
<1>5. QED
  BY <1>1, <1>4 DEF z

\* What the beginning of a list has of it.
LEMMA FirstOfIs ==
    ASSUME NEW A, NEW list \in Seq(A), NEW k \in Nat
    PROVE  LET n == Len(list)
               first == FirstOf(list, k)
           IN  /\ first \in Seq(A)
               /\ Len(first) = IF k < n THEN k ELSE n
               /\ DOMAIN first \subseteq DOMAIN list
               /\ \A i \in DOMAIN first : first[i] = list[i]
<1> DEFINE n == Len(list)
           hi == IF k < n THEN k ELSE n
<1>1. n \in Nat /\ DOMAIN list = 1..n /\ hi \in Nat /\ hi <= n
  OBVIOUS
<1> HIDE DEF hi
<1>2. FirstOf(list, k) = SubSeq(list, 1, hi)
  BY DEF FirstOf, hi
<1>3. \A i \in 1..hi : list[i] \in A /\ i \in 1..n
  BY <1>1, ElementOfSeq
<1>4. /\ SubSeq(list, 1, hi) \in Seq(A)
      /\ Len(SubSeq(list, 1, hi)) = IF 1 <= hi THEN hi - 1 + 1 ELSE 0
      /\ \A i \in 1..(hi - 1 + 1) : SubSeq(list, 1, hi)[i] = list[1 + i - 1]
  BY <1>1, <1>3, SubSeqProperties
<1>5. Len(SubSeq(list, 1, hi)) = hi /\ hi - 1 + 1 = hi
  BY <1>1, <1>4
<1>6. DOMAIN SubSeq(list, 1, hi) = 1..hi
  BY <1>4, <1>5
<1>7. \A i \in 1..hi : SubSeq(list, 1, hi)[i] = list[i]
  <2>1. \A i \in 1..hi : 1 + i - 1 = i
    BY <1>1
  <2>2. QED
    BY <1>4, <1>5, <2>1
<1>8. QED
  BY <1>1, <1>2, <1>3, <1>4, <1>5, <1>6, <1>7 DEF hi

LEMMA FirstOfKeeps ==
    ASSUME NEW list \in Seq(Scored), NEW k \in Nat
    PROVE  LET first == FirstOf(list, k)
           IN  /\ From(first, list)
               /\ Ranking(list) => Ranking(first)
               /\ Descending(list) => Descending(first)
               /\ NotNegative(list) => NotNegative(first)
<1> DEFINE first == FirstOf(list, k)
<1>1. DOMAIN first \subseteq DOMAIN list /\ \A i \in DOMAIN first : first[i] = list[i]
  BY FirstOfIs
<1> HIDE DEF first
<1>2. From(first, list)
  BY <1>1 DEF From
<1>3. Ranking(list) => Ranking(first)
  BY <1>1 DEF Ranking
<1>4. Descending(list) => Descending(first)
  BY <1>1 DEF Descending
<1>5. NotNegative(list) => NotNegative(first)
  BY <1>1 DEF NotNegative
<1>6. QED
  BY <1>2, <1>3, <1>4, <1>5 DEF first

LEMMA FromFrom ==
    ASSUME NEW a, NEW b, NEW c, From(a, b), From(b, c)
    PROVE  From(a, c)
BY DEF From

LEMMA WithinFrom ==
    ASSUME NEW a, NEW b, Within(a, b)
    PROVE  From(a, b)
BY DEF From, Within

\* What reranking yields of a list in descending order, whether the query has terms
\* or not.
LEMMA RerankedIs ==
    ASSUME NEW terms \in Terms, NEW list \in Seq(Scored),
           Ranking(list), Descending(list), NotNegative(list)
    PROVE  LET reranked == Reranked(terms, list)
           IN  /\ reranked \in Seq(Scored)
               /\ Len(reranked) = IF RerankTopK < Len(list) THEN RerankTopK ELSE Len(list)
               /\ Ranking(reranked) /\ Descending(reranked) /\ NotNegative(reranked)
               /\ From(reranked, list)
<1> DEFINE n == Len(list)
           Coverage(row) == Frac(Cardinality(terms \cap row.chunk.terms), Cardinality(terms))
           covered == [i \in DOMAIN list |-> [list[i] EXCEPT !.score = Coverage(list[i])]]
           all == IF terms = {} THEN list ELSE ByScore(covered)
<1>1. RerankTopK \in Nat
  <2>1. RerankTopK \in 1..100
    BY RetrievalAssumption, Zenon DEF RetrievalAssumption
  <2>2. QED
    BY <2>1
<1>2. Reranked(terms, list) = FirstOf(all, RerankTopK)
  BY DEF Reranked
<1>3. n \in Nat /\ DOMAIN list = 1..n /\ \A i \in 1..n : list[i] \in Scored
  BY ElementOfSeq
<1>4. /\ all \in Seq(Scored) /\ Len(all) = n
      /\ Ranking(all) /\ Descending(all) /\ NotNegative(all) /\ From(all, list)
  <2>1. CASE terms = {}
    <3>1. all = list
      BY <2>1
    <3>2. From(list, list)
      BY DEF From
    <3>3. QED
      BY <3>1, <3>2
  <2>2. CASE terms # {}
    <3>1. ASSUME NEW i \in 1..n
          PROVE  Coverage(list[i]) \in Fraction /\ Coverage(list[i])[1] >= 0
      <4>1. IsFiniteSet(terms) /\ IsFiniteSet(terms \cap list[i].chunk.terms)
        BY FS_Intersection DEF Terms
      <4>2. Cardinality(terms) \in Nat \ {0}
        BY <2>2, <4>1, FS_CardinalityType, FS_EmptySet
      <4>3. Cardinality(terms \cap list[i].chunk.terms) \in Nat
        BY <4>1, FS_CardinalityType
      <4>4. QED
        BY <4>2, <4>3, FracSign
    <3> HIDE DEF Coverage, n
    <3>2. \A i \in 1..n : /\ covered[i] = [list[i] EXCEPT !.score = Coverage(list[i])]
                          /\ covered[i] \in Scored /\ covered[i].chunk = list[i].chunk
                          /\ covered[i].version = list[i].version
                          /\ covered[i].score = Coverage(list[i])
      BY <1>3, <3>1 DEF Scored
    <3>3. DOMAIN covered = 1..n /\ covered \in Seq(Scored) /\ Len(covered) = n
      <4>1. covered = [i \in 1..n |-> covered[i]]
        BY <1>3
      <4> HIDE DEF covered
      <4>2. QED
        BY <1>3, <3>2, <4>1
    <3> HIDE DEF covered
    <3>4. Ranking(covered)
      BY <1>3, <3>2, <3>3 DEF Ranking
    <3>5. all = ByScore(covered)
      BY <2>2
    <3>6. /\ all \in Seq(Scored) /\ Len(all) = n /\ Ranking(all) /\ Descending(all)
          /\ Within(all, covered)
      <4> HIDE DEF all
      <4>1. QED
        BY <3>3, <3>4, <3>5, Sorted
    <3> HIDE DEF all
    <3>7. From(covered, list)
      BY <1>3, <3>2, <3>3 DEF From
    <3>8. From(all, list)
      BY <3>6, <3>7, WithinFrom, FromFrom
    <3>9. NotNegative(all)
      BY <3>1, <3>2, <3>3, <3>6 DEF NotNegative, Within
    <3>10. QED
      BY <3>6, <3>8, <3>9
  <2>3. QED
    BY <2>1, <2>2
<1> HIDE DEF all
<1> DEFINE first == FirstOf(all, RerankTopK)
<1>5. first \in Seq(Scored) /\ Len(first) = IF RerankTopK < n THEN RerankTopK ELSE n
  BY <1>1, <1>4, FirstOfIs
<1>6. Ranking(first) /\ Descending(first) /\ NotNegative(first) /\ From(first, all)
  BY <1>1, <1>4, FirstOfKeeps
<1> HIDE DEF first
<1>7. From(first, list)
  BY <1>4, <1>6, FromFrom
<1>8. QED
  BY <1>2, <1>5, <1>6, <1>7 DEF first

-----------------------------------------------------------------------------
\* The operations on fractions are monotone.

LEMMA ScaledUp ==
    ASSUME NEW a \in Int, NEW b \in Int, NEW c \in Nat, a <= b
    PROVE  a * c <= b * c
<1> DEFINE d == b - a
<1>1. d \in Nat /\ b = a + d
  OBVIOUS
<1> HIDE DEF d
<1>2. d * c \in Nat /\ b * c = a * c + d * c
  BY <1>1
<1>3. QED
  BY <1>2

\* Fractions compare as what they were made of.
LEMMA FracLess ==
    ASSUME NEW n \in Int, NEW d \in Nat \ {0}, NEW m \in Int, NEW e \in Nat \ {0}
    PROVE  Less(Frac(n, d), Frac(m, e)) <=> n * e < m * d
<1>1. PICK g \in Nat \ {0} : n = g * Frac(n, d)[1] /\ d = g * Frac(n, d)[2]
  BY FracIs
<1>2. PICK h \in Nat \ {0} : m = h * Frac(m, e)[1] /\ e = h * Frac(m, e)[2]
  BY FracIs
<1> DEFINE x1 == Frac(n, d)[1]
           x2 == Frac(n, d)[2]
           y1 == Frac(m, e)[1]
           y2 == Frac(m, e)[2]
<1>3. Frac(n, d) \in Fraction /\ Frac(m, e) \in Fraction
  BY FracIs
<1>4. /\ x1 \in Int /\ x2 \in Nat \ {0} /\ y1 \in Int /\ y2 \in Nat \ {0}
      /\ n = g * x1 /\ d = g * x2 /\ m = h * y1 /\ e = h * y2
      /\ Less(Frac(n, d), Frac(m, e)) <=> x1 * y2 < y1 * x2
  BY <1>1, <1>2, <1>3 DEF Fraction, Less
<1> HIDE DEF x1, x2, y1, y2
<1> DEFINE u == x1 * y2
           v == y1 * x2
           gh == g * h
<1>5. /\ u \in Int /\ v \in Int /\ gh \in Nat \ {0}
      /\ n * e = u * gh /\ m * d = v * gh
  <2>1. u \in Int /\ v \in Int /\ gh \in Nat \ {0}
    BY <1>4, Product
  <2>2. n * e = u * gh
    BY <1>4
  <2>3. m * d = v * gh
    BY <1>4
  <2>4. QED
    BY <2>1, <2>2, <2>3
<1>6. Less(Frac(n, d), Frac(m, e)) <=> u < v
  BY <1>4
<1> HIDE DEF u, v, gh
<1>7. v * gh <= u * gh <=> v <= u
  BY <1>5, Scaled
<1>8. u * gh \in Int /\ v * gh \in Int
  BY <1>5
<1>9. QED
  BY <1>5, <1>6, <1>7, <1>8

LEMMA Parts ==
    ASSUME NEW x \in Fraction
    PROVE  x[1] \in Int /\ x[2] \in Nat \ {0}
BY DEF Fraction

LEMMA MinusGrows ==
    ASSUME NEW x \in Fraction, NEW y \in Fraction, NEW z \in Fraction, ~Less(y, x)
    PROVE  ~Less(Minus(y, z), Minus(x, z))
<1> DEFINE x1 == x[1]
           x2 == x[2]
           y1 == y[1]
           y2 == y[2]
           z1 == z[1]
           z2 == z[2]
<1>1. /\ x1 \in Int /\ x2 \in Nat \ {0} /\ y1 \in Int /\ y2 \in Nat \ {0}
      /\ z1 \in Int /\ z2 \in Nat \ {0}
  BY Parts
<1>2. /\ ~(y1 * x2 < x1 * y2)
      /\ Minus(y, z) = Frac(y1 * z2 - z1 * y2, y2 * z2)
      /\ Minus(x, z) = Frac(x1 * z2 - z1 * x2, x2 * z2)
  BY DEF Less, Minus
<1> HIDE DEF x1, x2, y1, y2, z1, z2
<1> DEFINE a == y1 * x2
           b == x1 * y2
           w == z2 * z2
           c == (z1 * y2) * (x2 * z2)
           n == y1 * z2 - z1 * y2
           d == y2 * z2
           m == x1 * z2 - z1 * x2
           e == x2 * z2
<1>3. a \in Int /\ b \in Int /\ w \in Nat /\ c \in Int
      /\ n \in Int /\ m \in Int /\ d \in Nat \ {0} /\ e \in Nat \ {0}
  <2>1. d \in Nat \ {0} /\ e \in Nat \ {0} /\ w \in Nat \ {0}
    BY <1>1, Product
  <2>2. a \in Int /\ b \in Int /\ c \in Int /\ n \in Int /\ m \in Int
    BY <1>1
  <2>3. QED
    BY <2>1, <2>2
<1>4. n * e = a * w - c
  BY <1>1
<1>5. m * d = b * w - c
  BY <1>1
<1>6. b <= a
  BY <1>2, <1>3
<1>7. Minus(y, z) = Frac(n, d) /\ Minus(x, z) = Frac(m, e)
  BY <1>2
<1> HIDE DEF a, b, c, w, n, m, d, e
<1>8. b * w <= a * w
  BY <1>3, <1>6, ScaledUp
<1>9. ~(n * e < m * d)
  <2>1. b * w \in Int /\ a * w \in Int
    BY <1>3
  <2>2. QED
    BY <1>3, <1>4, <1>5, <1>8, <2>1
<1>10. QED
  BY <1>3, <1>7, <1>9, FracLess

LEMMA TimesGrows ==
    ASSUME NEW x \in Fraction, NEW y \in Fraction, NEW z \in Fraction, ~Less(y, x), z[1] >= 0
    PROVE  ~Less(Times(z, y), Times(z, x))
<1> DEFINE x1 == x[1]
           x2 == x[2]
           y1 == y[1]
           y2 == y[2]
           z1 == z[1]
           z2 == z[2]
<1>1. /\ x1 \in Int /\ x2 \in Nat \ {0} /\ y1 \in Int /\ y2 \in Nat \ {0}
      /\ z1 \in Nat /\ z2 \in Nat \ {0}
  BY Parts
<1>2. /\ ~(y1 * x2 < x1 * y2)
      /\ Times(z, y) = Frac(z1 * y1, z2 * y2)
      /\ Times(z, x) = Frac(z1 * x1, z2 * x2)
  BY DEF Less, Times
<1> HIDE DEF x1, x2, y1, y2, z1, z2
<1> DEFINE a == y1 * x2
           b == x1 * y2
           w == z1 * z2
           n == z1 * y1
           d == z2 * y2
           m == z1 * x1
           e == z2 * x2
<1>3. a \in Int /\ b \in Int /\ w \in Nat
      /\ n \in Int /\ m \in Int /\ d \in Nat \ {0} /\ e \in Nat \ {0}
  <2>1. d \in Nat \ {0} /\ e \in Nat \ {0}
    BY <1>1, Product
  <2>2. a \in Int /\ b \in Int /\ n \in Int /\ m \in Int /\ w \in Nat
    BY <1>1
  <2>3. QED
    BY <2>1, <2>2
<1>4. n * e = a * w
  BY <1>1
<1>5. m * d = b * w
  BY <1>1
<1>6. b <= a
  BY <1>2, <1>3
<1>7. Times(z, y) = Frac(n, d) /\ Times(z, x) = Frac(m, e)
  BY <1>2
<1> HIDE DEF a, b, w, n, m, d, e
<1>8. b * w <= a * w
  BY <1>3, <1>6, ScaledUp
<1>9. ~(n * e < m * d)
  <2>1. b * w \in Int /\ a * w \in Int
    BY <1>3
  <2>2. QED
    BY <1>3, <1>4, <1>5, <1>8, <2>1
<1>10. QED
  BY <1>3, <1>7, <1>9, FracLess

LEMMA OverGrows ==
    ASSUME NEW x \in Fraction, NEW y \in Fraction, NEW z \in Fraction, ~Less(y, x), z[1] > 0
    PROVE  ~Less(Over(y, z), Over(x, z))
<1> DEFINE x1 == x[1]
           x2 == x[2]
           y1 == y[1]
           y2 == y[2]
           z1 == z[1]
           z2 == z[2]
<1>1. /\ x1 \in Int /\ x2 \in Nat \ {0} /\ y1 \in Int /\ y2 \in Nat \ {0}
      /\ z1 \in Nat \ {0} /\ z2 \in Nat \ {0}
  BY Parts
<1>2. /\ ~(y1 * x2 < x1 * y2)
      /\ Over(y, z) = Frac(y1 * z2, y2 * z1)
      /\ Over(x, z) = Frac(x1 * z2, x2 * z1)
  BY DEF Less, Over
<1> HIDE DEF x1, x2, y1, y2, z1, z2
<1> DEFINE a == y1 * x2
           b == x1 * y2
           w == z1 * z2
           n == y1 * z2
           d == y2 * z1
           m == x1 * z2
           e == x2 * z1
<1>3. a \in Int /\ b \in Int /\ w \in Nat
      /\ n \in Int /\ m \in Int /\ d \in Nat \ {0} /\ e \in Nat \ {0}
  <2>1. d \in Nat \ {0} /\ e \in Nat \ {0}
    BY <1>1, Product
  <2>2. a \in Int /\ b \in Int /\ n \in Int /\ m \in Int /\ w \in Nat
    BY <1>1
  <2>3. QED
    BY <2>1, <2>2
<1>4. n * e = a * w
  BY <1>1
<1>5. m * d = b * w
  BY <1>1
<1>6. b <= a
  BY <1>2, <1>3
<1>7. Over(y, z) = Frac(n, d) /\ Over(x, z) = Frac(m, e)
  BY <1>2
<1> HIDE DEF a, b, w, n, m, d, e
<1>8. b * w <= a * w
  BY <1>3, <1>6, ScaledUp
<1>9. ~(n * e < m * d)
  <2>1. b * w \in Int /\ a * w \in Int
    BY <1>3
  <2>2. QED
    BY <1>3, <1>4, <1>5, <1>8, <2>1
<1>10. QED
  BY <1>3, <1>7, <1>9, FracLess

LEMMA PlusGrows ==
    ASSUME NEW x \in Fraction, NEW y \in Fraction, NEW u \in Fraction, NEW v \in Fraction,
           ~Less(y, x), ~Less(v, u)
    PROVE  /\ ~Less(Plus(y, v), Plus(x, u))
           /\ Less(x, y) \/ Less(u, v) => Less(Plus(x, u), Plus(y, v))
<1> DEFINE x1 == x[1]
           x2 == x[2]
           y1 == y[1]
           y2 == y[2]
           u1 == u[1]
           u2 == u[2]
           v1 == v[1]
           v2 == v[2]
<1>1. /\ x1 \in Int /\ x2 \in Nat \ {0} /\ y1 \in Int /\ y2 \in Nat \ {0}
      /\ u1 \in Int /\ u2 \in Nat \ {0} /\ v1 \in Int /\ v2 \in Nat \ {0}
  BY Parts
<1>2. /\ ~(y1 * x2 < x1 * y2) /\ ~(v1 * u2 < u1 * v2)
      /\ Less(x, y) <=> x1 * y2 < y1 * x2
      /\ Less(u, v) <=> u1 * v2 < v1 * u2
      /\ Plus(y, v) = Frac(y1 * v2 + v1 * y2, y2 * v2)
      /\ Plus(x, u) = Frac(x1 * u2 + u1 * x2, x2 * u2)
  BY DEF Less, Plus
<1> HIDE DEF x1, x2, y1, y2, u1, u2, v1, v2
<1> DEFINE a == y1 * x2
           b == x1 * y2
           p == v1 * u2
           q == u1 * v2
           w == v2 * u2
           k == y2 * x2
           n == y1 * v2 + v1 * y2
           d == y2 * v2
           m == x1 * u2 + u1 * x2
           e == x2 * u2
<1>3. /\ a \in Int /\ b \in Int /\ p \in Int /\ q \in Int
      /\ w \in Nat \ {0} /\ k \in Nat \ {0}
      /\ n \in Int /\ m \in Int /\ d \in Nat \ {0} /\ e \in Nat \ {0}
  <2>1. d \in Nat \ {0} /\ e \in Nat \ {0} /\ w \in Nat \ {0} /\ k \in Nat \ {0}
    BY <1>1, Product
  <2>2. a \in Int /\ b \in Int /\ n \in Int /\ m \in Int /\ p \in Int /\ q \in Int
    BY <1>1
  <2>3. QED
    BY <2>1, <2>2
<1>4. n * e = a * w + p * k
  BY <1>1
<1>5. m * d = b * w + q * k
  BY <1>1
<1>6. b <= a /\ q <= p /\ (Less(x, y) <=> b < a) /\ (Less(u, v) <=> q < p)
  BY <1>2, <1>3
<1>7. Plus(y, v) = Frac(n, d) /\ Plus(x, u) = Frac(m, e)
  BY <1>2
<1> HIDE DEF a, b, p, q, w, k, n, m, d, e
<1>8. /\ a * w \in Int /\ b * w \in Int /\ p * k \in Int /\ q * k \in Int
      /\ b * w <= a * w /\ q * k <= p * k
      /\ (a * w <= b * w <=> a <= b) /\ (p * k <= q * k <=> p <= q)
  <2>1. b * w <= a * w /\ q * k <= p * k
    BY <1>3, <1>6, ScaledUp
  <2>2. (a * w <= b * w <=> a <= b) /\ (p * k <= q * k <=> p <= q)
    BY <1>3, Scaled
  <2>3. a * w \in Int /\ b * w \in Int /\ p * k \in Int /\ q * k \in Int
    BY <1>3
  <2>4. QED
    BY <2>1, <2>2, <2>3
<1>9. ~(n * e < m * d)
  BY <1>4, <1>5, <1>8
<1>10. Less(x, y) \/ Less(u, v) => m * d < n * e
  BY <1>3, <1>4, <1>5, <1>6, <1>8
<1>11. QED
  BY <1>3, <1>7, <1>9, <1>10, FracLess

-----------------------------------------------------------------------------
\* Diversity: Value, Best and Diverse.  Of equally diverse rows the one of the
\* highest score is the best, so that what is first in a list stays first.

\* Greatest and Least of some fractions.
LEMMA Extremes ==
    ASSUME NEW n \in Nat \ {0}, NEW f, \A i \in 1..n : f[i] \in Fraction
    PROVE  LET X == {f[i] : i \in 1..n}
           IN  /\ Greatest(X) \in X /\ \A x \in X : ~Less(Greatest(X), x)
               /\ Least(X) \in X /\ \A x \in X : ~Less(x, Least(X))
<1> DEFINE X == {f[i] : i \in 1..n}
           L == {p \in (1..n) \X (1..n) : ~Less(f[p[2]], f[p[1]])}
           M == {p \in (1..n) \X (1..n) : ~Less(f[p[1]], f[p[2]])}
<1>1. \A i, j \in 1..n : /\ <<i, j>> \in L <=> ~Less(f[j], f[i])
                         /\ <<i, j>> \in M <=> ~Less(f[i], f[j])
  OBVIOUS
<1> HIDE DEF L, M
<1>2. /\ \A i, j \in 1..n : (<<i, j>> \in L \/ <<j, i>> \in L)
      /\ \A i, j, k \in 1..n : (<<i, j>> \in L /\ <<j, k>> \in L => <<i, k>> \in L)
      /\ \A i, j \in 1..n : (<<i, j>> \in M \/ <<j, i>> \in M)
      /\ \A i, j, k \in 1..n : (<<i, j>> \in M /\ <<j, k>> \in M => <<i, k>> \in M)
  BY <1>1, Ordered
<1>3. PICK m \in 1..n : \A j \in 1..n : <<j, m>> \in L
  BY <1>2, SomeTop
<1>4. PICK h \in 1..n : \A j \in 1..n : <<j, h>> \in M
  BY <1>2, SomeTop
<1>5. f[m] \in X /\ \A x \in X : ~Less(f[m], x)
  BY <1>1, <1>3
<1>6. f[h] \in X /\ \A x \in X : ~Less(x, f[h])
  BY <1>1, <1>4
<1> HIDE DEF X
<1>7. Greatest(X) \in X /\ \A x \in X : ~Less(Greatest(X), x)
  BY <1>5 DEF Greatest
<1>8. Least(X) \in X /\ \A x \in X : ~Less(x, Least(X))
  BY <1>6 DEF Least
<1>9. QED
  BY <1>7, <1>8 DEF X

LEMMA SimilarityType ==
    ASSUME NEW a \in AllChunks, NEW b \in AllChunks
    PROVE  Similarity(a, b) \in Fraction
<1> DEFINE both == a.terms \cap b.terms
           either == a.terms \cup b.terms
<1>1. IsFiniteSet(a.terms) /\ IsFiniteSet(b.terms)
  BY ChunkFacts
<1>2. CASE a.terms = {} \/ b.terms = {}
  BY <1>2 DEF Similarity, Zero, Fraction
<1>3. CASE ~(a.terms = {} \/ b.terms = {})
  <2>1. IsFiniteSet(both) /\ IsFiniteSet(either) /\ either # {}
    BY <1>1, <1>3, FS_Intersection, FS_Union
  <2>2. Similarity(a, b) = Frac(Cardinality(both), Cardinality(either))
    BY <1>3 DEF Similarity
  <2> HIDE DEF both, either
  <2>3. Cardinality(both) \in Nat /\ Cardinality(either) \in Nat \ {0}
    BY <2>1, FS_CardinalityType, FS_EmptySet
  <2>4. QED
    BY <2>2, <2>3, FracSign
<1>4. QED
  BY <1>2, <1>3

LEMMA Lambda == MmrLambda \in Fraction /\ MmrLambda[1] >= 0 /\ One \in Fraction /\ Zero \in Fraction
<1>1. MmrLambda \in Nat \X (Nat \ {0})
  BY RetrievalAssumption, Zenon DEF RetrievalAssumption
<1>2. QED
  BY <1>1 DEF Fraction, One, Zero

\* A row is the more relevant, the higher its score.
LEMMA RelevanceIs ==
    ASSUME NEW list \in Seq(Scored), NEW i \in 1..Len(list)
    PROVE  /\ Relevance(list, i) \in Fraction
           /\ \A j \in 1..Len(list) :
                 ~Less(list[i].score, list[j].score) =>
                     ~Less(Relevance(list, i), Relevance(list, j))
<1> DEFINE n == Len(list)
           f == [m \in 1..n |-> list[m].score]
           scores == {list[m].score : m \in DOMAIN list}
           top == Greatest(scores)
           low == Least(scores)
           span == Minus(top, low)
<1>1. /\ n \in Nat \ {0} /\ DOMAIN list = 1..n
      /\ \A m \in 1..n : list[m].score \in Fraction
  <2>1. \A m \in 1..n : list[m] \in Scored
    BY ElementOfSeq
  <2>2. \A m \in 1..n : list[m].score \in Fraction
    BY <2>1 DEF Scored
  <2>3. n \in Nat /\ i \in 1..n /\ DOMAIN list = 1..n
    OBVIOUS
  <2> HIDE DEF n
  <2>4. QED
    BY <2>2, <2>3
<1>2. \A m \in 1..n : f[m] = list[m].score /\ f[m] \in Fraction
  BY <1>1
<1>3. scores = {f[m] : m \in 1..n}
  BY <1>1
<1>4. /\ top \in Fraction /\ low \in Fraction /\ ~Less(top, low)
  <2> HIDE DEF f, scores, n
  <2>0. n \in Nat \ {0} /\ \A m \in 1..n : f[m] \in Fraction
    BY <1>1, <1>2
  <2>4. /\ Greatest({f[m] : m \in 1..n}) \in {f[m] : m \in 1..n}
        /\ \A x \in {f[m] : m \in 1..n} : ~Less(Greatest({f[m] : m \in 1..n}), x)
        /\ Least({f[m] : m \in 1..n}) \in {f[m] : m \in 1..n}
    BY <2>0, Extremes
  <2>1. /\ top \in scores /\ \A x \in scores : ~Less(top, x)
        /\ low \in scores
    BY <1>3, <2>4
  <2> HIDE DEF top, low
  <2>2. scores \subseteq Fraction
    BY <1>2, <1>3
  <2>3. QED
    BY <2>1, <2>2
<1> HIDE DEF n, f
<1>5. \A m : Relevance(list, m) = IF span = Zero THEN One ELSE Over(Minus(list[m].score, low), span)
  BY DEF Relevance
<1> HIDE DEF scores, top, low
<1>6. span \in Fraction /\ (span # Zero => span[1] > 0)
  BY <1>4, Ops, Span
<1> HIDE DEF span
<1>7. \A m \in 1..n : Minus(list[m].score, low) \in Fraction
  BY <1>1, <1>4, Ops
<1>8. \A m \in 1..n : Relevance(list, m) \in Fraction
  BY <1>5, <1>6, <1>7, Ops, Lambda
<1>9. ASSUME NEW j \in 1..n, ~Less(list[i].score, list[j].score)
      PROVE  ~Less(Relevance(list, i), Relevance(list, j))
  <2>1. i \in 1..n
    BY DEF n
  <2>2. ~Less(Minus(list[i].score, low), Minus(list[j].score, low))
    BY <1>1, <1>4, <1>9, <2>1, MinusGrows
  <2>3. CASE span = Zero
    BY <1>5, <2>3, Lambda, Ordered
  <2>4. CASE span # Zero
    BY <1>5, <1>6, <1>7, <2>1, <2>2, <2>4, OverGrows
  <2>5. QED
    BY <2>3, <2>4
<1>10. QED
  BY <1>8, <1>9 DEF n

LEMMA LikenessType ==
    ASSUME NEW list \in Seq(Scored), NEW i \in 1..Len(list), NEW done \in Seq(1..Len(list))
    PROVE  Likeness(list, i, done) \in Fraction
<1>1. CASE done = <<>>
  BY <1>1, Lambda DEF Likeness
<1>2. CASE done # <<>>
  <2> DEFINE k == Len(done)
             f == [m \in 1..k |-> Similarity(list[i].chunk, list[done[m]].chunk)]
             X == {f[m] : m \in 1..k}
  <2>1. k \in Nat \ {0} /\ DOMAIN done = 1..k
    BY <1>2, EmptySeq
  <2>2. \A m \in 1..Len(list) : list[m].chunk \in AllChunks
    <3>1. \A m \in 1..Len(list) : list[m] \in Scored
      BY ElementOfSeq
    <3>2. QED
      BY <3>1 DEF Scored
  <2>3. \A m \in 1..k : done[m] \in 1..Len(list)
    BY ElementOfSeq
  <2>4. ToSet(done) = {done[m] : m \in 1..k}
    BY <2>1 DEF ToSet
  <2>5. {Similarity(list[i].chunk, list[j].chunk) : j \in ToSet(done)} = X
    BY <2>4
  <2>6. \A m \in 1..k : f[m] \in Fraction
    BY <2>2, <2>3, SimilarityType
  <2>7. Likeness(list, i, done) = Greatest(X)
    BY <1>2, <2>5 DEF Likeness
  <2> HIDE DEF f, k
  <2>8. Greatest(X) \in X
    BY <2>1, <2>6, Extremes
  <2>9. QED
    BY <2>6, <2>7, <2>8
<1>3. QED
  BY <1>1, <1>2

\* Of two rows compared with nothing, the one of higher score is worth as much or more.
LEMMA ValueIs ==
    ASSUME NEW list \in Seq(Scored), NEW i \in 1..Len(list)
    PROVE  /\ \A done \in Seq(1..Len(list)) : Value(list, i, done) \in Fraction
           /\ \A j \in 1..Len(list) :
                 ~Less(list[i].score, list[j].score) =>
                     ~Less(Value(list, i, <<>>), Value(list, j, <<>>))
<1> DEFINE n == Len(list)
<1>1. Minus(One, MmrLambda) \in Fraction
  BY Lambda, Ops
<1>2. \A j \in 1..n : Relevance(list, j) \in Fraction /\ Times(MmrLambda, Relevance(list, j)) \in Fraction
  BY Lambda, RelevanceIs, Ops
<1>3. ASSUME NEW done \in Seq(1..n)
      PROVE  Value(list, i, done) \in Fraction
  <2>1. Likeness(list, i, done) \in Fraction
    BY LikenessType
  <2>2. Times(Minus(One, MmrLambda), Likeness(list, i, done)) \in Fraction
    BY <1>1, <2>1, Ops
  <2>3. QED
    BY <1>2, <2>2, Ops DEF Value
<1>4. ASSUME NEW j \in 1..n, ~Less(list[i].score, list[j].score)
      PROVE  ~Less(Value(list, i, <<>>), Value(list, j, <<>>))
  <2> DEFINE z == Times(Minus(One, MmrLambda), Zero)
             x == Times(MmrLambda, Relevance(list, i))
             y == Times(MmrLambda, Relevance(list, j))
  <2>1. z \in Fraction /\ x \in Fraction /\ y \in Fraction
    BY <1>1, <1>2, Lambda, Ops
  <2>2. ~Less(x, y)
    <3>1. ~Less(Relevance(list, i), Relevance(list, j))
      BY <1>4, RelevanceIs
    <3>2. QED
      BY <1>2, <3>1, Lambda, TimesGrows
  <2>3. Value(list, i, <<>>) = Minus(x, z) /\ Value(list, j, <<>>) = Minus(y, z)
    BY DEF Value, Likeness
  <2> HIDE DEF x, y, z
  <2>4. QED
    BY <2>1, <2>2, <2>3, MinusGrows
<1>5. QED
  BY <1>3, <1>4

\* The next row to select is there, and the first one is the first of a sorted list.
LEMMA BestIs ==
    ASSUME NEW list \in Seq(Scored), NEW done \in Seq(1..Len(list)),
           NEW left \in SUBSET (1..Len(list)), left # {}
    PROVE  LET better(i, j) == \/ Less(Value(list, j, done), Value(list, i, done))
                               \/ /\ ~Less(Value(list, i, done), Value(list, j, done))
                                  /\ i < j
           IN  /\ Best(list, left, done) \in left
               /\ \A j \in left \ {Best(list, left, done)} : better(Best(list, left, done), j)
<1> DEFINE n == Len(list)
           v == [i \in 1..n |-> Value(list, i, done)]
           R == [score : Fraction]
           s == [i \in 1..n |-> [score |-> v[i]]]
           better(i, j) == Less(v[j], v[i]) \/ (~Less(v[i], v[j]) /\ i < j)
           L == {p \in (1..n) \X (1..n) :
                     \/ p[1] \notin left
                     \/ p[2] \in left /\ (p[1] = p[2] \/ better(p[2], p[1]))}
<1>1. n \in Nat \ {0} /\ \A i \in 1..n : v[i] \in Fraction /\ v[i] = Value(list, i, done)
  <2>1. \A i \in 1..n : Value(list, i, done) \in Fraction
    BY ValueIs
  <2>2. n \in Nat /\ n # 0
    <3>1. n \in Nat
      OBVIOUS
    <3>2. PICK x \in left : x \in 1..n
      OBVIOUS
    <3> HIDE DEF n
    <3>3. QED
      BY <3>1, <3>2
  <2>3. QED
    BY <2>1, <2>2
<1> HIDE DEF v, n
<1>2. s \in Seq(R) /\ DOMAIN s = 1..n /\ \A i \in 1..n : s[i].score = v[i]
  <2>1. \A i \in 1..n : [score |-> v[i]] \in R
    BY <1>1
  <2> HIDE DEF R
  <2>2. s \in Seq(R) /\ DOMAIN s = 1..n
    BY <1>1, <2>1
  <2>3. QED
    BY <2>2
<1>3. /\ \A i \in 1..n : ~better(i, i)
      /\ \A i, j \in 1..n : i # j => better(i, j) \/ better(j, i)
      /\ \A i, j, k \in 1..n : better(i, j) /\ better(j, k) => better(i, k)
  <2>1. \A r \in R : r.score \in Fraction
    OBVIOUS
  <2> HIDE DEF R, s
  <2>2. \A i, j \in 1..n : Ahead(s, i, j) <=> better(i, j)
    BY <1>2 DEF Ahead
  <2> HIDE DEF better
  <2>3. /\ \A i \in 1..n : ~Ahead(s, i, i)
        /\ \A i, j \in 1..n : i # j => Ahead(s, i, j) \/ Ahead(s, j, i)
        /\ \A i, j, k \in 1..n : Ahead(s, i, j) /\ Ahead(s, j, k) => Ahead(s, i, k)
    BY <1>2, <2>1, AheadOrders
  <2>4. QED
    BY <2>2, <2>3
<1> HIDE DEF better, s, R
<1>4. \A i, j \in 1..n :
          <<i, j>> \in L <=> (i \notin left \/ (j \in left /\ (i = j \/ better(j, i))))
  OBVIOUS
<1> HIDE DEF L
<1>5. /\ \A i, j \in 1..n : (<<i, j>> \in L \/ <<j, i>> \in L)
      /\ \A i, j, k \in 1..n : (<<i, j>> \in L /\ <<j, k>> \in L => <<i, k>> \in L)
  BY <1>3, <1>4
<1>6. PICK m \in 1..n : \A j \in 1..n : <<j, m>> \in L
  BY <1>1, <1>5, SomeTop
<1>7. left \subseteq 1..n
  BY DEF n
<1>8. m \in left /\ \A j \in left \ {m} : better(m, j)
  <2>1. PICK x \in left : TRUE
    OBVIOUS
  <2>2. x \in 1..n /\ <<x, m>> \in L
    BY <1>6, <1>7
  <2>3. m \in left
    BY <1>4, <2>2
  <2>4. QED
    BY <1>4, <1>6, <1>7, <2>3
<1>9. Best(list, left, done) = CHOOSE i \in left : \A j \in left \ {i} : better(i, j)
  <2> DEFINE value == [i \in left |-> Value(list, i, done)]
  <2>1. \A i \in left : value[i] = v[i]
    BY <1>1, <1>7
  <2> HIDE DEF value
  <2>2. \A i, j \in left : better(i, j) <=> \/ Less(value[j], value[i])
                                            \/ ~Less(value[i], value[j]) /\ i < j
    BY <2>1 DEF better
  <2>3. Best(list, left, done) =
            CHOOSE i \in left : \A j \in left \ {i} :
                Less(value[j], value[i]) \/ (~Less(value[i], value[j]) /\ i < j)
    BY DEF Best, value
  <2> HIDE DEF better
  <2>4. QED
    BY <2>2, <2>3
<1>10. \E i \in left : \A j \in left \ {i} : better(i, j)
  BY <1>8
<1> DEFINE b == Best(list, left, done)
<1>11. b \in left /\ \A j \in left \ {b} : better(b, j)
  BY <1>9, <1>10
<1>12. b \in 1..n /\ \A j \in left : j \in 1..n
  BY <1>7, <1>11
<1> HIDE DEF b
<1>13. \A j \in left \ {b} : \/ Less(Value(list, j, done), Value(list, b, done))
                             \/ /\ ~Less(Value(list, b, done), Value(list, j, done))
                                /\ b < j
  BY <1>1, <1>11, <1>12 DEF better
<1>14. QED
  BY <1>11, <1>13 DEF b

LEMMA BestFirst ==
    ASSUME NEW list \in Seq(Scored), Descending(list), list # <<>>
    PROVE  Best(list, DOMAIN list, <<>>) = 1
<1> DEFINE n == Len(list)
           left == DOMAIN list
           b == Best(list, left, <<>>)
<1>1. n \in Nat /\ n >= 1 /\ left = 1..n /\ 1 \in left
  BY EmptySeq
<1>2. <<>> \in Seq(1..Len(list)) /\ left \in SUBSET (1..Len(list)) /\ left # {}
  BY <1>1
<1> HIDE DEF left
<1>3. /\ b \in left
      /\ \A j \in left \ {b} : \/ Less(Value(list, j, <<>>), Value(list, b, <<>>))
                               \/ /\ ~Less(Value(list, b, <<>>), Value(list, j, <<>>))
                                  /\ b < j
  BY <1>2, BestIs
<1> HIDE DEF b
<1> SUFFICES ASSUME b # 1
             PROVE  FALSE
  BY DEF b, left
<1>4. b \in 1..n /\ 1 < b
  BY <1>1, <1>3
<1>5. ~Less(list[1].score, list[b].score)
  BY <1>1, <1>3, <1>4 DEF Descending, left
<1>6. ~Less(Value(list, 1, <<>>), Value(list, b, <<>>))
  BY <1>1, <1>4, <1>5, ValueIs
<1>7. Less(Value(list, 1, <<>>), Value(list, b, <<>>))
  <2>1. ~(b < 1)
    BY <1>4
  <2>2. QED
    BY <1>1, <1>3, <2>1
<1>8. QED
  BY <1>6, <1>7

\* The rows selected after k steps: k different ones, or all; the first is the first.
Picks(done, n, k) ==
    /\ done \in Seq(1..n)
    /\ Len(done) = IF k < n THEN k ELSE n
    /\ \A i, j \in 1..Len(done) : done[i] = done[j] => i = j
    /\ done # <<>> => done[1] = 1

LEMMA PicksAll ==
    ASSUME NEW n \in Nat, NEW done \in Seq(1..n),
           \A i, j \in 1..Len(done) : done[i] = done[j] => i = j
    PROVE  /\ Len(done) <= n
           /\ Len(done) = n <=> (1..n) \ ToSet(done) = {}
<1> DEFINE m == Len(done)
<1>1. m \in Nat /\ DOMAIN done = 1..m /\ done \in [1..m -> 1..n]
  OBVIOUS
<1>2. done \in Injection(1..m, 1..n)
  <2>1. IsInjective(done)
    BY <1>1 DEF IsInjective
  <2>2. QED
    BY <1>1, <2>1 DEF Injection
<1> HIDE DEF m
<1>3. /\ IsFiniteSet(1..m) /\ Cardinality(1..m) = m
      /\ IsFiniteSet(1..n) /\ Cardinality(1..n) = n
  <2>1. \A k \in Nat : (1 > k => k = 0) /\ k - 1 + 1 = k /\ 1 \in Int /\ k \in Int
    OBVIOUS
  <2>2. QED
    BY <1>1, <2>1, FS_Interval
<1>4. m <= n /\ (m = n <=> done \in Surjection(1..m, 1..n))
  BY <1>2, <1>3, FS_Injection
<1>5. done \in Surjection(1..m, 1..n) <=> (1..n) \ ToSet(done) = {}
  <2>1. ToSet(done) = {done[i] : i \in 1..m}
    BY <1>1 DEF ToSet
  <2>2. done \in Surjection(1..m, 1..n) <=> \A x \in 1..n : \E i \in 1..m : done[i] = x
    BY <1>1 DEF Surjection
  <2> DEFINE D == 1..n
             rest == D \ ToSet(done)
  <2>3. (rest = {}) <=> \A x \in D : \E i \in 1..m : done[i] = x
    <3>1. \A x : x \in ToSet(done) <=> \E i \in 1..m : done[i] = x
      BY <2>1
    <3>2. \A x : x \in rest <=> (x \in D /\ x \notin ToSet(done))
      OBVIOUS
    <3>3. (rest = {}) <=> \A x : x \notin rest
      OBVIOUS
    <3> HIDE DEF rest, D
    <3>4. QED
      BY <3>1, <3>2, <3>3
  <2>4. QED
    BY <2>2, <2>3
<1>6. QED
  BY <1>4, <1>5 DEF m

\* One more place is picked while any is left.
LEMMA PicksStep ==
    ASSUME NEW list \in Seq(Scored), Descending(list), NEW k \in Nat \ {0},
           NEW done, Picks(done, Len(list), k - 1)
    PROVE  Picks(AddBest(list, done), Len(list), k)
<1> DEFINE n == Len(list)
           m == Len(done)
           left == Unpicked(list, done)
           b == Best(list, left, done)
<1>1. /\ done \in Seq(1..n) /\ m = IF k - 1 < n THEN k - 1 ELSE n
      /\ \A i, j \in 1..m : done[i] = done[j] => i = j
      /\ done # <<>> => done[1] = 1
      /\ n \in Nat /\ m \in Nat /\ DOMAIN done = 1..m /\ DOMAIN list = 1..n
  BY DEF Picks
<1>2. m <= n /\ (m = n <=> left = {}) /\ left = (1..n) \ ToSet(done)
  <2>1. left = (1..n) \ ToSet(done)
    BY <1>1 DEF Unpicked
  <2> HIDE DEF n, left
  <2>2. QED
    BY <1>1, <2>1, PicksAll
<1>3. CASE left = {}
  <2>1. AddBest(list, done) = done
    BY <1>3 DEF AddBest
  <2> HIDE DEF n, m
  <2>2. m = n /\ m = IF k < n THEN k ELSE n
    BY <1>1, <1>2, <1>3
  <2>3. QED
    BY <1>1, <2>1, <2>2 DEF Picks, m, n
<1>4. CASE left # {}
  <2>1. AddBest(list, done) = Append(done, b)
    BY <1>4 DEF AddBest
  <2>2. b \in left
    <3>1. left \in SUBSET (1..Len(list)) /\ done \in Seq(1..Len(list))
      BY <1>1, <1>2
    <3> HIDE DEF left
    <3>2. QED
      BY <1>4, <3>1, BestIs
  <2>3. b \in 1..n /\ \A i \in 1..m : done[i] # b
    <3>1. ToSet(done) = {done[i] : i \in 1..m}
      BY <1>1 DEF ToSet
    <3> HIDE DEF b, left
    <3>2. QED
      BY <1>2, <2>2, <3>1
  <2>4. m = 0 => b = 1
    <3>1. SUFFICES ASSUME m = 0
                   PROVE  b = 1
      OBVIOUS
    <3>2. done = <<>> /\ ToSet(done) = {}
      BY <1>1, <3>1 DEF ToSet
    <3>3. left = DOMAIN list
      BY <1>1, <1>2, <3>2
    <3>4. list # <<>>
      BY <1>1, <1>2, <1>4, <3>3
    <3>5. Best(list, DOMAIN list, <<>>) = 1
      BY <3>4, BestFirst
    <3>6. QED
      BY <3>2, <3>3, <3>5
  <2> DEFINE new == Append(done, b)
  <2> HIDE DEF b, left
  <2>5. /\ new \in Seq(1..n) /\ Len(new) = m + 1 /\ new[m + 1] = b
        /\ \A i \in 1..m : new[i] = done[i]
    BY <1>1, <2>3, AppendIs
  <2> HIDE DEF new, n, m
  <2>6. m < n /\ m = k - 1 /\ m + 1 = IF k < n THEN k ELSE n
    BY <1>1, <1>2, <1>4
  <2>7. \A i \in 1..(m + 1) : (i = m + 1 \/ i \in 1..m)
    BY <1>1
  <2>8. ASSUME NEW i \in 1..(m + 1), NEW j \in 1..(m + 1), new[i] = new[j]
        PROVE  i = j
    <3>1. CASE i \in 1..m /\ j \in 1..m
      <4>1. done[i] = done[j]
        BY <2>5, <2>8, <3>1
      <4>2. QED
        BY <1>1, <3>1, <4>1 DEF m
    <3>2. CASE i = m + 1 /\ j \in 1..m
      BY <2>3, <2>5, <2>8, <3>2
    <3>3. CASE i \in 1..m /\ j = m + 1
      BY <2>3, <2>5, <2>8, <3>3
    <3>4. QED
      BY <2>7, <3>1, <3>2, <3>3
  <2>9. new[1] = 1
    <3>1. CASE m = 0
      BY <2>4, <2>5, <3>1
    <3>2. CASE m # 0
      <4>1. 1 \in 1..m /\ done # <<>>
        BY <1>1, <3>2 DEF m
      <4>2. QED
        BY <1>1, <2>5, <4>1
    <3>3. QED
      BY <3>1, <3>2
  <2>10. Picks(new, n, k)
    BY <2>5, <2>6, <2>8, <2>9 DEF Picks
  <2>11. QED
    BY <2>1, <2>10 DEF new, n
<1>5. QED
  BY <1>3, <1>4

LEMMA AddBestType ==
    ASSUME NEW list \in Seq(Scored), NEW done \in Seq(1..Len(list))
    PROVE  AddBest(list, done) \in Seq(1..Len(list))
<1> DEFINE left == Unpicked(list, done)
           b == Best(list, left, done)
<1>1. left \in SUBSET (1..Len(list))
  BY DEF Unpicked
<1>2. ASSUME left # {}
      PROVE  Append(done, b) \in Seq(1..Len(list))
  <2> HIDE DEF left
  <2>1. b \in 1..Len(list)
    BY <1>1, <1>2, BestIs
  <2> HIDE DEF b
  <2>2. QED
    BY <2>1, AppendIs
<1>3. QED
  BY <1>2 DEF AddBest

\* The selection, pick by pick.
LEMMA DiverseFold ==
    ASSUME NEW list \in Seq(Scored), NEW topK \in Nat
    PROVE  \E h : /\ h[1..0] = <<>>
                  /\ \A i \in 1..topK : h[1..i] = AddBest(list, h[1..(i - 1)])
                  /\ Diverse(list, topK) =
                         IF list = <<>> THEN <<>>
                         ELSE [m \in DOMAIN h[1..topK] |-> list[h[1..topK][m]]]
<1> DEFINE n == topK
           A == Seq(1..Len(list))
           step == [p \in A \X (1..n) |-> AddBest(list, p[1])]
           Recursive(f) == f = [u \in SUBSET (1..n) |->
                                   IF u = {} THEN <<>> ELSE AddBest(list, f[u \ {Max(u)}])]
           chosen == CHOOSE f : Recursive(f)
<1>1. n \in Nat /\ DOMAIN [m \in 1..n |-> m] = 1..n
  OBVIOUS
<1>2. \A a \in A, i \in 1..n : step[<<a, i>>] = AddBest(list, a) /\ step[<<a, i>>] \in A
  <2>1. \A a \in A : AddBest(list, a) \in A
    BY AddBestType
  <2>2. QED
    BY <2>1
<1>3. <<>> \in A
  OBVIOUS
<1> HIDE DEF step, A, n
<1>4. PICK f : IsFold(f, 1..n, <<>>, step)
  BY <1>1, FoldsExist
<1>5. \A u \in SUBSET (1..n) : f[u] \in A
  <2>1. \A a \in A, i \in 1..n : step[<<a, i>>] \in A
    BY <1>2
  <2>2. QED
    BY <1>1, <1>3, <1>4, <2>1, FoldTyped
<1>6. ASSUME NEW u \in SUBSET (1..n), u # {}
      PROVE  step[<<f[u \ {Max(u)}], Max(u)>>] = AddBest(list, f[u \ {Max(u)}])
  <2>1. Max(u) \in 1..n /\ u \ {Max(u)} \in SUBSET (1..n)
    BY <1>1, <1>6, MaxIn
  <2>2. f[u \ {Max(u)}] \in A
    BY <1>5, <2>1
  <2>3. QED
    BY <1>2, <2>1, <2>2
<1>7. Recursive(f)
  BY <1>4, <1>6 DEF IsFold
<1>8. Recursive(chosen)
  <2> HIDE DEF Recursive
  <2>1. QED
    BY <1>7
<1>9. Diverse(list, topK) = IF list = <<>> THEN <<>>
                            ELSE [m \in DOMAIN chosen[1..n] |-> list[chosen[1..n][m]]]
  BY <1>1 DEF Diverse, FoldLeft, MapThenFoldSet, n
<1> HIDE DEF chosen
<1>10. chosen[1..0] = <<>>
  BY <1>8
<1>11. ASSUME NEW i \in 1..n
       PROVE  chosen[1..i] = AddBest(list, chosen[1..(i - 1)])
  <2>1. /\ 1..i \in SUBSET (1..n) /\ 1..i # {}
        /\ Max(1..i) = i /\ (1..i) \ {i} = 1..(i - 1)
    BY <1>1, SectionOf
  <2>2. QED
    BY <1>8, <2>1
<1>12. QED
  BY <1>9, <1>10, <1>11 DEF n

\* Selecting rearranges, and cuts; what came first stays first.
LEMMA DiverseIs ==
    ASSUME NEW list \in Seq(Scored), Ranking(list), Descending(list), NEW topK \in Nat
    PROVE  LET diverse == Diverse(list, topK)
           IN  /\ diverse \in Seq(Scored) /\ Ranking(diverse) /\ Within(diverse, list)
               /\ Len(diverse) = IF topK < Len(list) THEN topK ELSE Len(list)
               /\ diverse # <<>> => diverse[1] = list[1]
<1> DEFINE n == Len(list)
           diverse == Diverse(list, topK)
<1>1. PICK h : /\ h[1..0] = <<>>
               /\ \A i \in 1..topK : h[1..i] = AddBest(list, h[1..(i - 1)])
               /\ diverse = IF list = <<>> THEN <<>>
                            ELSE [m \in DOMAIN h[1..topK] |-> list[h[1..topK][m]]]
  BY DiverseFold
<1>2. n \in Nat /\ DOMAIN list = 1..n /\ \A i \in 1..n : list[i] \in Scored
  BY ElementOfSeq
<1> HIDE DEF diverse
<1>3. Picks(h[1..topK], n, topK)
  <2> DEFINE T == {i \in 0..topK : Picks(h[1..i], n, i)}
  <2>1. 0 \in T
    <3>1. <<>> \in Seq(1..n) /\ Len(<<>>) = 0 /\ 0 = IF 0 < n THEN 0 ELSE n
      BY <1>2
    <3> HIDE DEF n
    <3>2. Picks(<<>>, n, 0)
      BY <3>1 DEF Picks
    <3>3. QED
      BY <1>1, <3>2
  <2>2. ASSUME NEW i \in 1..topK, i - 1 \in T
        PROVE  i \in T
    <3>1. i \in Nat \ {0} /\ Picks(h[1..(i - 1)], n, i - 1) /\ i \in 0..topK
      BY <2>2
    <3>2. Picks(AddBest(list, h[1..(i - 1)]), n, i)
      BY <3>1, PicksStep
    <3>3. QED
      BY <1>1, <3>1, <3>2
  <2> HIDE DEF T
  <2>3. \A i \in 0..topK : i \in T
    BY <2>1, <2>2, UpTo
  <2>4. topK \in 0..topK
    OBVIOUS
  <2>5. QED
    BY <2>3, <2>4 DEF T
<1> DEFINE picked == h[1..topK]
           m == Len(picked)
<1> HIDE DEF picked
<1>4. /\ picked \in Seq(1..n) /\ m = IF topK < n THEN topK ELSE n
      /\ \A i, j \in 1..m : picked[i] = picked[j] => i = j
      /\ picked # <<>> => picked[1] = 1
      /\ DOMAIN picked = 1..m /\ m \in Nat /\ \A i \in 1..m : picked[i] \in 1..n
  <2>1. Picks(picked, n, topK)
    BY <1>3 DEF picked
  <2> DEFINE S == 1..n
  <2>2. picked \in Seq(S)
    BY <2>1 DEF Picks
  <2> HIDE DEF n, S
  <2>3. DOMAIN picked = 1..m /\ m \in Nat /\ \A i \in 1..m : picked[i] \in S
    BY <2>2, ElementOfSeq
  <2>4. QED
    BY <2>1, <2>3 DEF Picks, S
<1>5. diverse = [i \in 1..m |-> list[picked[i]]]
  <2>1. CASE list = <<>>
    <3>1. n = 0 /\ m = 0 /\ 1..m = {}
      BY <1>2, <1>4, <2>1
    <3>2. [i \in 1..m |-> list[picked[i]]] = <<>>
      BY <3>1
    <3>3. QED
      BY <1>1, <2>1, <3>2
  <2>2. CASE list # <<>>
    BY <1>1, <1>4, <2>2 DEF picked
  <2>3. QED
    BY <2>1, <2>2
<1> HIDE DEF n, m
<1>6. /\ diverse \in Seq(Scored) /\ Len(diverse) = m /\ DOMAIN diverse = 1..m
      /\ \A i \in 1..m : diverse[i] = list[picked[i]]
  <2>1. \A i \in 1..m : list[picked[i]] \in Scored
    BY <1>2, <1>4
  <2>2. m \in Nat
    BY <1>4
  <2> HIDE DEF diverse, picked
  <2>3. diverse \in Seq(Scored) /\ Len(diverse) = m
    BY <1>5, <2>1, <2>2
  <2>4. QED
    BY <1>5, <2>3
<1>7. Ranking(diverse)
  <2> SUFFICES ASSUME NEW i \in 1..m, NEW j \in 1..m, diverse[i].chunk = diverse[j].chunk
               PROVE  i = j
    BY <1>6 DEF Ranking
  <2>1. picked[i] \in DOMAIN list /\ picked[j] \in DOMAIN list
    BY <1>2, <1>4
  <2>2. picked[i] = picked[j]
    BY <1>6, <2>1 DEF Ranking
  <2>3. QED
    BY <1>4, <2>2
<1>8. Within(diverse, list)
  BY <1>2, <1>4, <1>6 DEF Within
<1>9. diverse # <<>> => diverse[1] = list[1]
  <2> SUFFICES ASSUME diverse # <<>>
               PROVE  diverse[1] = list[1]
    OBVIOUS
  <2>1. m # 0 /\ 1 \in 1..m
    <3>1. m # 0
      BY <1>6, EmptySeq
    <3>2. QED
      BY <1>4, <3>1
  <2>2. picked # <<>>
    BY <1>4, <2>1 DEF m
  <2>3. QED
    BY <1>4, <1>6, <2>1, <2>2
<1>10. QED
  BY <1>4, <1>6, <1>7, <1>8, <1>9 DEF diverse, n

\* The threshold, row by row.
LEMMA KeptFold ==
    ASSUME NEW list \in Seq(Scored), NEW min
    PROVE  \E h : /\ h[1..0] = <<>>
                  /\ \A i \in 1..Len(list) :
                        h[1..i] = IF Less(list[i].score, min) THEN h[1..(i - 1)]
                                  ELSE Append(h[1..(i - 1)], list[i])
                  /\ Kept(list, min) = h[1..Len(list)]
<1> DEFINE n == Len(list)
           A == Seq(Scored)
           Keep(kept, row) == IF Less(row.score, min) THEN kept ELSE Append(kept, row)
           step == [p \in A \X (1..n) |-> Keep(p[1], list[p[2]])]
           Recursive(f) == f = [u \in SUBSET (1..n) |->
                                   IF u = {} THEN <<>>
                                   ELSE IF Less(list[Max(u)].score, min) THEN f[u \ {Max(u)}]
                                        ELSE Append(f[u \ {Max(u)}], list[Max(u)])]
           chosen == CHOOSE f : Recursive(f)
<1>1. n \in Nat /\ DOMAIN list = 1..n /\ \A i \in 1..n : list[i] \in Scored
  BY ElementOfSeq
<1>2. \A a \in A, i \in 1..n : step[<<a, i>>] = Keep(a, list[i]) /\ step[<<a, i>>] \in A
  <2>1. \A a \in A, i \in 1..n : Keep(a, list[i]) \in A
    BY <1>1, AppendIs
  <2> HIDE DEF Keep
  <2>2. QED
    BY <2>1
<1>3. <<>> \in A
  OBVIOUS
<1> HIDE DEF step, A, n
<1>4. PICK f : IsFold(f, 1..n, <<>>, step)
  BY <1>1, FoldsExist
<1>5. \A u \in SUBSET (1..n) : f[u] \in A
  <2>1. \A a \in A, i \in 1..n : step[<<a, i>>] \in A
    BY <1>2
  <2>2. QED
    BY <1>1, <1>3, <1>4, <2>1, FoldTyped
<1>6. ASSUME NEW u \in SUBSET (1..n), u # {}
      PROVE  step[<<f[u \ {Max(u)}], Max(u)>>] = Keep(f[u \ {Max(u)}], list[Max(u)])
  <2>1. Max(u) \in 1..n /\ u \ {Max(u)} \in SUBSET (1..n)
    BY <1>1, <1>6, MaxIn
  <2>2. f[u \ {Max(u)}] \in A
    BY <1>5, <2>1
  <2> HIDE DEF Keep
  <2>3. QED
    BY <1>2, <2>1, <2>2
<1>7. Recursive(f)
  BY <1>4, <1>6 DEF IsFold
<1>8. Recursive(chosen)
  <2> HIDE DEF Recursive
  <2>1. QED
    BY <1>7
<1>9. Kept(list, min) = chosen[1..n]
  BY <1>1 DEF Kept, FoldLeft, MapThenFoldSet
<1> HIDE DEF chosen
<1>10. chosen[1..0] = <<>>
  BY <1>8
<1>11. ASSUME NEW i \in 1..n
       PROVE  chosen[1..i] = Keep(chosen[1..(i - 1)], list[i])
  <2>1. /\ 1..i \in SUBSET (1..n) /\ 1..i # {}
        /\ Max(1..i) = i /\ (1..i) \ {i} = 1..(i - 1)
    BY <1>1, SectionOf
  <2>2. QED
    BY <1>8, <2>1
<1>12. QED
  BY <1>9, <1>10, <1>11 DEF n

-----------------------------------------------------------------------------
\* The score threshold.

\* What is left of the first k rows: those that are not below min.
Remains(list, out, k, min) ==
    /\ out \in Seq(Scored) /\ Len(out) <= k /\ Ranking(out)
    /\ \A m \in 1..Len(out) :
          \E j \in 1..k : out[m] = list[j] /\ ~Less(list[j].score, min)
    /\ (\A j \in 1..k : ~Less(list[j].score, min)) => Len(out) = k
    /\ (k >= 1 /\ ~Less(list[1].score, min)) => out # <<>> /\ out[1] = list[1]

\* One more row is kept or dropped.
LEMMA RemainsStep ==
    ASSUME NEW list \in Seq(Scored), Ranking(list), NEW min, NEW k \in 1..Len(list),
           NEW out, Remains(list, out, k - 1, min)
    PROVE  Remains(list, IF Less(list[k].score, min) THEN out ELSE Append(out, list[k]), k, min)
<1> DEFINE row == list[k]
           n == Len(out)
<1>1. /\ row \in Scored /\ k \in Nat /\ k \in 1..k
      /\ \A j \in 1..k : (j = k \/ j \in 1..(k - 1))
      /\ \A j \in 1..(k - 1) : j \in 1..k /\ j # k /\ j \in DOMAIN list
      /\ k \in DOMAIN list
  BY ElementOfSeq
<1>2. /\ out \in Seq(Scored) /\ n <= k - 1 /\ Ranking(out) /\ n \in Nat /\ DOMAIN out = 1..n
      /\ \A m \in 1..n :
            \E j \in 1..(k - 1) : out[m] = list[j] /\ ~Less(list[j].score, min)
      /\ (\A j \in 1..(k - 1) : ~Less(list[j].score, min)) => n = k - 1
      /\ (k - 1 >= 1 /\ ~Less(list[1].score, min)) => out # <<>> /\ out[1] = list[1]
  BY DEF Remains
<1>3. CASE Less(row.score, min)
  <2>1. n <= k /\ (k >= 1 /\ ~Less(list[1].score, min) => k - 1 >= 1)
    <3>1. n <= k
      BY <1>1, <1>2
    <3>2. CASE k = 1
      BY <1>3, <3>1, <3>2
    <3>3. CASE k # 1
      BY <1>1, <3>1, <3>3
    <3>4. QED
      BY <3>2, <3>3
  <2>2. \A m \in 1..n : \E j \in 1..k : out[m] = list[j] /\ ~Less(list[j].score, min)
    BY <1>1, <1>2
  <2>3. ~(\A j \in 1..k : ~Less(list[j].score, min))
    BY <1>1, <1>3
  <2>4. Remains(list, out, k, min)
    BY <1>2, <2>1, <2>2, <2>3 DEF Remains
  <2>5. QED
    BY <1>3, <2>4
<1>4. CASE ~Less(row.score, min)
  <2> DEFINE new == Append(out, row)
  <2> HIDE DEF row
  <2>1. /\ new \in Seq(Scored) /\ Len(new) = n + 1 /\ new[n + 1] = row
        /\ \A m \in 1..n : new[m] = out[m]
    BY <1>1, <1>2, AppendIs
  <2> HIDE DEF new, n
  <2>2. /\ \A m \in 1..(n + 1) : (m = n + 1 \/ m \in 1..n)
        /\ DOMAIN new = 1..(n + 1) /\ n + 1 <= k /\ new # <<>>
    <3>1. new # <<>>
      BY <2>1, <1>2, EmptySeq
    <3>2. QED
      BY <1>1, <1>2, <2>1, <3>1
  <2>3. \A m \in 1..n : out[m].chunk # row.chunk
    <3> SUFFICES ASSUME NEW m \in 1..n, out[m].chunk = row.chunk
                 PROVE  FALSE
      OBVIOUS
    <3>1. PICK j \in 1..(k - 1) : out[m] = list[j]
      BY <1>2
    <3>2. list[j].chunk = list[k].chunk /\ j \in DOMAIN list /\ k \in DOMAIN list /\ j # k
      BY <1>1, <3>1 DEF row
    <3>3. QED
      BY <3>2 DEF Ranking
  <2>4. Ranking(new)
    <3>1. \A i, j \in 1..n : out[i].chunk = out[j].chunk => i = j
      BY <1>2 DEF Ranking
    <3>2. \A i, j \in 1..(n + 1) : new[i].chunk = new[j].chunk => i = j
      BY <2>1, <2>2, <2>3, <3>1
    <3>3. QED
      BY <2>2, <3>2 DEF Ranking
  <2>5. ASSUME NEW m \in 1..(n + 1)
        PROVE  \E j \in 1..k : new[m] = list[j] /\ ~Less(list[j].score, min)
    <3>1. CASE m = n + 1
      BY <1>1, <1>4, <2>1, <3>1 DEF row
    <3>2. CASE m \in 1..n
      BY <1>1, <1>2, <2>1, <3>2
    <3>3. QED
      BY <2>2, <3>1, <3>2
  <2>6. (\A j \in 1..k : ~Less(list[j].score, min)) => n + 1 = k
    BY <1>1, <1>2
  <2>7. (k >= 1 /\ ~Less(list[1].score, min)) => new[1] = list[1]
    <3>1. CASE k = 1
      <4>1. n = 0
        BY <1>2, <3>1
      <4>2. QED
        BY <2>1, <3>1, <4>1 DEF row
    <3>2. CASE k # 1
      <4>1. k - 1 >= 1
        BY <1>1, <3>2
      <4>2. ~Less(list[1].score, min) => 1 \in 1..n
        <5> SUFFICES ASSUME ~Less(list[1].score, min)
                     PROVE  1 \in 1..n
          OBVIOUS
        <5>1. out # <<>>
          BY <1>2, <4>1
        <5>2. n # 0
          BY <1>2, <5>1, EmptySeq DEF n
        <5>3. QED
          BY <1>2, <5>2
      <4>3. QED
        BY <1>2, <2>1, <4>1, <4>2
    <3>3. QED
      BY <3>1, <3>2
  <2>8. Remains(list, new, k, min)
    BY <2>1, <2>2, <2>4, <2>5, <2>6, <2>7 DEF Remains
  <2>9. QED
    BY <1>4, <2>8 DEF new, row
<1>5. QED
  BY <1>3, <1>4

\* What the threshold leaves of a ranking.
LEMMA KeptIs ==
    ASSUME NEW list \in Seq(Scored), Ranking(list), NEW min
    PROVE  Remains(list, Kept(list, min), Len(list), min)
<1> DEFINE n == Len(list)
<1>1. PICK h : /\ h[1..0] = <<>>
               /\ \A i \in 1..n : h[1..i] = IF Less(list[i].score, min) THEN h[1..(i - 1)]
                                            ELSE Append(h[1..(i - 1)], list[i])
               /\ Kept(list, min) = h[1..n]
  BY KeptFold
<1>2. n \in Nat
  OBVIOUS
<1> DEFINE T == {i \in 0..n : Remains(list, h[1..i], i, min)}
<1>3. 0 \in T
  <2>1. Remains(list, <<>>, 0, min)
    BY DEF Remains, Ranking
  <2>2. QED
    BY <1>1, <1>2, <2>1
<1>4. ASSUME NEW i \in 1..n, i - 1 \in T
      PROVE  i \in T
  <2>1. Remains(list, h[1..(i - 1)], i - 1, min) /\ i \in 0..n
    BY <1>4
  <2>2. Remains(list, IF Less(list[i].score, min) THEN h[1..(i - 1)]
                      ELSE Append(h[1..(i - 1)], list[i]), i, min)
    BY <2>1, RemainsStep
  <2>3. QED
    BY <1>1, <2>1, <2>2
<1> HIDE DEF T
<1>5. \A i \in 0..n : i \in T
  BY <1>2, <1>3, <1>4, UpTo
<1>6. n \in 0..n
  BY <1>2
<1>7. QED
  BY <1>1, <1>5, <1>6 DEF T

\* A ranking has as many chunks as places.
LEMMA RankingCounts ==
    ASSUME NEW R, NEW list \in Seq(R), Ranking(list)
    PROVE  Cardinality(ChunksIn(list)) = Len(list)
<1> DEFINE n == Len(list)
           f == [i \in 1..n |-> list[i].chunk]
<1>1. n \in Nat /\ DOMAIN list = 1..n
  OBVIOUS
<1>2. ChunksIn(list) = {list[i].chunk : i \in 1..n}
  BY <1>1 DEF ChunksIn
<1>3. f \in Injection(1..n, ChunksIn(list)) /\ f \in Surjection(1..n, ChunksIn(list))
  <2>1. \A i, j \in 1..n : list[i].chunk = list[j].chunk => i = j
    BY <1>1 DEF Ranking
  <2>2. IsInjective(f)
    BY <2>1 DEF IsInjective
  <2>3. f \in [1..n -> ChunksIn(list)] /\ \A c \in ChunksIn(list) : \E i \in 1..n : f[i] = c
    BY <1>2
  <2> HIDE DEF f
  <2>4. QED
    BY <2>2, <2>3 DEF Injection, Surjection
<1>4. IsFiniteSet(1..n) /\ Cardinality(1..n) = n
  <2>1. (1 > n => n = 0) /\ n - 1 + 1 = n /\ 1 \in Int /\ n \in Int
    BY <1>1
  <2>2. QED
    BY <2>1, FS_Interval
<1> HIDE DEF f, n
<1>5. QED
  BY <1>3, <1>4, FS_Surjection DEF n

-----------------------------------------------------------------------------
\* Fusion follows the ranks.

\* Adding nothing, and adding something.
LEMMA PlusMore ==
    ASSUME NEW v \in Fraction, NEW w \in Fraction, w[1] > 0
    PROVE  Less(v, Plus(v, w))
<1>1. Zero \in Fraction /\ Less(Zero, w)
  <2>1. Zero \in Fraction
    BY Lambda
  <2>2. w[1] \in Int /\ w[2] \in Nat \ {0}
    BY Parts
  <2>3. 0 * w[2] < w[1] * 1
    BY <2>2
  <2>4. QED
    BY <2>1, <2>3 DEF Zero, Less
<1>2. Less(Plus(v, Zero), Plus(v, w))
  BY <1>1, Ordered, PlusGrows
<1>3. ~Less(Plus(v, Zero), v)
  <2> DEFINE v1 == v[1]
             v2 == v[2]
             f1 == Frac(v1, v2)[1]
             f2 == Frac(v1, v2)[2]
  <2>1. v1 \in Int /\ v2 \in Nat \ {0}
    BY Parts
  <2> HIDE DEF v1, v2
  <2>2. v1 * 1 + 0 * v2 = v1 /\ v2 * 1 = v2
    BY <2>1
  <2>3. Plus(v, Zero) = Frac(v1, v2)
    BY <2>2 DEF Plus, Zero, v1, v2
  <2>4. PICK g \in Nat \ {0} : v1 = g * f1 /\ v2 = g * f2
    BY <2>1, FracIs
  <2>5. f1 \in Int /\ f2 \in Nat \ {0}
    BY <2>1, FracIs, Parts
  <2> HIDE DEF f1, f2
  <2>6. f1 * v2 = v1 * f2
    BY <2>4, <2>5
  <2>7. ~(f1 * v2 < v1 * f2)
    <3>1. v1 * f2 \in Int
      BY <2>1, <2>5
    <3>2. QED
      BY <2>6, <3>1
  <2>8. QED
    BY <2>3, <2>7 DEF Less, f1, f2, v1, v2
<1>4. Plus(v, Zero) \in Fraction /\ Plus(v, w) \in Fraction
  BY <1>1, Ops
<1>5. QED
  BY <1>2, <1>3, <1>4, Ordered

LEMMA LessThrough ==
    ASSUME NEW x \in Fraction, NEW y \in Fraction, NEW z \in Fraction
    PROVE  /\ ~Less(y, x) /\ Less(y, z) => Less(x, z)
           /\ Less(x, z) => ~Less(z, x)
BY Ordered

\* Scores of a fused list are not negative.
LEMMA AddedSign ==
    ASSUME NEW R, NEW list \in Seq(R), NEW chunk, NEW total \in Fraction, total[1] >= 0
    PROVE  Added(list, chunk, total) \in Fraction /\ Added(list, chunk, total)[1] >= 0
<1>1. Added(list, chunk, total) \in Fraction
  BY AddedType
<1>2. CASE chunk \in ChunksIn(list)
  <2> DEFINE y == Share(list, chunk)
  <2>1. y \in Fraction /\ y[1] = 1
    BY <1>2, AddedType DEF Share
  <2>2. Added(list, chunk, total) = Plus(total, y)
    BY <1>2 DEF Added
  <2> HIDE DEF y
  <2>3. total[1] \in Nat /\ total[2] \in Nat \ {0} /\ y[2] \in Nat \ {0}
    BY <2>1, Parts
  <2>4. total[2] * y[2] \in Nat \ {0}
    BY <2>3, Product
  <2>5. total[1] * y[2] + y[1] * total[2] \in Nat
    BY <2>1, <2>3
  <2>6. Plus(total, y)[1] >= 0
    BY <2>4, <2>5, FracSign DEF Plus
  <2>7. QED
    BY <1>1, <2>2, <2>6
<1>3. CASE chunk \notin ChunksIn(list)
  BY <1>1, <1>3 DEF Added
<1>4. QED
  BY <1>2, <1>3

LEMMA FusedSign ==
    ASSUME NEW s \in Seq(Scored), NEW t \in Seq(Scored)
    PROVE  NotNegative(Fused(<<s, t>>))
<1>1. Zero \in Fraction /\ Zero[1] >= 0
  BY Lambda DEF Zero
<1>2. \A c : FusedScore(<<s, t>>, c)[1] >= 0
  <2> TAKE c
  <2>1. Added(s, c, Zero) \in Fraction /\ Added(s, c, Zero)[1] >= 0
    BY <1>1, AddedSign
  <2>2. Added(t, c, Added(s, c, Zero))[1] >= 0
    BY <2>1, AddedSign
  <2>3. QED
    BY <2>2, FusedScoreIs
<1>3. \A i \in DOMAIN Fused(<<s, t>>) :
          Fused(<<s, t>>)[i].score = FusedScore(<<s, t>>, Fused(<<s, t>>)[i].chunk)
  BY FusedIs
<1>4. QED
  BY <1>2, <1>3 DEF NotNegative

\* A list that does not rank x below y adds at least as much to the score of x,
\* and more if it has x.
LEMMA AddedGrows ==
    ASSUME NEW list \in Seq(Scored), NEW x, NEW y, x # y, AtLeast(list, x, y),
           NEW u \in Fraction, NEW v \in Fraction, ~Less(v, u)
    PROVE  /\ ~Less(Added(list, x, v), Added(list, y, u))
           /\ Less(u, v) \/ x \in ChunksIn(list) =>
                  Less(Added(list, y, u), Added(list, x, v))
<1> DEFINE a == Added(list, x, v)
           b == Added(list, y, u)
<1>0. a \in Fraction /\ b \in Fraction
  BY AddedType
<1>1. CASE y \in ChunksIn(list)
  <2> DEFINE p == Share(list, x)
             q == Share(list, y)
             i == RankOf(list, x)
             j == RankOf(list, y)
  <2>1. x \in ChunksIn(list) /\ i <= j
    BY <1>1 DEF AtLeast
  <2>2. i \in 1..Len(list) /\ j \in 1..Len(list) /\ list[i].chunk = x /\ list[j].chunk = y
    BY <1>1, <2>1, RankIs
  <2>3. p \in Fraction /\ q \in Fraction /\ a = Plus(v, p) /\ b = Plus(u, q)
    BY <1>1, <2>1, AddedType DEF Added
  <2>4. p = <<1, RrfK + i>> /\ q = <<1, RrfK + j>>
    BY DEF Share
  <2>5. RrfK \in Nat
    BY RetrievalAssumption DEF RetrievalAssumption
  <2> HIDE DEF p, q, i, j, a, b
  <2>6. i # j
    BY <2>2
  <2>7. Len(list) \in Nat
    OBVIOUS
  <2>8. 1 * (RrfK + i) < 1 * (RrfK + j)
    BY <2>1, <2>2, <2>5, <2>6, <2>7
  <2>9. Less(q, p)
    BY <2>4, <2>8 DEF Less
  <2>10. ~Less(p, q)
    BY <2>3, <2>9, LessThrough
  <2>11. Less(b, a)
    BY <2>3, <2>9, <2>10, PlusGrows
  <2>12. QED
    BY <1>0, <2>11, LessThrough DEF a, b
<1>2. CASE y \notin ChunksIn(list) /\ x \in ChunksIn(list)
  <2>1. Share(list, x) \in Fraction /\ Share(list, x)[1] > 0
    <3>1. Share(list, x) \in Fraction
      BY <1>2, AddedType, <1>0
    <3>2. Share(list, x)[1] > 0
      BY DEF Share
    <3>3. QED
      BY <3>1, <3>2
  <2>2. b = u /\ a = Plus(v, Share(list, x))
    BY <1>2 DEF Added
  <2>3. Less(v, a)
    BY <2>1, <2>2, PlusMore
  <2> HIDE DEF a, b
  <2>4. Less(b, a)
    BY <1>0, <2>2, <2>3, LessThrough
  <2>5. QED
    BY <1>0, <2>4, LessThrough DEF a, b
<1>3. CASE y \notin ChunksIn(list) /\ x \notin ChunksIn(list)
  BY <1>3 DEF Added
<1>4. QED
  BY <1>1, <1>2, <1>3

\* A chunk that neither list ranks below another one is fused above it.
LEMMA FusedRanks ==
    ASSUME NEW s \in Seq(Scored), NEW t \in Seq(Scored),
           NEW x \in ChunksIn(Fused(<<s, t>>)), NEW y \in ChunksIn(Fused(<<s, t>>)), x # y,
           AtLeast(s, x, y), AtLeast(t, x, y)
    PROVE  RankOf(Fused(<<s, t>>), x) < RankOf(Fused(<<s, t>>), y)
<1> DEFINE fused == Fused(<<s, t>>)
           u == Added(s, y, Zero)
           v == Added(s, x, Zero)
           i == RankOf(fused, x)
           j == RankOf(fused, y)
<1>1. /\ fused \in Seq(Scored) /\ Ranking(fused) /\ Descending(fused)
      /\ x \in ChunksIn(s) \cup ChunksIn(t)
      /\ \A k \in DOMAIN fused : fused[k].score = FusedScore(<<s, t>>, fused[k].chunk)
  BY FusedIs
<1>2. Zero \in Fraction /\ ~Less(Zero, Zero)
  BY Lambda, Ordered
<1>3. u \in Fraction /\ v \in Fraction
  BY <1>2, AddedType
<1>4. ~Less(v, u) /\ (x \in ChunksIn(s) => Less(u, v))
  BY <1>2, AddedGrows
<1>5. Less(Added(t, y, u), Added(t, x, v))
  <2> HIDE DEF u, v
  <2>1. QED
    BY <1>1, <1>3, <1>4, AddedGrows
<1>6. FusedScore(<<s, t>>, y) = Added(t, y, u) /\ FusedScore(<<s, t>>, x) = Added(t, x, v)
  BY FusedScoreIs
<1>7. i \in 1..Len(fused) /\ j \in 1..Len(fused) /\ fused[i].chunk = x /\ fused[j].chunk = y
  <2> HIDE DEF fused
  <2>1. x \in ChunksIn(fused) /\ y \in ChunksIn(fused)
    BY DEF fused
  <2>2. QED
    BY <1>1, <2>1, RankIs
<1>8. DOMAIN fused = 1..Len(fused) /\ Len(fused) \in Nat
  BY <1>1
<1> HIDE DEF fused, u, v, i, j
<1>9. Less(fused[j].score, fused[i].score)
  <2>1. i \in DOMAIN fused /\ j \in DOMAIN fused
    BY <1>7, <1>8
  <2>2. fused[i].score = FusedScore(<<s, t>>, x) /\ fused[j].score = FusedScore(<<s, t>>, y)
    BY <1>1, <1>7, <2>1, Zenon
  <2>3. QED
    BY <1>5, <1>6, <2>2, Zenon
<1>10. ~(j < i)
  BY <1>1, <1>7, <1>8, <1>9 DEF Descending
<1>11. i # j
  BY <1>7
<1>12. i < j
  BY <1>7, <1>8, <1>10, <1>11
<1>13. QED
  BY <1>12 DEF i, j, fused

-----------------------------------------------------------------------------
\* All of retrieve and assemble.

\* What is packed is as free of repetition as what was found.
LEMMA PackedRanks ==
    ASSUME NEW R, \A r \in R : r.chunk.chars \in Nat, NEW result \in Seq(R), Ranking(result)
    PROVE  LET rows == Context(Packed(result, TokenBudget)).rows
           IN  rows \in Seq(R) /\ Ranking(rows) /\ ChunksIn(rows) \subseteq ChunksIn(result)
<1> DEFINE k == Len(result)
           rows == Context(Packed(result, TokenBudget)).rows
           n == Len(rows)
<1>1. TokenBudget \in Nat
  BY RetrievalAssumption DEF RetrievalAssumption
<1>2. PICK a \in States(R) : /\ Packed(result, TokenBudget) = a.rows
                             /\ \E o, u : IsPacked(result, a, o, u, k, TokenBudget)
  BY <1>1, PackedIs
<1>3. PICK o, u : IsPacked(result, a, o, u, k, TokenBudget)
  BY <1>2
<1>4. rows = a.rows
  BY <1>2 DEF Context
<1> HIDE DEF rows
<1>5. Placed(result, rows, o, k) /\ rows \in Seq(R)
  BY <1>3, <1>4 DEF IsPacked, States
<1>6. /\ n \in Nat /\ k \in Nat /\ DOMAIN rows = 1..n /\ DOMAIN result = 1..k
      /\ o \in [1..n -> 1..k]
      /\ \A i \in 1..n : rows[i] = result[o[i]] /\ (i > 1 => o[i - 1] < o[i])
  <2>1. n \in Nat /\ k \in Nat /\ DOMAIN rows = 1..n /\ DOMAIN result = 1..k
    BY <1>5
  <2>2. /\ o \in [1..n -> 1..k]
        /\ \A i \in 1..n : rows[i] = result[o[i]] /\ (i > 1 => o[i - 1] < o[i])
    BY <1>5, Zenon DEF Placed
  <2>3. QED
    BY <2>1, <2>2
<1> HIDE DEF k, n
<1> DEFINE T == {d \in 0..n : \A i \in 1..n : d >= 1 /\ i + d <= n => o[i] < o[i + d]}
<1>7. \A d \in 0..n : d \in T
  <2>1. 0 \in T
    BY <1>6
  <2>2. ASSUME NEW d \in 1..n, d - 1 \in T
        PROVE  d \in T
    <3>1. d \in 0..n
      OBVIOUS
    <3>2. ASSUME NEW i \in 1..n, i + d <= n
          PROVE  o[i] < o[i + d]
      <4> DEFINE j == i + d
      <4>1. j \in 1..n /\ j > 1 /\ j - 1 \in 1..n /\ j - 1 = i + (d - 1) /\ i + (d - 1) <= n
        BY <1>6, <3>2
      <4>2. o[j - 1] < o[j] /\ o[j - 1] \in Nat /\ o[j] \in Nat /\ o[i] \in Nat
        BY <1>6, <4>1
      <4>3. d = 1 \/ d - 1 >= 1
        OBVIOUS
      <4>4. o[i] <= o[j - 1]
        <5>1. CASE d = 1
          <6>1. j - 1 = i
            BY <5>1
          <6>2. QED
            BY <4>2, <6>1
        <5>2. CASE d - 1 >= 1
          <6>1. o[i] < o[i + (d - 1)]
            BY <2>2, <4>1, <5>2
          <6>2. QED
            BY <4>1, <4>2, <6>1
        <5>3. QED
          BY <4>3, <5>1, <5>2
      <4> HIDE DEF j
      <4>5. o[i] < o[j]
        BY <4>2, <4>4
      <4>6. QED
        BY <4>5 DEF j
    <3>3. QED
      BY <3>1, <3>2
  <2> HIDE DEF T
  <2>3. QED
    BY <1>6, <2>1, <2>2, UpTo
<1>8. ASSUME NEW i \in 1..n, NEW j \in 1..n, i < j
      PROVE  o[i] < o[j]
  <2>1. j - i \in 0..n /\ j - i >= 1 /\ i + (j - i) = j /\ i + (j - i) <= n
    BY <1>6, <1>8
  <2>2. j - i \in T
    BY <1>7, <2>1
  <2>3. QED
    BY <2>1, <2>2
<1>9. Ranking(rows)
  <2> SUFFICES ASSUME NEW i \in 1..n, NEW j \in 1..n, rows[i].chunk = rows[j].chunk, i # j
               PROVE  FALSE
    BY <1>6 DEF Ranking
  <2>1. rows[i] = result[o[i]] /\ rows[j] = result[o[j]] /\ o[i] \in 1..k /\ o[j] \in 1..k
    BY <1>6
  <2>2. o[i] = o[j]
    BY <1>6, <2>1 DEF Ranking
  <2>3. i < j \/ j < i
    BY <1>6
  <2>4. o[i] < o[j] \/ o[j] < o[i]
    BY <1>8, <2>3
  <2>5. QED
    BY <1>6, <2>1, <2>2, <2>4
<1>10. ChunksIn(rows) \subseteq ChunksIn(result)
  BY <1>6 DEF ChunksIn
<1>11. QED
  BY <1>5, <1>9, <1>10 DEF rows

\* Lists whose rows tell the same have the same chunks.
LEMMA FromChunks ==
    ASSUME NEW a, NEW b, From(a, b)
    PROVE  ChunksIn(a) \subseteq ChunksIn(b)
BY DEF From, ChunksIn

\* A query as it is asked.
LEMMA QuestionFacts ==
    ASSUME NEW q \in Questions
    PROVE  /\ q.topK \in Nat /\ q.topK >= 1 /\ q.terms \in Terms /\ q.min \in Fraction
           /\ RerankTopK \in Nat /\ RerankTopK >= 1
           /\ q.topK * CandidateMultiplier \in Nat
<1>1. /\ q.topK \in 1..50 /\ q.terms \in Terms /\ q.min \in Int \X (Nat \ {0})
      /\ RerankTopK \in 1..100 /\ CandidateMultiplier \in 1..20
  BY RetrievalAssumption, Zenon DEF RetrievalAssumption
<1>2. \A i \in 1..50, j \in 1..20 : i * j \in Nat
  OBVIOUS
<1>3. QED
  BY <1>1, <1>2 DEF Fraction

\* The lists of a search that is done.
Lists(q, s, t, fused, first, reranked, diverse, result) ==
    /\ fused = Fused(<<s, t>>) /\ first = FirstOf(fused, RerankTopK)
    /\ reranked = Reranked(q.terms, first)
    /\ diverse = Diverse(reranked, q.topK)
    /\ result = Kept(diverse, q.min)

\* Each list is what the lemma about its step says of the list before it.
LEMMA ListsAre ==
    ASSUME NEW q \in Questions, NEW s \in Seq(Scored), NEW t \in Seq(Scored),
           NEW fused, NEW first, NEW reranked, NEW diverse, NEW result,
           Lists(q, s, t, fused, first, reranked, diverse, result)
    PROVE  /\ fused \in Seq(Scored) /\ Ranking(fused) /\ Descending(fused)
           /\ FromOne(fused, s, t) /\ ChunksIn(fused) = ChunksIn(s) \cup ChunksIn(t)
           /\ reranked \in Seq(Scored) /\ Ranking(reranked) /\ Descending(reranked)
           /\ NotNegative(reranked) /\ From(reranked, fused)
           /\ Len(reranked) = IF RerankTopK < Len(fused) THEN RerankTopK ELSE Len(fused)
           /\ diverse \in Seq(Scored) /\ Ranking(diverse) /\ Within(diverse, reranked)
           /\ Len(diverse) = IF q.topK < Len(reranked) THEN q.topK ELSE Len(reranked)
           /\ diverse # <<>> => diverse[1] = reranked[1]
           /\ Remains(diverse, result, Len(diverse), q.min)
           /\ From(result, reranked)
<1> USE DEF Lists
<1>0. q.topK \in Nat /\ q.terms \in Terms /\ RerankTopK \in Nat
  BY QuestionFacts
<1>1. /\ fused \in Seq(Scored) /\ Ranking(fused) /\ Descending(fused)
      /\ ChunksIn(fused) = ChunksIn(s) \cup ChunksIn(t) /\ FromOne(fused, s, t)
  BY FusedIs
<1>2. NotNegative(fused)
  BY FusedSign
<1>3. /\ first \in Seq(Scored)
      /\ Len(first) = IF RerankTopK < Len(fused) THEN RerankTopK ELSE Len(fused)
  BY <1>0, <1>1, FirstOfIs
<1>4. From(first, fused) /\ Ranking(first) /\ Descending(first) /\ NotNegative(first)
  BY <1>0, <1>1, <1>2, FirstOfKeeps
<1>5. /\ reranked \in Seq(Scored) /\ Ranking(reranked) /\ Descending(reranked)
      /\ NotNegative(reranked) /\ From(reranked, first)
      /\ Len(reranked) = IF RerankTopK < Len(first) THEN RerankTopK ELSE Len(first)
  BY <1>0, <1>3, <1>4, RerankedIs
<1>6. Len(reranked) = IF RerankTopK < Len(fused) THEN RerankTopK ELSE Len(fused)
  <2>1. Len(fused) \in Nat
    BY <1>1
  <2>2. QED
    BY <1>0, <1>3, <1>5, <2>1
<1>7. From(reranked, fused)
  BY <1>4, <1>5, FromFrom
<1>8. /\ diverse \in Seq(Scored) /\ Ranking(diverse) /\ Within(diverse, reranked)
      /\ Len(diverse) = IF q.topK < Len(reranked) THEN q.topK ELSE Len(reranked)
      /\ diverse # <<>> => diverse[1] = reranked[1]
  BY <1>0, <1>5, DiverseIs
<1>9. Remains(diverse, result, Len(diverse), q.min)
  BY <1>8, KeptIs
<1>10. From(result, reranked)
  <2> HIDE DEF Lists
  <2>0. \A m \in 1..Len(result) :
            \E j \in 1..Len(diverse) : result[m] = diverse[j] /\ ~Less(diverse[j].score, q.min)
    BY <1>9, Zenon DEF Remains
  <2>1. \A m \in 1..Len(result) : \E j \in 1..Len(diverse) : result[m] = diverse[j]
    BY <2>0
  <2>2. DOMAIN result = 1..Len(result) /\ DOMAIN diverse = 1..Len(diverse)
    BY <1>8, <1>9 DEF Remains
  <2>3. Within(result, diverse)
    BY <2>1, <2>2 DEF Within
  <2>4. From(result, diverse) /\ From(diverse, reranked)
    BY <1>8, <2>3, WithinFrom
  <2>5. QED
    BY <2>4, FromFrom
<1>11. QED
  BY <1>1, <1>5, <1>6, <1>7, <1>8, <1>9, <1>10

\* Whatever the two searches rank, what retrieve and assemble make of it is sized, in
\* the order of the ranks, and cited.
LEMMA FoundRight ==
    ASSUME NEW q \in Questions, NEW s \in Seq(Scored), NEW t \in Seq(Scored),
           \A row \in ToSet(s) \cup ToSet(t) : Matches(q.filter, row)
    PROVE  LET f == Found(q, s, t)
           IN  Sized(q, f) /\ Cited(f.result, f.context) /\ FollowsRanks(q, f)
<1> DEFINE f == Found(q, s, t)
<1>1. PICK fused, first, reranked, diverse, result :
          /\ Lists(q, s, t, fused, first, reranked, diverse, result)
          /\ f.semantic = s /\ f.lexical = t /\ f.fused = fused /\ f.reranked = reranked
          /\ f.result = result /\ f.context = Context(Packed(result, TokenBudget))
  <2> DEFINE fused == Fused(<<s, t>>)
             first == FirstOf(fused, RerankTopK)
             reranked == Reranked(q.terms, first)
             diverse == Diverse(reranked, q.topK)
             result == Kept(diverse, q.min)
  <2>1. Lists(q, s, t, fused, first, reranked, diverse, result)
    BY DEF Lists
  <2>2. /\ f.semantic = s /\ f.lexical = t /\ f.fused = fused /\ f.reranked = reranked
        /\ f.result = result /\ f.context = Context(Packed(result, TokenBudget))
    BY DEF Found
  <2> HIDE DEF f, fused, first, reranked, diverse, result
  <2>3. QED
    BY <2>1, <2>2
<1> HIDE DEF f
<1>2. /\ fused \in Seq(Scored) /\ Ranking(fused) /\ Descending(fused)
      /\ FromOne(fused, s, t) /\ ChunksIn(fused) = ChunksIn(s) \cup ChunksIn(t)
      /\ reranked \in Seq(Scored) /\ Ranking(reranked) /\ Descending(reranked)
      /\ NotNegative(reranked) /\ From(reranked, fused)
      /\ Len(reranked) = IF RerankTopK < Len(fused) THEN RerankTopK ELSE Len(fused)
      /\ diverse \in Seq(Scored) /\ Ranking(diverse) /\ Within(diverse, reranked)
      /\ Len(diverse) = IF q.topK < Len(reranked) THEN q.topK ELSE Len(reranked)
      /\ diverse # <<>> => diverse[1] = reranked[1]
      /\ Remains(diverse, result, Len(diverse), q.min)
      /\ From(result, reranked)
  BY <1>1, ListsAre
<1>3. /\ q.topK \in Nat /\ q.topK >= 1 /\ q.min \in Fraction
      /\ RerankTopK \in Nat /\ RerankTopK >= 1
  BY QuestionFacts
<1> DEFINE n == Len(diverse)
<1>4. /\ result \in Seq(Scored) /\ Len(result) <= n /\ Ranking(result)
      /\ \A m \in 1..Len(result) :
            \E j \in 1..n : result[m] = diverse[j] /\ ~Less(diverse[j].score, q.min)
      /\ (\A j \in 1..n : ~Less(diverse[j].score, q.min)) => Len(result) = n
      /\ (n >= 1 /\ ~Less(diverse[1].score, q.min)) => result # <<>> /\ result[1] = diverse[1]
  BY <1>2, Zenon DEF Remains
<1>5. /\ n \in Nat /\ Len(fused) \in Nat /\ Len(reranked) \in Nat /\ Len(result) \in Nat
      /\ DOMAIN result = 1..Len(result) /\ DOMAIN diverse = 1..n
      /\ DOMAIN reranked = 1..Len(reranked)
  BY <1>2, <1>4
<1>6. /\ \A i \in 1..Len(reranked) : reranked[i] \in Scored
      /\ \A i \in 1..n : diverse[i] \in Scored
  BY <1>2, ElementOfSeq
<1>7. /\ \A i \in 1..Len(reranked) : reranked[i].score \in Fraction
      /\ \A i \in 1..n : diverse[i].score \in Fraction
  BY <1>6 DEF Scored
<1>8. \A r \in Scored : r.chunk.chars \in Nat
  BY ChunkFacts DEF Scored
<1> DEFINE rows == f.context.rows
<1>9. rows \in Seq(Scored) /\ Ranking(rows) /\ ChunksIn(rows) \subseteq ChunksIn(result)
  <2>1. rows = Context(Packed(result, TokenBudget)).rows
    BY <1>1
  <2> HIDE DEF rows
  <2>2. QED
    BY <1>4, <1>8, <2>1, PackedRanks
<1>10. Cited(f.result, f.context)
  BY <1>1, <1>4, <1>8, ContextCited
<1>11. Sized(q, f)
  <2>1. Len(result) <= q.topK
    <3>1. n <= q.topK
      BY <1>2, <1>3, <1>5
    <3>2. Len(result) <= n
      BY <1>4, Zenon
    <3>3. q.topK \in Nat
      BY <1>3
    <3> HIDE DEF n
    <3>4. QED
      BY <1>5, <3>1, <3>2, <3>3
  <2>2. /\ ChunksIn(reranked) \subseteq ChunksIn(fused)
        /\ ChunksIn(result) \subseteq ChunksIn(reranked)
    BY <1>2, FromChunks
  <2>3. ASSUME NEW list \in {fused, reranked, result, rows}
        PROVE  /\ Cardinality(ChunksIn(list)) = Len(list)
               /\ ChunksIn(list) \subseteq ChunksIn(s) \cup ChunksIn(t)
    <3> HIDE DEF rows
    <3>1. list \in Seq(Scored) /\ Ranking(list)
      BY <1>2, <1>4, <1>9
    <3>2. Cardinality(ChunksIn(list)) = Len(list)
      BY <3>1, RankingCounts
    <3>3. ChunksIn(list) \subseteq ChunksIn(fused)
      BY <1>9, <2>2
    <3>4. QED
      BY <1>2, <3>2, <3>3
  <2> HIDE DEF rows
  <2>4. \A list \in {f.fused, f.reranked, f.result, f.context.rows} :
            list \in {fused, reranked, result, rows}
    BY <1>1 DEF rows
  <2>5. QED
    BY <1>1, <2>1, <2>3, <2>4, Zenon DEF Sized
<1>12. ASSUME NEW x \in ChunksIn(fused), NEW y \in ChunksIn(fused), x # y,
              AtLeast(s, x, y), AtLeast(t, x, y)
       PROVE  RankOf(fused, x) < RankOf(fused, y)
  <2>1. fused = Fused(<<s, t>>)
    BY <1>1 DEF Lists
  <2>2. QED
    BY <1>12, <2>1, FusedRanks
<1>13. ASSUME q.min = Zero
       PROVE  Len(result) = Min({q.topK, RerankTopK, Len(fused)})
  <2>1. \A j \in 1..n : ~Less(diverse[j].score, q.min)
    <3> SUFFICES ASSUME NEW j \in 1..n
                 PROVE  ~Less(diverse[j].score, Zero)
      BY <1>13
    <3>1. PICK i \in 1..Len(reranked) : diverse[j] = reranked[i]
      BY <1>2, <1>5 DEF Within
    <3>2. diverse[j].score[1] >= 0
      BY <1>2, <1>5, <3>1 DEF NotNegative
    <3>3. diverse[j].score[1] \in Int /\ diverse[j].score[2] \in Nat \ {0}
      BY <1>7, Parts
    <3>4. ~(diverse[j].score[1] * 1 < 0 * diverse[j].score[2])
      BY <3>2, <3>3
    <3>5. QED
      BY <3>4 DEF Less, Zero
  <2>2. Len(result) = n
    BY <1>4, <2>1
  <2> DEFINE X == {q.topK, RerankTopK, Len(fused)}
  <2>3. X \subseteq Nat /\ X # {}
    BY <1>3, <1>5
  <2>4. Min(X) \in X /\ \A y \in X : Min(X) <= y
    <3> HIDE DEF X
    <3>1. QED
      BY <2>3, MinIn
  <2>5. n \in X /\ \A y \in X : n <= y
    BY <1>2, <1>3, <1>5
  <2>6. Min(X) = n
    <3>1. Min(X) \in Nat
      BY <2>3, <2>4
    <3>2. Min(X) <= n /\ n <= Min(X)
      BY <2>4, <2>5
    <3>3. QED
      BY <1>5, <3>1, <3>2
  <2>7. QED
    BY <2>2, <2>6
<1>14. ASSUME result # <<>>, NEW i \in 1..Len(reranked)
       PROVE  ~Less(result[1].score, reranked[i].score)
  <2>0. 1 \in 1..Len(result)
    <3>1. Len(result) # 0
      BY <1>4, <1>14, EmptySeq
    <3>2. QED
      BY <1>5, <3>1
  <2>1. PICK j \in 1..n : result[1] = diverse[j] /\ ~Less(diverse[j].score, q.min)
    BY <1>4, <2>0
  <2>2. n >= 1 /\ 1 \in 1..n /\ 1 \in 1..Len(reranked)
    BY <1>5
  <2>3. diverse # <<>>
    <3>1. n # 0
      BY <1>5, <2>2
    <3>2. Len(<<>>) = 0
      OBVIOUS
    <3>3. QED
      BY <3>1, <3>2
  <2>4. diverse[1] = reranked[1]
    BY <1>2, <2>3
  <2>5. \A h \in 1..Len(reranked) : ~Less(reranked[1].score, reranked[h].score)
    <3> SUFFICES ASSUME NEW h \in 1..Len(reranked)
                 PROVE  ~Less(reranked[1].score, reranked[h].score)
      OBVIOUS
    <3>1. CASE h = 1
      BY <1>7, <2>2, <3>1, Ordered
    <3>2. CASE h # 1
      <4>1. 1 < h
        BY <1>5, <3>2
      <4>2. QED
        BY <1>2, <1>5, <2>2, <4>1 DEF Descending
    <3>3. QED
      BY <3>1, <3>2
  <2>6. CASE ~Less(diverse[1].score, q.min)
    BY <1>4, <2>2, <2>4, <2>5, <2>6
  <2>7. CASE Less(diverse[1].score, q.min)
    <3>1. PICK h \in 1..Len(reranked) : diverse[j] = reranked[h]
      BY <1>2, <1>5 DEF Within
    <3>2. Less(diverse[1].score, diverse[j].score)
      BY <1>3, <1>7, <2>1, <2>2, <2>7, Ordered
    <3>3. QED
      BY <2>4, <2>5, <3>1, <3>2
  <2>8. QED
    BY <2>6, <2>7
<1>15. ASSUME NEW i \in 1..Len(result)
       PROVE  Matches(q.filter, result[i])
  <2>1. From(result, fused)
    BY <1>2, FromFrom
  <2>2. PICK j \in DOMAIN fused : /\ result[i].chunk = fused[j].chunk
                                  /\ result[i].version = fused[j].version
    BY <1>5, <2>1 DEF From
  <2>3. PICK row \in ToSet(s) \cup ToSet(t) :
            fused[j].chunk = row.chunk /\ fused[j].version = row.version
    BY <1>2 DEF FromOne
  <2>4. Matches(q.filter, row)
    OBVIOUS
  <2>5. QED
    BY <2>2, <2>3, <2>4 DEF Matches
<1>16. ChunksIn(fused) = UNION {ChunksIn(l) : l \in {s, t}}
  BY <1>2
<1>17. FollowsRanks(q, f)
  <2>1. \A x, y \in ChunksIn(fused) :
            (/\ x # y
             /\ \A l \in {s, t} : AtLeast(l, x, y)) =>
                RankOf(fused, x) < RankOf(fused, y)
    BY <1>12
  <2>2. \A i \in DOMAIN reranked : result # <<>> => ~Less(result[1].score, reranked[i].score)
    BY <1>5, <1>14
  <2>3. \A i \in DOMAIN result : Matches(q.filter, result[i])
    BY <1>5, <1>15
  <2>4. QED
    BY <1>1, <1>13, <1>16, <2>1, <2>2, <2>3, Zenon DEF FollowsRanks
<1>18. QED
  BY <1>10, <1>11, <1>17 DEF f

-----------------------------------------------------------------------------
\* The searches.

USE RetrievalAssumption, StorageAssumption

\* The model guard of upsert keeps the table at one model, so that the row the
\* guard of a search happens to read stands for all of them.
OneModel ==
    /\ table \subseteq Rows
    /\ \A r1, r2 \in table : r1.model = r2.model

\* Until another process writes, a search that has passed the guard is about to
\* read rows of its own model.
GuardHolds ==
    \A s \in Searches : search[s].pc = "selecting" /\ ~search[s].moved =>
        ModelsOf(table) \subseteq {model}

\* A search is a record, whatever its question and what it found are.
IsSearch(x) ==
    x \in [pc : {"idle", "embedding", "guarding", "selecting", "done", "failed"},
           question : {x.question}, moved : BOOLEAN, found : {x.found}]

USE DEF IsSearch

Shape ==
    /\ DOMAIN search = Searches
    /\ search = [s \in Searches |-> search[s]]
    /\ \A s \in Searches :
          /\ IsSearch(search[s])
          /\ search[s].pc \in {"embedding", "guarding", "selecting"} =>
                search[s].question \in Questions

IInv == OneModel /\ GuardHolds /\ Shape /\ ResultsComparable

-----------------------------------------------------------------------------
\* A ranking of a set has only members of it, however short it is cut.
LEMMA RankedRows ==
    ASSUME NEW S, IsFiniteSet(S), NEW list \in SetToSeqs(S), NEW k \in Nat
    PROVE  ToSet(FirstOf(list, k)) \subseteq S
<1> DEFINE n == Cardinality(S)
<1>1. n \in Nat
  BY FS_CardinalityType
<1>2. list \in [1..n -> S]
  BY DEF SetToSeqs
<1>3. list \in Seq(S) /\ Len(list) = n
  BY <1>1, <1>2
<1>4. FirstOf(list, k) = SubSeq(list, 1, IF k < n THEN k ELSE n)
  BY <1>3 DEF FirstOf
<1>5. FirstOf(list, k) \in Seq(S)
  BY <1>1, <1>3, <1>4
<1>6. QED
  BY <1>5 DEF ToSet

\* Rows of one model have the model of any one of them.
LEMMA AnyRowTells ==
    ASSUME NEW rows, NEW m, \A r1, r2 \in rows : r1.model = r2.model,
           rows = {} \/ m \in ModelsOf(rows)
    PROVE  ModelsOf(rows) \subseteq {m}
BY DEF ModelsOf

LEMMA FoundKeepsRanking ==
    ASSUME NEW q, NEW semantic, NEW lexical
    PROVE  Found(q, semantic, lexical).semantic = semantic
BY DEF Found

\* What a search finds is of its own model if the table is.
LEMMA FinishComparable ==
    ASSUME IInv, NEW s \in Searches, Finish(s), ModelsOf(table) \subseteq {model},
           search[s].question \in Questions
    PROVE  ModelsOf(ToSet(search'[s].found.semantic)) \subseteq {model}
<1> DEFINE q == search[s].question
           k == q.topK * CandidateMultiplier
<1>1. PICK meant \in SetToSeqs(ByMeaning(q)), worded \in SetToSeqs(ByWords(q)) :
           search' = [search EXCEPT ![s].pc = "done",
                          ![s].found = Found(q, FirstOf(meant, k), FirstOf(worded, k))]
  BY DEF Finish
<1>2. search'[s].found = Found(q, FirstOf(meant, k), FirstOf(worded, k))
  <2> DEFINE f == Found(q, FirstOf(meant, k), FirstOf(worded, k))
  <2>1. search' = [search EXCEPT ![s].pc = "done", ![s].found = f]
    BY <1>1
  <2>2. DOMAIN search = Searches /\ IsSearch(search[s])
    BY DEF IInv, Shape
  <2> HIDE DEF f
  <2>3. search'[s].found = f
    BY <2>1, <2>2
  <2>4. QED
    BY <2>3 DEF f
<1>3. search'[s].found.semantic = FirstOf(meant, k)
  BY <1>2, FoundKeepsRanking
<1>4. ByMeaning(q) \subseteq table
  BY DEF ByMeaning
<1>0. k \in Nat
  <2>1. q.topK \in 1..50 /\ CandidateMultiplier \in 1..20
    BY RetrievalAssumption DEF RetrievalAssumption
  <2>2. \A i \in 1..50, j \in 1..20 : i * j \in Nat
    OBVIOUS
  <2>3. QED
    BY <2>1, <2>2
<1>5. IsFiniteSet(ByMeaning(q))
  BY <1>4, FS_Subset DEF IInv, OneModel
<1>6. ToSet(FirstOf(meant, k)) \subseteq ByMeaning(q)
  BY <1>0, <1>5, RankedRows
<1>7. QED
  BY <1>3, <1>4, <1>6 DEF ModelsOf

\* A step that leaves the table, the model and every search but one alone.
LEMMA OthersKeep ==
    ASSUME IInv, NEW s \in Searches, NEW x,
           search' = [search EXCEPT ![s] = x],
           IsSearch(x),
           x.pc \in {"embedding", "guarding", "selecting"} => x.question \in Questions,
           x.pc = "selecting" /\ ~x.moved => ModelsOf(table) \subseteq {model},
           x.pc = "done" /\ ~x.moved => ModelsOf(ToSet(x.found.semantic)) \subseteq {model},
           table' = table, model' = model
    PROVE  IInv'
<1> USE DEF IInv
<1>1. search'[s] = x /\ \A o \in Searches \ {s} : search'[o] = search[o]
  BY DEF Shape
<1>2. Shape'
  BY <1>1 DEF Shape
<1>3. OneModel' /\ GuardHolds'
  BY <1>1 DEF OneModel, GuardHolds, ModelsOf
<1>4. ResultsComparable'
  BY <1>1 DEF ResultsComparable, Done
<1>5. QED
  BY <1>2, <1>3, <1>4

LEMMA InitIInv == Init => IInv
<1> SUFFICES ASSUME Init PROVE IInv
  OBVIOUS
<1>1. PICK v \in Versions, m \in Models : table = Stored(corpus, v, m)
  BY DEF Init
<1>2. ChunksOfCorpus(corpus) \subseteq AllChunks
  BY DEF Init, AllChunks
<1>3. OneModel
  BY <1>1, <1>2 DEF OneModel, Stored, Row, Rows
<1>4. \A s \in Searches : search[s] = Idle
  BY DEF Init
<1>5. QED
  BY <1>3, <1>4 DEF Init, IInv, Idle, GuardHolds, Shape, ResultsComparable, Done

\* The steps of a search.
LEMMA SearchKeeps ==
    ASSUME IInv, NEW s \in Searches,
           Ask(s) \/ Fail(s) \/ SearchMemory(s) \/ Embedded(s) \/ Guard(s) \/ Select(s)
    PROVE  IInv'
<1> USE DEF IInv
<1> DEFINE x == search[s]
<1>0. /\ IsSearch(x)
      /\ x.pc \in {"embedding", "guarding", "selecting"} => x.question \in Questions
  BY DEF Shape
<1>1. CASE Ask(s)
  <2>1. PICK q \in Questions :
            search' = [search EXCEPT ![s] = [Idle EXCEPT !.pc = "embedding", !.question = q]]
    BY <1>1 DEF Ask
  <2>2. table' = table /\ model' = model
    BY <1>1 DEF Ask
  <2> DEFINE y == [Idle EXCEPT !.pc = "embedding", !.question = q]
  <2>3. /\ y.pc = "embedding" /\ y.question = q
        /\ IsSearch(y)
    BY DEF Idle
  <2>4. search' = [search EXCEPT ![s] = y]
    BY <2>1
  <2> HIDE DEF y
  <2>5. QED
    BY <2>2, <2>3, <2>4, OthersKeep
<1>2. CASE Fail(s)
  <2> DEFINE y == [Idle EXCEPT !.pc = "failed"]
  <2>1. search' = [search EXCEPT ![s] = y] /\ table' = table /\ model' = model
    BY <1>2 DEF Fail
  <2>2. /\ y.pc = "failed"
        /\ IsSearch(y)
    BY DEF Idle
  <2> HIDE DEF y
  <2>3. QED
    BY <2>1, <2>2, OthersKeep
<1>3. CASE Embedded(s)
  <2> DEFINE y == [x EXCEPT !.pc = "guarding"]
  <2>1. search' = [search EXCEPT ![s] = y] /\ table' = table /\ model' = model
    BY <1>3 DEF Embedded
  <2>2. /\ y.pc = "guarding" /\ y.question \in Questions
        /\ IsSearch(y)
    BY <1>0, <1>3 DEF Embedded
  <2> HIDE DEF y
  <2>3. QED
    BY <2>1, <2>2, OthersKeep
<1>4. CASE Guard(s)
  <2> DEFINE y == [x EXCEPT !.pc = "selecting", !.moved = FALSE]
  <2>1. search' = [search EXCEPT ![s] = y] /\ table' = table /\ model' = model
    BY <1>4 DEF Guard
  <2>2. /\ y.pc = "selecting" /\ y.question \in Questions
        /\ IsSearch(y)
    BY <1>0, <1>4 DEF Guard
  <2>3. ModelsOf(table) \subseteq {model}
    BY <1>4, AnyRowTells DEF Guard, OneModel
  <2> HIDE DEF y
  <2>4. QED
    BY <2>1, <2>2, <2>3, OthersKeep
<1>5. ASSUME Finish(s), table' = table, model' = model, x.pc \in {"embedding", "selecting"},
             x.moved \/ ModelsOf(table) \subseteq {model}
      PROVE  IInv'
  <2>1. PICK f : search' = [search EXCEPT ![s].pc = "done", ![s].found = f]
    BY <1>5 DEF Finish
  <2> DEFINE y == [x EXCEPT !.pc = "done", !.found = f]
  <2>2. search' = [search EXCEPT ![s] = y]
    BY <2>1 DEF Shape
  <2>3. /\ y.pc = "done" /\ y.moved = x.moved
        /\ IsSearch(y)
    BY <1>0
  <2>4. search'[s] = y
    BY <2>2 DEF Shape
  <2> HIDE DEF y
  <2>5. y.moved \/ ModelsOf(ToSet(y.found.semantic)) \subseteq {model}
    BY <1>0, <1>5, <2>3, <2>4, FinishComparable
  <2>6. QED
    BY <1>5, <2>2, <2>3, <2>5, OthersKeep
<1>6. CASE SearchMemory(s)
  <2>1. ModelsOf(table) \subseteq {model}
    BY <1>6, AnyRowTells DEF SearchMemory, OneModel
  <2>2. QED
    BY <1>5, <1>6, <2>1 DEF SearchMemory
<1>7. CASE Select(s)
  <2>1. x.moved \/ ModelsOf(table) \subseteq {model}
    BY <1>7 DEF Select, GuardHolds
  <2>2. QED
    BY <1>5, <1>7, <2>1 DEF Select
<1>8. QED
  BY <1>1, <1>2, <1>3, <1>4, <1>6, <1>7

\* A write marks the searches that are between their guard and their rows.
LEMMA WritesKeep ==
    ASSUME IInv, NEW rows, Writes(rows), rows \subseteq Rows,
           \A r1, r2 \in rows : r1.model = r2.model
    PROVE  IInv'
<1> USE DEF IInv
<1>1. /\ table' = rows /\ model' = model
      /\ search' = [s \in Searches |->
                        [search[s] EXCEPT !.moved = @ \/ search[s].pc = "selecting"]]
  BY DEF Writes
<1>2. ASSUME NEW s \in Searches
      PROVE  /\ search'[s].pc = search[s].pc /\ search'[s].question = search[s].question
             /\ search'[s].found = search[s].found
             /\ search'[s].moved = (search[s].moved \/ search[s].pc = "selecting")
             /\ IsSearch(search'[s])
  <2> DEFINE b == search[s].moved \/ search[s].pc = "selecting"
  <2>1. search'[s] = [search[s] EXCEPT !.moved = b]
    BY <1>1
  <2>2. b \in BOOLEAN
    OBVIOUS
  <2> HIDE DEF b
  <2>3. IsSearch(search[s])
    BY DEF Shape
  <2>4. /\ search'[s].pc = search[s].pc /\ search'[s].question = search[s].question
        /\ search'[s].found = search[s].found
        /\ search'[s].moved = b
        /\ IsSearch(search'[s])
    BY <2>1, <2>2, <2>3
  <2>5. QED
    BY <2>4 DEF b
<1>3. Shape'
  <2>1. DOMAIN search' = Searches
    BY <1>1
  <2>2. search' = [s \in Searches |-> search'[s]]
    BY <1>1
  <2>3. QED
    BY <1>2, <2>1, <2>2 DEF Shape
<1>4. OneModel'
  BY <1>1 DEF OneModel
<1>5. GuardHolds'
  BY <1>2 DEF GuardHolds
<1>6. ResultsComparable'
  <2> SUFFICES ASSUME NEW s \in Searches, search'[s].pc = "done", ~search'[s].moved
               PROVE  ModelsOf(ToSet(search'[s].found.semantic)) \subseteq {model'}
    BY DEF ResultsComparable, Done
  <2>1. search[s].pc = "done" /\ ~search[s].moved
    BY <1>2
  <2>2. ModelsOf(ToSet(search[s].found.semantic)) \subseteq {model}
    BY <2>1 DEF ResultsComparable, Done
  <2>3. search'[s].found = search[s].found /\ model' = model
    BY <1>1, <1>2
  <2>4. QED
    BY <2>2, <2>3
<1>7. QED
  BY <1>3, <1>4, <1>5, <1>6

LEMMA NextIInv == IInv /\ [Next]_vars => IInv'
<1> SUFFICES ASSUME IInv, [Next]_vars PROVE IInv'
  OBVIOUS
<1>1. CASE \E s \in Searches : \/ Ask(s) \/ Fail(s) \/ SearchMemory(s)
                              \/ Embedded(s) \/ Guard(s) \/ Select(s)
  BY <1>1, SearchKeeps
<1>2. CASE \E v \in Versions : OtherDeletes(v)
  <2>1. PICK v \in Versions : Writes({row \in table : row.version # v})
    BY <1>2 DEF OtherDeletes
  <2>2. QED
    BY <2>1, WritesKeep DEF IInv, OneModel
<1>3. CASE \E c \in AllChunks, v \in Versions, m \in Models : OtherUpserts(c, v, m)
  <2>1. PICK c \in AllChunks, v \in Versions, m \in Models : OtherUpserts(c, v, m)
    BY <1>3
  <2> DEFINE rows == {row \in table : row.chunk # c} \cup {Row(c, v, m)}
  <2>2. Writes(rows) /\ ModelsOf(table) \subseteq {m}
    BY <2>1 DEF OtherUpserts
  <2>3. Row(c, v, m) \in Rows /\ Row(c, v, m).model = m
    BY DEF Row, Rows
  <2>4. rows \subseteq Rows /\ \A r \in rows : r.model = m
    BY <2>2, <2>3 DEF IInv, OneModel, ModelsOf
  <2> HIDE DEF rows
  <2>5. QED
    BY <2>2, <2>4, WritesKeep
<1>4. CASE UNCHANGED vars
  BY <1>4 DEF vars, IInv, OneModel, GuardHolds, Shape, ResultsComparable, Done
<1>5. QED
  BY <1>1, <1>2, <1>3, <1>4 DEF Next

-----------------------------------------------------------------------------
\* A query is only compared with vectors of its own embedding model unless the
\* shared table was written to between the guard and the search
\* (pgvector_store.py:161-180, 210-216).
THEOREM Comparable == Spec => []ResultsComparable
<1>1. IInv => ResultsComparable
  BY DEF IInv
<1>2. QED
  BY InitIInv, NextIInv, <1>1, PTL DEF Spec
-----------------------------------------------------------------------------
\* What is indexed stays what it was.
LEMMA CorpusStays == Spec => [](corpus \in Corpora)
<1>1. Init => corpus \in Corpora
  BY DEF Init
<1>2. ASSUME corpus \in Corpora, [Next]_vars
      PROVE  (corpus \in Corpora)'
  BY <1>2 DEF Next, vars, Ask, Fail, SearchMemory, Embedded, Guard, Select, OtherDeletes,
              OtherUpserts, Writes
<1>3. QED
  BY <1>1, <1>2, PTL DEF Spec

\* SplitLosesNothing: for any corpus, cap and overlap, the chunks of a control
\* together hold its summary, each opening with the end of the one before, and
\* are over the cap only by one sentence or what they repeat.
THEOREM SplitIsWhole == Spec => []SplitLosesNothing
<1>1. ASSUME corpus \in Corpora
      PROVE  SplitLosesNothing
  <2>1. \A control \in corpus : IsControl(control)
    BY <1>1 DEF RetrievalAssumption
  <2>2. QED
    BY <2>1, SplitLoses DEF SplitLosesNothing
<1>2. QED
  BY <1>1, CorpusStays, PTL

-----------------------------------------------------------------------------
\* What a search that is done has found, whatever was written meanwhile.

\* What a search that is done has made of its rankings.
Right(q, f) == Sized(q, f) /\ Cited(f.result, f.context) /\ FollowsRanks(q, f)

Answered(x) ==
    /\ x.question \in Questions \cup {NoQuestion}
    /\ x.pc # "done" => x.found = Nothing
    /\ x.pc = "done" => Right(x.question, x.found)

\* The rows there are, and what is made of them.
Stores ==
    /\ backend \in Backends /\ model \in Models /\ corpus \in Corpora
    /\ table \subseteq Rows /\ keyword \subseteq Rows
    /\ \A r1, r2 \in table : r1.chunk = r2.chunk => r1 = r2
    /\ writes \in 0..MaxWrites

RInv == IInv /\ Stores /\ \A s \in Searches : Answered(search[s])

LEMMA RowsScored == Rows \subseteq Scored
<1>1. Zero \in Fraction
  BY Lambda
<1> HIDE DEF Zero
<1>2. QED
  BY <1>1 DEF Rows, Scored

\* The beginning of a ranking of rows is a sequence of such rows.
LEMMA RankingType ==
    ASSUME NEW S, IsFiniteSet(S), NEW list \in SetToSeqs(S), NEW k \in Nat
    PROVE  FirstOf(list, k) \in Seq(S)
<1> DEFINE n == Cardinality(S)
<1>1. n \in Nat
  BY FS_CardinalityType
<1>2. list \in [1..n -> S]
  BY DEF SetToSeqs
<1>3. list \in Seq(S)
  BY <1>1, <1>2
<1>4. QED
  BY <1>3, FirstOfIs

LEMMA SeqWiden ==
    ASSUME NEW A, NEW B, A \subseteq B, NEW list \in Seq(A)
    PROVE  list \in Seq(B) /\ ToSet(list) \subseteq A
<1>1. list \in Seq(B)
  OBVIOUS
<1>2. \A i \in DOMAIN list : list[i] \in A
  OBVIOUS
<1>3. QED
  BY <1>1, <1>2 DEF ToSet

\* A search that ends has found something right.
LEMMA FinishRight ==
    ASSUME RInv, NEW s \in Searches, Finish(s), search[s].question \in Questions
    PROVE  \E f : /\ search' = [search EXCEPT ![s].pc = "done", ![s].found = f]
                  /\ Right(search[s].question, f)
<1> DEFINE q == search[s].question
           k == q.topK * CandidateMultiplier
<1>1. PICK meant \in SetToSeqs(ByMeaning(q)), worded \in SetToSeqs(ByWords(q)) :
           search' = [search EXCEPT ![s].pc = "done",
                          ![s].found = Found(q, FirstOf(meant, k), FirstOf(worded, k))]
  BY DEF Finish
<1>2. k \in Nat
  BY QuestionFacts
<1>3. ByMeaning(q) \subseteq Rows /\ ByWords(q) \subseteq Rows
  BY DEF RInv, Stores, ByMeaning, ByWords
<1>4. IsFiniteSet(ByMeaning(q)) /\ IsFiniteSet(ByWords(q))
  BY <1>3, StorageAssumption, FS_Subset
<1>5. \A row \in ByMeaning(q) \cup ByWords(q) : Matches(q.filter, row)
  BY DEF ByMeaning, ByWords
<1> DEFINE m == FirstOf(meant, k)
           w == FirstOf(worded, k)
<1>6. m \in Seq(ByMeaning(q)) /\ w \in Seq(ByWords(q))
  <2> HIDE DEF k, q
  <2>1. QED
    BY <1>2, <1>4, RankingType
<1>7. ByMeaning(q) \subseteq Scored /\ ByWords(q) \subseteq Scored
  BY <1>3, RowsScored
<1>8. /\ m \in Seq(Scored) /\ ToSet(m) \subseteq ByMeaning(q)
      /\ w \in Seq(Scored) /\ ToSet(w) \subseteq ByWords(q)
  <2> HIDE DEF m, w
  <2>1. QED
    BY <1>6, <1>7, SeqWiden
<1>9. \A row \in ToSet(m) \cup ToSet(w) : Matches(q.filter, row)
  BY <1>5, <1>8
<1>10. q \in Questions
  OBVIOUS
<1>11. search' = [search EXCEPT ![s].pc = "done", ![s].found = Found(q, m, w)]
  BY <1>1
<1> HIDE DEF m, w, q
<1>12. Right(q, Found(q, m, w))
  BY <1>8, <1>9, <1>10, FoundRight DEF Right
<1>13. QED
  BY <1>11, <1>12 DEF q

\* With nothing done there is nothing to be wrong about.
LEMMA NothingSized ==
    ASSUME NEW q \in Questions \cup {NoQuestion}
    PROVE  Sized(q, Nothing)
<1>1. q.topK \in Nat
  <2>1. NoQuestion.topK = 0
    BY DEF NoQuestion
  <2>2. QED
    BY <2>1, QuestionFacts
<1>2. Len(<<>>) = 0 /\ ChunksIn(<<>>) = {} /\ Cardinality({}) = 0
  BY FS_EmptySet DEF ChunksIn
<1>3. /\ Nothing.fused = <<>> /\ Nothing.reranked = <<>> /\ Nothing.result = <<>>
      /\ Nothing.context.rows = <<>>
  BY DEF Nothing, Context
<1>4. 0 <= q.topK
  BY <1>1
<1> HIDE DEF Nothing
<1>5. QED
  BY <1>2, <1>3, <1>4 DEF Sized

\* A step of one search leaves the others as they were.
LEMMA OneAnswered ==
    ASSUME RInv, NEW s \in Searches, NEW x, search' = [search EXCEPT ![s] = x], Answered(x)
    PROVE  \A o \in Searches : Answered(search'[o])
BY DEF RInv, IInv, Shape

LEMMA InitRInv == Init => RInv
<1> SUFFICES ASSUME Init PROVE RInv
  OBVIOUS
<1>1. PICK v \in Versions, m \in Models : table = Stored(corpus, v, m)
  BY DEF Init
<1>2. ChunksOfCorpus(corpus) \subseteq AllChunks
  BY DEF Init, AllChunks
<1>3. table \subseteq Rows /\ \A r1, r2 \in table : r1.chunk = r2.chunk => r1 = r2
  BY <1>1, <1>2 DEF Stored, Row, Rows
<1>4. keyword \subseteq Rows
  BY <1>3 DEF Init
<1>5. writes \in 0..MaxWrites
  <2>1. MaxWrites \in Nat /\ writes = 0
    BY RetrievalAssumption DEF RetrievalAssumption, Init
  <2>2. QED
    BY <2>1
<1>6. \A s \in Searches : Answered(search[s])
  <2>1. \A s \in Searches : search[s] = Idle
    BY DEF Init
  <2>2. Answered(Idle)
    BY DEF Answered, Idle
  <2>3. QED
    BY <2>1, <2>2
<1>7. QED
  BY <1>3, <1>4, <1>5, <1>6, InitIInv DEF RInv, Stores, Init

\* The steps of a search.
LEMMA SearchRInv ==
    ASSUME RInv, NEW s \in Searches,
           Ask(s) \/ Fail(s) \/ SearchMemory(s) \/ Embedded(s) \/ Guard(s) \/ Select(s)
    PROVE  Stores' /\ \A o \in Searches : Answered(search'[o])
<1> DEFINE x == search[s]
<1>1. UNCHANGED <<backend, model, corpus, table, keyword, writes>>
  BY DEF Ask, Fail, SearchMemory, Embedded, Guard, Select
<1>2. Stores'
  BY <1>1 DEF RInv, Stores
<1>3. IsSearch(x) /\ Answered(x) /\ DOMAIN search = Searches
  BY DEF RInv, IInv, Shape
<1>4. CASE Ask(s)
  <2>1. PICK q \in Questions :
            search' = [search EXCEPT ![s] = [Idle EXCEPT !.pc = "embedding", !.question = q]]
    BY <1>4 DEF Ask
  <2> DEFINE y == [Idle EXCEPT !.pc = "embedding", !.question = q]
  <2>2. y.pc = "embedding" /\ y.question = q /\ y.found = Nothing
    BY DEF Idle
  <2>3. search' = [search EXCEPT ![s] = y]
    BY <2>1
  <2> HIDE DEF y
  <2>4. Answered(y)
    BY <2>2 DEF Answered
  <2>5. QED
    BY <1>2, <2>3, <2>4, OneAnswered
<1>5. CASE Fail(s)
  <2> DEFINE y == [Idle EXCEPT !.pc = "failed"]
  <2>1. search' = [search EXCEPT ![s] = y]
    BY <1>5 DEF Fail
  <2>2. y.pc = "failed" /\ y.question = NoQuestion /\ y.found = Nothing
    BY DEF Idle
  <2> HIDE DEF y
  <2>3. Answered(y)
    BY <2>2 DEF Answered
  <2>4. QED
    BY <1>2, <2>1, <2>3, OneAnswered
<1>6. CASE Embedded(s)
  <2> DEFINE y == [x EXCEPT !.pc = "guarding"]
  <2>1. search' = [search EXCEPT ![s] = y] /\ x.pc = "embedding"
    BY <1>6 DEF Embedded
  <2>2. y.pc = "guarding" /\ y.question = x.question /\ y.found = x.found
    BY <1>3
  <2> HIDE DEF y, x
  <2>3. Answered(y)
    BY <1>3, <2>1, <2>2 DEF Answered
  <2>4. QED
    BY <1>2, <2>1, <2>3, OneAnswered
<1>7. CASE Guard(s)
  <2> DEFINE y == [x EXCEPT !.pc = "selecting", !.moved = FALSE]
  <2>1. search' = [search EXCEPT ![s] = y] /\ x.pc = "guarding"
    BY <1>7 DEF Guard
  <2>2. y.pc = "selecting" /\ y.question = x.question /\ y.found = x.found
    BY <1>3
  <2> HIDE DEF y, x
  <2>3. Answered(y)
    BY <1>3, <2>1, <2>2 DEF Answered
  <2>4. QED
    BY <1>2, <2>1, <2>3, OneAnswered
<1>8. ASSUME Finish(s), x.pc \in {"embedding", "selecting"}
      PROVE  \A o \in Searches : Answered(search'[o])
  <2>1. x.question \in Questions
    BY <1>8 DEF RInv, IInv, Shape
  <2>2. PICK f : /\ search' = [search EXCEPT ![s].pc = "done", ![s].found = f]
                 /\ Right(x.question, f)
    BY <1>8, <2>1, FinishRight
  <2> DEFINE y == [x EXCEPT !.pc = "done", !.found = f]
  <2>3. search' = [search EXCEPT ![s] = y]
    BY <1>3, <2>2
  <2>4. y.pc = "done" /\ y.question = x.question /\ y.found = f
    BY <1>3
  <2> HIDE DEF y, x
  <2>5. Answered(y)
    BY <2>1, <2>2, <2>4 DEF Answered
  <2>6. QED
    BY <2>3, <2>5, OneAnswered
<1>9. CASE SearchMemory(s)
  BY <1>2, <1>8, <1>9 DEF SearchMemory
<1>10. CASE Select(s)
  BY <1>2, <1>8, <1>10 DEF Select
<1>11. QED
  BY <1>4, <1>5, <1>6, <1>7, <1>9, <1>10

\* The steps of the other process, which no search that is done notices.
LEMMA WritesRInv ==
    ASSUME RInv, NEW rows, Writes(rows), rows \subseteq Rows,
           \A r1, r2 \in rows : r1.chunk = r2.chunk => r1 = r2
    PROVE  Stores' /\ \A o \in Searches : Answered(search'[o])
<1>1. /\ table' = rows /\ writes' = writes + 1 /\ writes < MaxWrites
      /\ UNCHANGED <<backend, model, corpus, keyword>>
      /\ search' = [s \in Searches |->
                        [search[s] EXCEPT !.moved = @ \/ search[s].pc = "selecting"]]
  BY DEF Writes
<1>2. writes' \in 0..MaxWrites
  <2>1. MaxWrites \in Nat /\ writes \in 0..MaxWrites
    BY RetrievalAssumption DEF RetrievalAssumption, RInv, Stores
  <2>2. QED
    BY <1>1, <2>1
<1>3. Stores'
  BY <1>1, <1>2 DEF RInv, Stores
<1>4. ASSUME NEW s \in Searches
      PROVE  Answered(search'[s])
  <2> DEFINE b == search[s].moved \/ search[s].pc = "selecting"
             x == search[s]
  <2>1. search'[s] = [x EXCEPT !.moved = b] /\ IsSearch(x) /\ Answered(x)
    BY <1>1 DEF RInv, IInv, Shape
  <2> HIDE DEF b, x
  <2>2. /\ search'[s].pc = x.pc /\ search'[s].question = x.question
        /\ search'[s].found = x.found
    BY <2>1
  <2>3. QED
    BY <2>1, <2>2 DEF Answered
<1>5. QED
  BY <1>3, <1>4

LEMMA NextRInv == RInv /\ [Next]_vars => RInv'
<1> SUFFICES ASSUME RInv, [Next]_vars PROVE RInv'
  OBVIOUS
<1>0. IInv'
  BY NextIInv DEF RInv
<1> SUFFICES Stores' /\ \A o \in Searches : Answered(search'[o])
  BY <1>0 DEF RInv
<1>1. CASE \E s \in Searches : \/ Ask(s) \/ Fail(s) \/ SearchMemory(s)
                              \/ Embedded(s) \/ Guard(s) \/ Select(s)
  BY <1>1, SearchRInv
<1>2. CASE \E v \in Versions : OtherDeletes(v)
  <2>1. PICK v \in Versions : Writes({row \in table : row.version # v})
    BY <1>2 DEF OtherDeletes
  <2>2. QED
    BY <2>1, WritesRInv DEF RInv, Stores
<1>3. CASE \E c \in AllChunks, v \in Versions, m \in Models : OtherUpserts(c, v, m)
  <2>1. PICK c \in AllChunks, v \in Versions, m \in Models : OtherUpserts(c, v, m)
    BY <1>3
  <2> DEFINE rows == {row \in table : row.chunk # c} \cup {Row(c, v, m)}
  <2>2. Writes(rows)
    BY <2>1 DEF OtherUpserts
  <2>3. Row(c, v, m) \in Rows /\ Row(c, v, m).chunk = c
    BY DEF Row, Rows
  <2>4. rows \subseteq Rows /\ \A r1, r2 \in rows : r1.chunk = r2.chunk => r1 = r2
    BY <2>3 DEF RInv, Stores
  <2> HIDE DEF rows
  <2>5. QED
    BY <2>2, <2>4, WritesRInv
<1>4. CASE UNCHANGED vars
  BY <1>4 DEF vars, RInv, Stores
<1>5. QED
  BY <1>1, <1>2, <1>3, <1>4 DEF Next

\* TypeOK: the rows of the stores, the steps of each search, and what its lists are
\* made of, after any number of writes (retrieval.py:53-87, pgvector_store.py:92-145).
THEOREM Typed == Spec => []TypeOK
<1>1. ASSUME RInv PROVE TypeOK
  <2>1. ASSUME NEW s \in Searches
        PROVE  /\ search[s].pc \in {"idle", "embedding", "guarding", "selecting", "done", "failed"}
               /\ search[s].question \in Questions \cup {NoQuestion}
               /\ ~Done(s) => search[s].found = Nothing
               /\ Sized(search[s].question, search[s].found)
    <3>1. Answered(search[s]) /\ IsSearch(search[s])
      BY <1>1 DEF RInv, IInv, Shape
    <3>2. /\ search[s].question \in Questions \cup {NoQuestion}
          /\ ~Done(s) => search[s].found = Nothing
          /\ Done(s) => Sized(search[s].question, search[s].found)
      BY <3>1 DEF Answered, Right, Done
    <3>3. QED
      BY <3>1, <3>2, NothingSized DEF IsSearch
  <2>2. QED
    BY <1>1, <2>1 DEF TypeOK, Sized, RInv, Stores
<1>2. QED
  BY InitRInv, NextRInv, <1>1, PTL DEF Spec

\* ContextIsCited: for any budget, frame and corpus the context has the results in
\* their order, each text once, a citation for each block, and exceeds the budget only
\* by what is lost in rounding (context_assembly.py:22-53).
THEOREM Cites == Spec => []ContextIsCited
<1>1. ASSUME RInv PROVE ContextIsCited
  <2>1. \A s \in Searches : Done(s) => Cited(search[s].found.result, search[s].found.context)
    BY <1>1 DEF RInv, Answered, Right, Done
  <2>2. QED
    BY <2>1, Zenon DEF ContextIsCited, Cited
<1>2. QED
  BY InitRInv, NextRInv, <1>1, PTL DEF Spec

\* ResultFollowsRanks: for any fusion constant, cuts and weight of diversity, a chunk
\* that neither search ranks below another one is fused above it, the best reranked
\* candidate comes first, and only topK and the rerank cut leave anything out
\* (fusion.py:36-49, 68-95, retrieval.py:64-81).
THEOREM Follows == Spec => []ResultFollowsRanks
<1>1. ASSUME RInv PROVE ResultFollowsRanks
  <2>1. \A s \in Searches : Done(s) => FollowsRanks(search[s].question, search[s].found)
    BY <1>1 DEF RInv, Answered, Right, Done
  <2>2. QED
    BY <2>1, Zenon DEF ResultFollowsRanks, FollowsRanks
<1>2. QED
  BY InitRInv, NextRInv, <1>1, PTL DEF Spec

=============================================================================
