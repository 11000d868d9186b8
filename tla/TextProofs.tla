----------------------------- MODULE TextProofs -----------------------------
(***************************************************************************)
(* Proofs about Text, for any characters, vocabulary, prompts, samples and *)
(* keys: the hand-written matcher takes what the pattern takes, the answer *)
(* is the characters in the sampled bytes, wrapping keeps all that can be  *)
(* seen of it, and the screen is steady while it streams in and after it.  *)
(*                                                                         *)
(* Recursive functions are unfolded into their steps first                 *)
(* (FlattenUnfolds, FlushUnfolds, SplitUnfolds, AddWordsUnfolds);          *)
(* induction over the steps is the lemma Induction, and over a text        *)
(* Appending or Prepending.                                                *)
(***************************************************************************)
EXTENDS Text, SequenceTheorems, WellFoundedInduction, TLAPS
-----------------------------------------------------------------------------
(* Greatest and least *)

\* A nonempty set of naturals has a least element.
LEMMA Least ==
    ASSUME NEW T \in SUBSET Nat, T # {}
    PROVE  \E x \in T : \A y \in T : x <= y
<1> DEFINE R == {ss \in Nat \X Nat : ss[1] < ss[2]}
<1>1. IsWellFoundedOn(R, Nat)
  BY NatLessThanWellFounded DEF OpToRel
<1>2. PICK x \in T : \A y \in T : ~(<<y, x>> \in R)
  BY <1>1, WFMin, Zenon
<1>3. ASSUME NEW y \in T PROVE x <= y
  <2>1. ~(<<y, x>> \in R) /\ x \in Nat /\ y \in Nat
    BY <1>2
  <2> QED
    BY <2>1
<1> QED
  BY <1>3

\* Induction over the naturals, on a set instead of a predicate.
LEMMA Induction ==
    ASSUME NEW S, 0 \in S, \A n \in Nat : n \in S => n + 1 \in S
    PROVE  Nat \subseteq S
<1> SUFFICES ASSUME Nat \ S # {} PROVE FALSE
  OBVIOUS
<1>1. PICK m \in Nat \ S : \A y \in Nat \ S : m <= y
  BY Least
<1>2. m - 1 \in Nat /\ m - 1 \notin Nat \ S
  BY <1>1
<1> QED
  BY <1>1, <1>2

\* Min of a set of naturals.
LEMMA MinOf ==
    ASSUME NEW T \in SUBSET Nat, T # {}
    PROVE  Min(T) \in T /\ \A y \in T : Min(T) <= y
BY Least DEF Min

\* Max of a set of naturals with a bound.
LEMMA MaxOf ==
    ASSUME NEW n \in Nat, NEW T \in SUBSET (0..n), T # {}
    PROVE  Max(T) \in T /\ \A y \in T : y <= Max(T)
<1> DEFINE U == {i \in Nat : n - i \in T}
<1>1. U # {}
  <2>1. PICK t \in T : TRUE
    OBVIOUS
  <2>2. n - t \in U
    BY <2>1
  <2> QED
    BY <2>2
<1>2. PICK u \in U : \A i \in U : u <= i
  BY <1>1, Least
<1>3. n - u \in T /\ \A y \in T : y <= n - u
  <2>1. \A y \in T : n - y \in U /\ y \in Nat
    OBVIOUS
  <2> QED
    BY <1>2, <2>1
<1> QED
  BY <1>3 DEF Max

\* What is in a set and not below any other is its Max.
LEMMA MaxIs ==
    ASSUME NEW T \in SUBSET Int, NEW x \in T, \A y \in T : y <= x
    PROVE  Max(T) = x
<1>1. Max(T) \in T /\ \A y \in T : y <= Max(T)
  BY DEF Max
<1>2. PICK m \in Int : m = Max(T)
  BY <1>1
<1> QED
  BY <1>1, <1>2

\* As MaxIs, for the least.
LEMMA MinIs ==
    ASSUME NEW T \in SUBSET Int, NEW x \in T, \A y \in T : x <= y
    PROVE  Min(T) = x
<1>1. Min(T) \in T /\ \A y \in T : Min(T) <= y
  BY DEF Min
<1>2. PICK m \in Int : m = Min(T)
  BY <1>1
<1> QED
  BY <1>1, <1>2

-----------------------------------------------------------------------------
(* The pre-tokenizer *)

\* The run of characters in S after position from ends at r.
Run(s, from, S, r) ==
    /\ r \in from..Len(s)
    /\ \A i \in from + 1..r : s[i] \in S
    /\ r < Len(s) => s[r + 1] \notin S

\* What RunEnd returns.
LEMMA RunEnds ==
    ASSUME NEW s, Len(s) \in Nat, NEW from \in 0..Len(s), NEW S
    PROVE  Run(s, from, S, RunEnd(s, from, S))
<1> DEFINE T == {n \in from..Len(s) : \A i \in from + 1..n : s[i] \in S}
<1>1. from \in T
  OBVIOUS
<1>2. T \in SUBSET (0..Len(s))
  OBVIOUS
<1>3. PICK r : r = Max(T)
  OBVIOUS
<1>4. r \in T /\ \A y \in T : y <= r
  <2> HIDE DEF T
  <2> QED
    BY <1>1, <1>2, <1>3, MaxOf
<1>5. r < Len(s) => s[r + 1] \notin S
  <2> SUFFICES ASSUME r < Len(s), s[r + 1] \in S PROVE FALSE
    OBVIOUS
  <2>1. r + 1 \in T
    BY <1>4
  <2> QED
    BY <1>4, <2>1
<1>6. RunEnd(s, from, S) = r
  BY <1>3 DEF RunEnd
<1> QED
  BY <1>4, <1>5, <1>6 DEF Run

\* The same for characters outside S.
LEMMA RunOutsideEnds ==
    ASSUME NEW s, Len(s) \in Nat, NEW from \in 0..Len(s), NEW S, NEW r, r = RunOutside(s, from, S)
    PROVE  /\ r \in from..Len(s)
           /\ \A i \in from + 1..r : s[i] \notin S
           /\ r < Len(s) => s[r + 1] \in S
<1> DEFINE T == {n \in from..Len(s) : \A i \in from + 1..n : s[i] \notin S}
<1>1. from \in T
  OBVIOUS
<1>2. T \in SUBSET (0..Len(s))
  OBVIOUS
<1>3. r = Max(T)
  BY DEF RunOutside
<1>4. r \in T /\ \A y \in T : y <= r
  <2> HIDE DEF T
  <2> QED
    BY <1>1, <1>2, <1>3, MaxOf
<1>5. r < Len(s) => s[r + 1] \in S
  <2> SUFFICES ASSUME r < Len(s), s[r + 1] \notin S PROVE FALSE
    OBVIOUS
  <2>1. r + 1 \in T
    BY <1>4
  <2> QED
    BY <1>4, <2>1
<1> QED
  BY <1>4, <1>5

\* The lengths at which alternative k of the pattern matches.
Lengths(s, k) == {n \in 1..Len(s) : Matches(k, s, n)}

\* m is the longest match of alternative k, or 0 if there is none.
Longest(s, k, m) ==
    IF m = 0 THEN Lengths(s, k) = {}
    ELSE m \in Lengths(s, k) /\ \A n \in Lengths(s, k) : n <= m

\* The alternatives of the pattern one by one.
LEMMA Alternatives ==
    ASSUME NEW s, NEW n
    PROVE  /\ Matches(1, s, n) <=> (SubSeq(s, 1, n) \in Contracted)
           /\ Matches(2, s, n) = \E p \in {0, 1} : /\ n > p /\ \A i \in p + 1..n : s[i] \in Letters
                                                   /\ p = 1 => s[1] \notin Newlines \cup Letters \cup Numbers
           /\ Matches(3, s, n) <=> (n <= MaxDigits /\ \A i \in 1..n : s[i] \in Numbers)
           /\ Matches(4, s, n) <=> \E p \in {0, 1}, m \in 1..n :
                                     /\ m > p /\ (p = 1 => s[1] = Space)
                                     /\ \A i \in p + 1..m : s[i] \notin Blanks \cup Letters \cup Numbers
                                     /\ \A i \in m + 1..n : s[i] \in Newlines
           /\ Matches(5, s, n) <=> \E m \in 0..n - 1 : /\ \A i \in 1..m : s[i] \in Blanks
                                                     /\ \A i \in m + 1..n : s[i] \in Newlines
           /\ Matches(6, s, n) <=> ((\A i \in 1..n : s[i] \in Blanks) /\ (n = Len(s) \/ s[n + 1] \in Blanks))
           /\ Matches(7, s, n) <=> \A i \in 1..n : s[i] \in Blanks
<1>1. Matches(1, s, n) <=> (SubSeq(s, 1, n) \in Contracted)
  BY DEF Matches
<1>2. Matches(2, s, n) = \E p \in {0, 1} : /\ n > p /\ \A i \in p + 1..n : s[i] \in Letters
                                           /\ p = 1 => s[1] \notin Newlines \cup Letters \cup Numbers
  BY DEF Matches
<1>3. Matches(3, s, n) <=> (n <= MaxDigits /\ \A i \in 1..n : s[i] \in Numbers)
  BY DEF Matches
<1>4. Matches(4, s, n) <=> \E p \in {0, 1}, m \in 1..n :
                             /\ m > p /\ (p = 1 => s[1] = Space)
                             /\ \A i \in p + 1..m : s[i] \notin Blanks \cup Letters \cup Numbers
                             /\ \A i \in m + 1..n : s[i] \in Newlines
  BY DEF Matches
<1>5. Matches(5, s, n) <=> \E m \in 0..n - 1 : /\ \A i \in 1..m : s[i] \in Blanks
                                             /\ \A i \in m + 1..n : s[i] \in Newlines
  BY DEF Matches
<1>6. Matches(6, s, n) <=> ((\A i \in 1..n : s[i] \in Blanks) /\ (n = Len(s) \/ s[n + 1] \in Blanks))
  BY DEF Matches
<1>7. Matches(7, s, n) <=> \A i \in 1..n : s[i] \in Blanks
  BY DEF Matches
<1> QED
  BY <1>1, <1>2, <1>3, <1>4, <1>5, <1>6, <1>7

\* Alternative 1: no contraction is the beginning of another.
LEMMA ContractionLongest ==
    ASSUME NEW C, NEW s \in Seq(C), s # <<>>, Contractions \subseteq Seq(C), Quote \in C
    PROVE  Contraction(s) \in Nat /\ Longest(s, 1, Contraction(s))
<1> DEFINE tails == {t \in Contractions : IsPrefix(<<Quote>> \o t, s)}
<1>1. ASSUME NEW t \in Contractions
      PROVE  /\ t \in Seq(C) /\ Len(t) >= 1 /\ <<Quote>> \o t \in Seq(C) /\ Len(<<Quote>> \o t) = 1 + Len(t)
             /\ \A i \in 1..Len(t) : (<<Quote>> \o t)[i + 1] = t[i]
  BY TokenizerAssumption
<1>2. ASSUME NEW t \in Contractions, NEW n \in 1..Len(s), SubSeq(s, 1, n) = <<Quote>> \o t
      PROVE  t \in tails /\ n = 1 + Len(t)
  <2>1. Len(SubSeq(s, 1, n)) = n
    OBVIOUS
  <2>2. n = 1 + Len(t)
    BY <1>1, <1>2, <2>1
  <2>3. IsPrefix(<<Quote>> \o t, s)
    <3>1. SubSeq(<<Quote>> \o t, 1, n) = <<Quote>> \o t
      BY <1>1, <2>2
    <3> QED
      BY <1>1, <1>2, <2>2, <3>1 DEF IsPrefix
  <2> QED
    BY <2>2, <2>3
<1>3. ASSUME NEW t \in tails
      PROVE  1 + Len(t) \in 1..Len(s) /\ SubSeq(s, 1, 1 + Len(t)) = <<Quote>> \o t
  <2>1. Len(<<Quote>> \o t) = 1 + Len(t) /\ <<Quote>> \o t \in Seq(C) /\ Len(t) >= 1
    BY <1>1
  <2>2. 1 + Len(t) <= Len(s) /\ SubSeq(<<Quote>> \o t, 1, 1 + Len(t)) = SubSeq(s, 1, 1 + Len(t))
    BY <2>1 DEF IsPrefix
  <2>3. SubSeq(<<Quote>> \o t, 1, 1 + Len(t)) = <<Quote>> \o t
    BY <2>1
  <2> QED
    BY <2>1, <2>2, <2>3
<1>4. ASSUME NEW t \in tails, NEW u \in tails, Len(t) <= Len(u) PROVE t = u
  <2>1. t \in Seq(C) /\ u \in Seq(C)
    OBVIOUS
  <2>2. ASSUME NEW i \in 1..Len(t) PROVE t[i] = u[i]
    <3>1. t[i] = s[i + 1]
      <4>1. SubSeq(s, 1, 1 + Len(t))[i + 1] = s[i + 1]
        BY <1>3, <2>1
      <4> QED
        BY <1>1, <1>3, <4>1
    <3>2. u[i] = s[i + 1]
      <4>1. SubSeq(s, 1, 1 + Len(u))[i + 1] = s[i + 1]
        BY <1>3, <1>4, <2>1
      <4> QED
        BY <1>1, <1>3, <1>4, <4>1
    <3> QED
      BY <3>1, <3>2
  <2>3. SubSeq(t, 1, Len(t)) = SubSeq(u, 1, Len(t))
    BY <1>4, <2>1, <2>2
  <2>4. IsPrefix(t, u)
    BY <1>4, <2>3 DEF IsPrefix
  <2> QED
    BY <2>4, TokenizerAssumption
<1>5. Lengths(s, 1) = {1 + Len(t) : t \in tails}
  <2>1. ASSUME NEW n \in 1..Len(s)
        PROVE  Matches(1, s, n) <=> \E t \in Contractions : SubSeq(s, 1, n) = <<Quote>> \o t
    <3>1. Matches(1, s, n) <=> (SubSeq(s, 1, n) \in Contracted)
      BY Alternatives
    <3>2. SubSeq(s, 1, n) \in Contracted <=> \E t \in Contractions : SubSeq(s, 1, n) = <<Quote>> \o t
      BY DEF Contracted
    <3> QED
      BY <3>1, <3>2
  <2>2. \A n \in Lengths(s, 1) : \E t \in tails : n = 1 + Len(t)
    BY <1>2, <2>1 DEF Lengths
  <2>3. \A t \in tails : 1 + Len(t) \in Lengths(s, 1)
    BY <1>3, <2>1 DEF Lengths
  <2> QED
    BY <2>2, <2>3
<1>6. CASE tails = {}
  BY <1>5, <1>6 DEF Contraction, Longest
<1>7. CASE tails # {}
  <2>1. PICK u : u = CHOOSE t \in tails : TRUE
    OBVIOUS
  <2>2. u \in tails /\ Contraction(s) = 1 + Len(u)
    BY <1>7, <2>1 DEF Contraction
  <2>3. \A t \in tails : t = u
    BY <1>1, <1>4, <2>2
  <2> QED
    BY <1>1, <1>5, <2>2, <2>3 DEF Longest
<1> QED
  BY <1>6, <1>7

\* Alternative 2: a run of letters, after at most one other character.
LEMMA WordLongest ==
    ASSUME NEW s, Len(s) \in Nat \ {0}
    PROVE  Word(s) \in Nat /\ Longest(s, 2, Word(s))
<1> DEFINE M(n) == \E p \in {0, 1} : /\ n > p /\ \A i \in p + 1..n : s[i] \in Letters
                                     /\ p = 1 => s[1] \notin Newlines \cup Letters \cup Numbers
<1>1. \A n \in 1..Len(s) : n \in Lengths(s, 2) <=> M(n)
  BY Alternatives DEF Lengths
<1>2. CASE s[1] \in Letters
  <2>1. PICK r : r = RunEnd(s, 0, Letters) /\ Word(s) = r
    BY <1>2 DEF Word
  <2>2. Run(s, 0, Letters, r)
    BY <2>1, RunEnds
  <2>3. r \in 0..Len(s) /\ (\A i \in 1..r : s[i] \in Letters) /\ (r < Len(s) => s[r + 1] \notin Letters)
    BY <2>2 DEF Run
  <2>4. r >= 1
    BY <1>2, <2>3
  <2>5. M(r)
    BY <2>3, <2>4
  <2>6. ASSUME NEW n \in 1..Len(s), M(n) PROVE n <= r
    <3>1. \A i \in 1..n : s[i] \in Letters
      BY <1>2, <2>6
    <3> QED
      BY <2>3, <3>1
  <2>7. r \in Lengths(s, 2) /\ \A n \in Lengths(s, 2) : n <= r
    BY <1>1, <2>3, <2>4, <2>5, <2>6 DEF Lengths
  <2> QED
    BY <2>1, <2>3, <2>4, <2>7 DEF Longest
<1>3. CASE s[1] \notin Letters /\ s[1] \notin Newlines \cup Numbers /\ Len(s) > 1 /\ s[2] \in Letters
  <2>1. PICK r : r = RunEnd(s, 1, Letters) /\ Word(s) = r
    BY <1>3 DEF Word
  <2>2. Run(s, 1, Letters, r)
    BY <2>1, RunEnds
  <2>3. r \in 1..Len(s) /\ (\A i \in 2..r : s[i] \in Letters) /\ (r < Len(s) => s[r + 1] \notin Letters)
    BY <2>2 DEF Run
  <2>4. r >= 2
    BY <1>3, <2>3
  <2>5. M(r)
    BY <1>3, <2>3, <2>4
  <2>6. ASSUME NEW n \in 1..Len(s), M(n) PROVE n <= r
    <3>1. \A i \in 2..n : s[i] \in Letters
      BY <1>3, <2>6
    <3> QED
      BY <2>3, <3>1
  <2>7. r \in Lengths(s, 2) /\ \A n \in Lengths(s, 2) : n <= r
    BY <1>1, <2>3, <2>4, <2>5, <2>6 DEF Lengths
  <2> QED
    BY <2>1, <2>3, <2>4, <2>7 DEF Longest
<1>4. CASE s[1] \notin Letters /\ ~(s[1] \notin Newlines \cup Numbers /\ Len(s) > 1 /\ s[2] \in Letters)
  <2>1. ASSUME NEW n \in 1..Len(s), M(n) PROVE FALSE
    <3>1. PICK p \in {0, 1} : /\ n > p /\ \A i \in p + 1..n : s[i] \in Letters
                              /\ p = 1 => s[1] \notin Newlines \cup Letters \cup Numbers
      BY <2>1
    <3>2. CASE p = 0
      BY <1>4, <3>1, <3>2
    <3>3. CASE p = 1
      BY <1>4, <3>1, <3>3
    <3> QED
      BY <3>2, <3>3
  <2>2. Lengths(s, 2) = {}
    BY <1>1, <2>1 DEF Lengths
  <2>3. Word(s) = 0
    BY <1>4 DEF Word
  <2> QED
    BY <2>2, <2>3 DEF Longest
<1> QED
  BY <1>2, <1>3, <1>4

\* Alternative 3: at most MaxDigits numbers.
LEMMA NumberLongest ==
    ASSUME NEW s, Len(s) \in Nat \ {0}
    PROVE  Number(s) \in Nat /\ Longest(s, 3, Number(s))
<1>1. PICK r : r = RunEnd(s, 0, Numbers)
  OBVIOUS
<1>2. Run(s, 0, Numbers, r)
  BY <1>1, RunEnds
<1>3. r \in 0..Len(s) /\ (\A i \in 1..r : s[i] \in Numbers) /\ (r < Len(s) => s[r + 1] \notin Numbers)
  BY <1>2 DEF Run
<1>4. MaxDigits \in Nat \ {0}
  BY TokenizerAssumption
<1>5. PICK m : m = Number(s)
  OBVIOUS
<1>6. m \in {MaxDigits, r} /\ m <= MaxDigits /\ m <= r
  <2>1. m = Min({MaxDigits, r})
    BY <1>1, <1>5 DEF Number
  <2>2. {MaxDigits, r} \in SUBSET Nat /\ {MaxDigits, r} # {}
    BY <1>3, <1>4
  <2> QED
    BY <2>1, <2>2, MinOf
<1>7. ASSUME NEW n \in 1..Len(s)
      PROVE  n \in Lengths(s, 3) <=> n <= MaxDigits /\ \A i \in 1..n : s[i] \in Numbers
  BY Alternatives DEF Lengths
<1>8. ASSUME NEW n \in Lengths(s, 3) PROVE n \in 1..Len(s) /\ n <= m
  <2>1. n \in 1..Len(s)
    BY DEF Lengths
  <2>2. n <= MaxDigits /\ \A i \in 1..n : s[i] \in Numbers
    BY <1>7, <2>1
  <2>3. n <= r
    BY <1>3, <2>1, <2>2
  <2> QED
    BY <1>6, <2>1, <2>2, <2>3
<1>9. m > 0 => m \in Lengths(s, 3)
  BY <1>3, <1>4, <1>6, <1>7
<1> QED
  BY <1>3, <1>4, <1>5, <1>6, <1>8, <1>9 DEF Longest

\* Alternative 4: a run of other characters after at most one space, and the
\* newlines that follow it.
LEMMA PunctuationLongest ==
    ASSUME NEW s, Len(s) \in Nat \ {0}
    PROVE  Punctuation(s) \in Nat /\ Longest(s, 4, Punctuation(s))
<1> DEFINE known == Blanks \cup Letters \cup Numbers
           M(n) == \E p \in {0, 1}, m \in 1..n : /\ m > p /\ (p = 1 => s[1] = Space)
                                                 /\ \A i \in p + 1..m : s[i] \notin known
                                                 /\ \A i \in m + 1..n : s[i] \in Newlines
<1>1. \A n \in 1..Len(s) : n \in Lengths(s, 4) <=> M(n)
  BY Alternatives DEF Lengths
<1>2. PICK start \in {0, 1} : start = IF s[1] = Space THEN 1 ELSE 0
  OBVIOUS
<1>3. PICK end : end = RunOutside(s, start, known)
  OBVIOUS
<1>4. /\ end \in start..Len(s) /\ \A i \in start + 1..end : s[i] \notin known
      /\ end < Len(s) => s[end + 1] \in known
  <2>1. start \in 0..Len(s)
    BY <1>2
  <2> HIDE DEF known
  <2> QED
    BY <1>3, <2>1, RunOutsideEnds
<1>5. Punctuation(s) = IF end > start THEN RunEnd(s, end, Newlines) ELSE 0
  BY <1>2, <1>3 DEF Punctuation
<1>6. Space \in known /\ Newlines \subseteq known
  BY TokenizerAssumption
<1>7. ASSUME NEW n \in 1..Len(s), M(n)
      PROVE  end > start /\ \A i \in end + 1..n : s[i] \in Newlines
  <2>1. PICK p \in {0, 1}, m \in 1..n : /\ m > p /\ (p = 1 => s[1] = Space)
                                        /\ \A i \in p + 1..m : s[i] \notin known
                                        /\ \A i \in m + 1..n : s[i] \in Newlines
    BY <1>7
  <2>2. p = start
    <3>1. CASE p = 1
      BY <1>2, <2>1, <3>1
    <3>2. CASE p = 0
      <4>1. s[1] \notin known
        BY <2>1, <3>2
      <4> QED
        BY <1>2, <1>6, <3>2, <4>1
    <3> QED
      BY <3>1, <3>2
  <2>3. ~(end < m)
    <3> SUFFICES ASSUME end < m PROVE FALSE
      OBVIOUS
    <3>1. s[end + 1] \notin known
      BY <1>4, <2>1, <2>2
    <3> QED
      BY <1>4, <3>1
  <2>4. CASE m < end
    <3>1. s[m + 1] \notin known
      BY <1>4, <2>1, <2>2, <2>4
    <3>2. m < n => s[m + 1] \in Newlines
      BY <2>1
    <3>3. m = n
      BY <1>6, <3>1, <3>2
    <3> QED
      BY ONLY <1>4, <1>7, <2>1, <2>2, <2>4, <3>3
  <2>5. CASE end = m
    BY <2>1, <2>2, <2>5
  <2> QED
    BY <1>4, <2>3, <2>4, <2>5
<1>8. CASE end > start
  <2>1. PICK r : r = RunEnd(s, end, Newlines)
    OBVIOUS
  <2>2. Run(s, end, Newlines, r)
    BY <1>4, <2>1, RunEnds
  <2>3. /\ r \in end..Len(s) /\ \A i \in end + 1..r : s[i] \in Newlines
        /\ r < Len(s) => s[r + 1] \notin Newlines
    BY <2>2 DEF Run
  <2>4. r \in 1..Len(s)
    BY <1>4, <1>8, <2>3
  <2>5. M(r)
    <3>1. end \in 1..r /\ end > start /\ (start = 1 => s[1] = Space)
      BY <1>2, <1>4, <1>8, <2>3
    <3> QED
      BY <1>4, <2>3, <3>1
  <2>6. ASSUME NEW n \in 1..Len(s), M(n) PROVE n <= r
    <3>1. \A i \in end + 1..n : s[i] \in Newlines
      BY <1>7, <2>6
    <3>2. ~(r < n)
      BY <1>4, <2>3, <3>1
    <3> QED
      BY <2>3, <3>2
  <2>7. r \in Lengths(s, 4) /\ \A n \in Lengths(s, 4) : n <= r
    <3> HIDE DEF M
    <3> QED
      BY <1>1, <2>4, <2>5, <2>6 DEF Lengths
  <2> QED
    BY <1>5, <1>8, <2>1, <2>4, <2>7 DEF Longest
<1>9. CASE ~(end > start)
  <2>1. Lengths(s, 4) = {}
    <3> HIDE DEF M
    <3> QED
      BY <1>1, <1>7, <1>9 DEF Lengths
  <2> QED
    BY <1>5, <1>9, <2>1 DEF Longest
<1> QED
  BY <1>8, <1>9

\* Alternatives 5 to 7: blanks up to the last newline, or up to the one that
\* stays with the word, or all of them.
LEMMA WhitespaceLongest ==
    ASSUME NEW s, Len(s) \in Nat \ {0}
    PROVE  /\ Whitespace(s) \in Nat
           /\ \/ Longest(s, 5, Whitespace(s))
              \/ Lengths(s, 5) = {} /\ Longest(s, 6, Whitespace(s))
              \/ Lengths(s, 5) = {} /\ Lengths(s, 6) = {} /\ Longest(s, 7, Whitespace(s))
           /\ Whitespace(s) = 0 => \A k \in 5..7 : Lengths(s, k) = {}
<1>1. PICK run : run = RunEnd(s, 0, Blanks)
  OBVIOUS
<1>2. Run(s, 0, Blanks, run)
  BY <1>1, RunEnds
<1>3. run \in 0..Len(s) /\ (\A i \in 1..run : s[i] \in Blanks) /\ (run < Len(s) => s[run + 1] \notin Blanks)
  BY <1>2 DEF Run
<1>4. PICK nls : nls = {i \in 1..run : s[i] \in Newlines}
  OBVIOUS
<1>5. Whitespace(s) = IF nls # {} THEN Max(nls) ELSE IF run < Len(s) /\ run > 1 THEN run - 1 ELSE run
  BY <1>1, <1>4 DEF Whitespace
<1>6. Newlines \subseteq Blanks
  BY TokenizerAssumption
<1>7. ASSUME NEW n \in 1..Len(s), \A i \in 1..n : s[i] \in Blanks PROVE n <= run
  BY <1>3, <1>7
<1>8. ASSUME NEW n PROVE n \in Lengths(s, 5) <=> n \in nls
  <2>1. ASSUME n \in Lengths(s, 5) PROVE n \in nls
    <3>1. n \in 1..Len(s) /\ Matches(5, s, n)
      BY <2>1 DEF Lengths
    <3>2. PICK m \in 0..n - 1 : (\A i \in 1..m : s[i] \in Blanks) /\ \A i \in m + 1..n : s[i] \in Newlines
      BY <3>1, Alternatives
    <3>3. \A i \in 1..n : s[i] \in Blanks
      BY <1>6, <3>1, <3>2
    <3>4. s[n] \in Newlines /\ n <= run
      BY <1>7, <3>1, <3>2, <3>3
    <3> QED
      BY <1>3, <1>4, <3>1, <3>4
  <2>2. ASSUME n \in nls PROVE n \in Lengths(s, 5)
    <3>1. n \in 1..run /\ s[n] \in Newlines /\ n \in 1..Len(s)
      BY <1>3, <1>4, <2>2
    <3>2. PICK m \in 0..n - 1 : m = n - 1
      BY <3>1
    <3>3. (\A i \in 1..m : s[i] \in Blanks) /\ \A i \in m + 1..n : s[i] \in Newlines
      BY <1>3, <3>1, <3>2
    <3>4. Matches(5, s, n)
      <4>1. Matches(5, s, n) <=> \E j \in 0..n - 1 : /\ \A i \in 1..j : s[i] \in Blanks
                                                   /\ \A i \in j + 1..n : s[i] \in Newlines
        BY Alternatives
      <4> QED
        BY <3>3, <4>1
    <3> QED
      BY <3>1, <3>4 DEF Lengths
  <2> QED
    BY <2>1, <2>2
<1>9. ASSUME NEW n PROVE n \in Lengths(s, 7) <=> n \in 1..run
  <2>1. Matches(7, s, n) <=> \A i \in 1..n : s[i] \in Blanks
    BY Alternatives
  <2>2. n \in Lengths(s, 7) <=> n \in 1..Len(s) /\ Matches(7, s, n)
    BY DEF Lengths
  <2>3. n \in 1..run => \A i \in 1..n : s[i] \in Blanks
    BY <1>3
  <2> QED
    BY <1>3, <1>7, <2>1, <2>2, <2>3
<1>10. ASSUME NEW n PROVE n \in Lengths(s, 6) <=> n \in 1..run /\ (n < run \/ run = Len(s))
  <2>1. n \in Lengths(s, 6) <=> n \in Lengths(s, 7) /\ (n = Len(s) \/ s[n + 1] \in Blanks)
    BY Alternatives DEF Lengths
  <2>2. n \in 1..run => (n = Len(s) \/ s[n + 1] \in Blanks <=> n < run \/ run = Len(s))
    BY <1>3
  <2> QED
    BY <1>9, <2>1, <2>2
<1>11. CASE nls # {}
  <2>1. nls \in SUBSET (0..run)
    BY <1>4
  <2>2. Max(nls) \in nls /\ \A n \in nls : n <= Max(nls)
    <3>1. run \in Nat
      BY <1>3
    <3> QED
      BY <1>11, <2>1, <3>1, MaxOf
  <2>3. Max(nls) \in Nat \ {0}
    BY <1>4, <2>2
  <2> QED
    BY <1>5, <1>8, <1>11, <2>2, <2>3 DEF Longest
<1>12. CASE nls = {}
  <2>1. Lengths(s, 5) = {}
    BY <1>8, <1>12
  <2>2. CASE run < Len(s) /\ run > 1
    <3>1. Whitespace(s) = run - 1
      BY <1>5, <1>12, <2>2
    <3>2. run - 1 \in Lengths(s, 6) /\ \A n \in Lengths(s, 6) : n <= run - 1
      BY <1>3, <1>10, <2>2
    <3> QED
      BY <1>3, <2>1, <2>2, <3>1, <3>2 DEF Longest
  <2>3. CASE run = Len(s)
    <3>1. Whitespace(s) = run /\ run # 0
      BY <1>5, <1>12, <2>3
    <3>2. run \in Lengths(s, 6) /\ \A n \in Lengths(s, 6) : n <= run
      BY <1>3, <1>10, <2>3
    <3> QED
      BY <1>3, <2>1, <3>1, <3>2 DEF Longest
  <2>4. CASE run < Len(s) /\ ~(run > 1)
    <3>1. Whitespace(s) = run /\ run \in {0, 1}
      BY <1>3, <1>5, <1>12, <2>4
    <3>2. Lengths(s, 6) = {}
      BY <1>3, <1>10, <2>4
    <3>3. Lengths(s, 7) = 1..run
      BY <1>9
    <3>4. Longest(s, 7, run)
      BY <3>1, <3>3 DEF Longest
    <3> QED
      BY <2>1, <3>1, <3>2, <3>3, <3>4
  <2> QED
    BY <1>3, <2>2, <2>3, <2>4
<1> QED
  BY <1>11, <1>12

\* Every character is in some alternative.
LEMMA SomeAlternative ==
    ASSUME NEW s, Len(s) \in Nat \ {0}, \A k \in 1..6 : Lengths(s, k) = {}
    PROVE  1 \in Lengths(s, 7)
<1>1. 1 \in 1..Len(s)
  OBVIOUS
<1>2. s[1] \notin Letters
  <2> SUFFICES ASSUME s[1] \in Letters PROVE FALSE
    OBVIOUS
  <2>1. PICK p \in {0, 1} : p = 0
    OBVIOUS
  <2>2. /\ 1 > p /\ \A i \in p + 1..1 : s[i] \in Letters
        /\ p = 1 => s[1] \notin Newlines \cup Letters \cup Numbers
    BY <2>1
  <2>3. \E q \in {0, 1} : /\ 1 > q /\ \A i \in q + 1..1 : s[i] \in Letters
                          /\ q = 1 => s[1] \notin Newlines \cup Letters \cup Numbers
    BY <2>2
  <2>4. Matches(2, s, 1) = \E q \in {0, 1} : /\ 1 > q /\ \A i \in q + 1..1 : s[i] \in Letters
                                             /\ q = 1 => s[1] \notin Newlines \cup Letters \cup Numbers
    BY Alternatives
  <2>5. Matches(2, s, 1)
    BY ONLY <2>3, <2>4
  <2> QED
    BY <1>1, <2>5 DEF Lengths
<1>3. s[1] \notin Numbers
  <2> SUFFICES ASSUME s[1] \in Numbers PROVE FALSE
    OBVIOUS
  <2>1. Matches(3, s, 1)
    <3>1. Matches(3, s, 1) <=> (1 <= MaxDigits /\ \A i \in 1..1 : s[i] \in Numbers)
      BY Alternatives
    <3>2. 1 <= MaxDigits
      BY TokenizerAssumption
    <3> QED
      BY <3>1, <3>2
  <2> QED
    BY <1>1, <2>1 DEF Lengths
<1>4. s[1] \in Blanks
  <2> SUFFICES ASSUME s[1] \notin Blanks PROVE FALSE
    OBVIOUS
  <2>1. PICK p \in {0, 1}, m \in 1..1 : p = 0 /\ m = 1
    OBVIOUS
  <2>2. /\ m > p /\ (p = 1 => s[1] = Space)
        /\ \A i \in p + 1..m : s[i] \notin Blanks \cup Letters \cup Numbers
        /\ \A i \in m + 1..1 : s[i] \in Newlines
    BY <1>2, <1>3, <2>1
  <2>3. \E q \in {0, 1}, r \in 1..1 :
            /\ r > q /\ (q = 1 => s[1] = Space)
            /\ \A i \in q + 1..r : s[i] \notin Blanks \cup Letters \cup Numbers
            /\ \A i \in r + 1..1 : s[i] \in Newlines
    BY <2>2
  <2>4. Matches(4, s, 1) <=> \E q \in {0, 1}, r \in 1..1 :
            /\ r > q /\ (q = 1 => s[1] = Space)
            /\ \A i \in q + 1..r : s[i] \notin Blanks \cup Letters \cup Numbers
            /\ \A i \in r + 1..1 : s[i] \in Newlines
    BY Alternatives
  <2>5. Matches(4, s, 1)
    BY ONLY <2>3, <2>4
  <2> QED
    BY <1>1, <2>5 DEF Lengths
<1>5. Matches(7, s, 1)
  <2>1. Matches(7, s, 1) <=> \A i \in 1..1 : s[i] \in Blanks
    BY Alternatives
  <2> QED
    BY <1>4, <2>1
<1> QED
  BY <1>1, <1>5 DEF Lengths

\* If alternative k is the first that matches, its longest match is the
\* length of the pattern.
LEMMA FirstAlternative ==
    ASSUME NEW s, NEW k \in 1..7, NEW m, Len(s) \in Nat, m \in Lengths(s, k),
           \A n \in Lengths(s, k) : n <= m, \A j \in 1..k - 1 : Lengths(s, j) = {}
    PROVE  PatternLength(s) = m
<1> DEFINE K == {j \in 1..7 : Lengths(s, j) # {}}
<1>1. K \in SUBSET Int /\ k \in K /\ \A j \in K : k <= j
  OBVIOUS
<1>2. Min(K) = k
  <2> HIDE DEF K
  <2> QED
    BY <1>1, MinIs
<1>3. Lengths(s, k) \in SUBSET Int
  BY DEF Lengths
<1>4. Max(Lengths(s, k)) = m
  BY <1>3, MaxIs
<1>5. PatternLength(s) = Max(Lengths(s, Min(K)))
  BY DEF PatternLength, Lengths
<1> QED
  BY <1>2, <1>4, <1>5

\* The same for the hand-written matcher.
LEMMA FirstMatch ==
    ASSUME NEW a, DOMAIN a = 1..6, NEW k \in 1..6, a[k] > 0, \A j \in 1..k - 1 : ~(a[j] > 0)
    PROVE  Min({i \in DOMAIN a : a[i] > 0}) = k
<1>1. {i \in DOMAIN a : a[i] > 0} \in SUBSET Int
  OBVIOUS
<1>2. k \in {i \in DOMAIN a : a[i] > 0} /\ \A j \in {i \in DOMAIN a : a[i] > 0} : k <= j
  OBVIOUS
<1> QED
  BY <1>1, <1>2, MinIs

\* The hand-written matcher takes what the pattern takes, for every text.
LEMMA MatcherMatches ==
    ASSUME NEW C, NEW s \in Seq(C), s # <<>>, Contractions \subseteq Seq(C), Quote \in C
    PROVE  MatchOne(s) = PatternLength(s) /\ MatchOne(s) \in 1..Len(s)
<1>1. Len(s) \in Nat \ {0}
  OBVIOUS
<1>2. PICK c, w, d, p, b : c = Contraction(s) /\ w = Word(s) /\ d = Number(s)
                           /\ p = Punctuation(s) /\ b = Whitespace(s)
  OBVIOUS
<1>3. /\ c \in Nat /\ Longest(s, 1, c) /\ w \in Nat /\ Longest(s, 2, w)
      /\ d \in Nat /\ Longest(s, 3, d) /\ p \in Nat /\ Longest(s, 4, p)
  BY <1>1, <1>2, ContractionLongest, WordLongest, NumberLongest, PunctuationLongest
<1>4. PICK a : a = <<c, w, d, p, b, 1>>
  OBVIOUS
<1>5. /\ DOMAIN a = 1..6 /\ a[1] = c /\ a[2] = w /\ a[3] = d /\ a[4] = p /\ a[5] = b /\ a[6] = 1
      /\ MatchOne(s) = a[Min({i \in DOMAIN a : a[i] > 0})]
  BY <1>2, <1>4 DEF MatchOne
<1>6. ASSUME NEW k \in 1..7, NEW m, m \in Lengths(s, k) PROVE m \in 1..Len(s)
  BY <1>6 DEF Lengths
<1>7. ASSUME NEW k \in 1..4, a[k] > 0, \A j \in 1..k - 1 : a[j] = 0
      PROVE  MatchOne(s) = PatternLength(s) /\ MatchOne(s) \in 1..Len(s)
  <2>1. MatchOne(s) = a[k]
    BY <1>5, <1>7, FirstMatch
  <2>2. \A j \in 1..4 : Longest(s, j, a[j])
    BY <1>3, <1>5
  <2>3. a[k] \in Lengths(s, k) /\ \A n \in Lengths(s, k) : n <= a[k]
    BY <1>7, <2>2 DEF Longest
  <2>4. \A j \in 1..k - 1 : Lengths(s, j) = {}
    BY <1>7, <2>2 DEF Longest
  <2>5. PatternLength(s) = a[k]
    BY <1>1, <2>3, <2>4, FirstAlternative
  <2> QED
    BY <1>6, <2>1, <2>3, <2>5
<1>8. CASE \A j \in 1..4 : a[j] = 0
  <2>1. \A j \in 1..4 : Lengths(s, j) = {}
    BY <1>3, <1>5, <1>8 DEF Longest
  <2>2. /\ b \in Nat
        /\ \/ Longest(s, 5, b)
           \/ Lengths(s, 5) = {} /\ Longest(s, 6, b)
           \/ Lengths(s, 5) = {} /\ Lengths(s, 6) = {} /\ Longest(s, 7, b)
        /\ b = 0 => \A k \in 5..7 : Lengths(s, k) = {}
    BY <1>1, <1>2, WhitespaceLongest
  <2>3. b # 0
    <3> SUFFICES ASSUME b = 0 PROVE FALSE
      OBVIOUS
    <3>1. \A k \in 1..7 : Lengths(s, k) = {}
      BY <2>1, <2>2
    <3> QED
      BY <1>1, <3>1, SomeAlternative
  <2>4. MatchOne(s) = b
    <3>1. a[5] > 0 /\ \A j \in 1..5 - 1 : ~(a[j] > 0)
      BY <1>5, <1>8, <2>2, <2>3
    <3> QED
      BY <1>5, <3>1, FirstMatch
  <2>5. PICK k \in 5..7 : Longest(s, k, b) /\ \A j \in 5..k - 1 : Lengths(s, j) = {}
    <3>1. CASE Longest(s, 5, b)
      <4>1. 5 \in 5..7 /\ \A j \in 5..5 - 1 : Lengths(s, j) = {}
        OBVIOUS
      <4> QED
        BY <3>1, <4>1
    <3>2. CASE Lengths(s, 5) = {} /\ Longest(s, 6, b)
      <4>1. 6 \in 5..7 /\ \A j \in 5..6 - 1 : Lengths(s, j) = {}
        BY <3>2
      <4> QED
        BY <3>2, <4>1
    <3>3. CASE Lengths(s, 5) = {} /\ Lengths(s, 6) = {} /\ Longest(s, 7, b)
      <4>1. 7 \in 5..7 /\ \A j \in 5..7 - 1 : Lengths(s, j) = {}
        BY <3>3
      <4> QED
        BY <3>3, <4>1
    <3> QED
      BY <2>2, <3>1, <3>2, <3>3
  <2>6. b \in Lengths(s, k) /\ \A n \in Lengths(s, k) : n <= b
    BY <2>3, <2>5 DEF Longest
  <2>7. \A j \in 1..k - 1 : Lengths(s, j) = {}
    BY <2>1, <2>5
  <2>8. PatternLength(s) = b
    <3>1. k \in 1..7
      BY <2>5
    <3> QED
      BY <1>1, <2>6, <2>7, <3>1, FirstAlternative
  <2> QED
    BY <1>6, <2>4, <2>5, <2>6, <2>8
<1>9. CASE ~\A j \in 1..4 : a[j] = 0
  <2> DEFINE T == {j \in 1..4 : a[j] # 0}
  <2>1. T \in SUBSET Nat /\ T # {}
    BY <1>9
  <2>2. PICK k \in T : \A j \in T : k <= j
    <3> HIDE DEF T
    <3> QED
      BY <2>1, Least
  <2>3. k \in 1..4 /\ a[k] > 0
    BY <1>3, <1>5, <2>2
  <2>4. \A j \in 1..k - 1 : a[j] = 0
    BY <2>2
  <2> QED
    BY <1>7, <2>3, <2>4
<1> QED
  BY <1>8, <1>9

-----------------------------------------------------------------------------
(* Sequences *)

\* Induction over sequences, by appending, on a set instead of a predicate.
LEMMA Appending ==
    ASSUME NEW S, NEW T, <<>> \in T, \A s \in Seq(S), e \in S : s \in T => Append(s, e) \in T
    PROVE  Seq(S) \subseteq T
<1> DEFINE N == {n \in Nat : \A s \in Seq(S) : Len(s) = n => s \in T}
<1>1. 0 \in N
  <2>1. \A s \in Seq(S) : Len(s) = 0 => s = <<>>
    OBVIOUS
  <2> QED
    BY <2>1
<1>2. ASSUME NEW n \in Nat, n \in N PROVE n + 1 \in N
  <2> SUFFICES ASSUME NEW s \in Seq(S), Len(s) = n + 1 PROVE s \in T
    OBVIOUS
  <2>1. s # <<>>
    OBVIOUS
  <2>2. PICK r \in Seq(S), e \in S : s = Append(r, e)
    BY <2>1, SequenceEmptyOrAppend
  <2>3. Len(r) = n
    BY <2>2
  <2> QED
    BY <1>2, <2>2, <2>3
<1>3. Nat \subseteq N
  <2> HIDE DEF N
  <2> QED
    BY <1>1, <1>2, Induction
<1> QED
  BY <1>3

\* A sequence that is not empty is its first element and the rest.
LEMMA HeadFirst ==
    ASSUME NEW S, NEW s \in Seq(S), s # <<>>
    PROVE  \E e \in S, r \in Seq(S) : s = <<e>> \o r /\ Len(s) = 1 + Len(r) /\ e = s[1] /\ r = Tail(s)
<1>1. s[1] \in S /\ Tail(s) \in Seq(S) /\ Len(s) = 1 + Len(Tail(s))
  OBVIOUS
<1>2. s = <<s[1]>> \o Tail(s)
  <2>1. \A i \in 1..Len(s) : s[i] = (<<s[1]>> \o Tail(s))[i]
    BY <1>1
  <2>2. <<s[1]>> \o Tail(s) \in Seq(S) /\ Len(<<s[1]>> \o Tail(s)) = Len(s)
    BY <1>1
  <2> QED
    BY <2>1, <2>2, SeqEqual
<1> QED
  BY <1>1, <1>2

\* Induction over sequences, by putting an element before them.
LEMMA Prepending ==
    ASSUME NEW S, NEW T, <<>> \in T, \A s \in Seq(S), e \in S : s \in T => <<e>> \o s \in T
    PROVE  Seq(S) \subseteq T
<1> DEFINE N == {n \in Nat : \A s \in Seq(S) : Len(s) = n => s \in T}
<1>1. 0 \in N
  <2>1. \A s \in Seq(S) : Len(s) = 0 => s = <<>>
    OBVIOUS
  <2> QED
    BY <2>1
<1>2. ASSUME NEW n \in Nat, n \in N PROVE n + 1 \in N
  <2> SUFFICES ASSUME NEW s \in Seq(S), Len(s) = n + 1 PROVE s \in T
    OBVIOUS
  <2>1. s # <<>>
    OBVIOUS
  <2>2. PICK e \in S, r \in Seq(S) : s = <<e>> \o r /\ Len(s) = 1 + Len(r) /\ e = s[1] /\ r = Tail(s)
    BY <2>1, HeadFirst
  <2>3. Len(r) = n
    BY <2>2
  <2> QED
    BY <1>2, <2>2, <2>3
<1>3. Nat \subseteq N
  <2> HIDE DEF N
  <2> QED
    BY <1>1, <1>2, Induction
<1> QED
  BY <1>3

\* The elements of two sequences one after the other.
LEMMA Joined ==
    ASSUME NEW S, NEW c \in Seq(S), NEW q \in Seq(S), NEW t, t = c \o q
    PROVE  /\ t \in Seq(S) /\ Len(t) = Len(c) + Len(q)
           /\ \A i \in 1..Len(c) : t[i] = c[i]
           /\ \A i \in 1..Len(q) : t[Len(c) + i] = q[i]
OBVIOUS

\* Two sequences put together can be cut apart again.
LEMMA Cut ==
    ASSUME NEW S, NEW c \in Seq(S), NEW q \in Seq(S)
    PROVE  /\ SubSeq(c \o q, 1, Len(c)) = c
           /\ SubSeq(c \o q, Len(c) + 1, Len(c \o q)) = q
<1>1. PICK s : s = c \o q
  OBVIOUS
<1>2. /\ s \in Seq(S) /\ Len(s) = Len(c) + Len(q) /\ Len(c) \in Nat /\ Len(q) \in Nat
      /\ \A i \in 1..Len(c) : s[i] = c[i]
      /\ \A i \in 1..Len(q) : s[Len(c) + i] = q[i]
  BY <1>1
<1>3. PICK u, v : u = SubSeq(s, 1, Len(c)) /\ v = SubSeq(s, Len(c) + 1, Len(s))
  OBVIOUS
<1>4. u \in Seq(S) /\ Len(u) = Len(c) /\ \A i \in 1..Len(c) : u[i] = s[i]
  BY ONLY <1>2, <1>3
<1>5. v \in Seq(S) /\ Len(v) = Len(q) /\ \A i \in 1..Len(q) : v[i] = s[Len(c) + i]
  BY ONLY <1>2, <1>3
<1>6. u = c
  <2>1. \A i \in 1..Len(u) : u[i] = c[i]
    BY ONLY <1>2, <1>4
  <2> QED
    BY <1>4, <2>1, SeqEqual
<1>7. v = q
  <2>1. \A i \in 1..Len(v) : v[i] = q[i]
    BY ONLY <1>2, <1>5
  <2> QED
    BY <1>5, <2>1, SeqEqual
<1> QED
  BY <1>1, <1>3, <1>6, <1>7

\* A sequence is the two parts it is cut into.
LEMMA Parts ==
    ASSUME NEW S, NEW s \in Seq(S), NEW n \in 0..Len(s)
    PROVE  /\ SubSeq(s, 1, n) \in Seq(S) /\ SubSeq(s, n + 1, Len(s)) \in Seq(S)
           /\ s = SubSeq(s, 1, n) \o SubSeq(s, n + 1, Len(s))
           /\ Len(SubSeq(s, 1, n)) = n /\ Len(s) = n + Len(SubSeq(s, n + 1, Len(s)))
<1>1. PICK c, q, t : c = SubSeq(s, 1, n) /\ q = SubSeq(s, n + 1, Len(s)) /\ t = c \o q
  OBVIOUS
<1>2. c \in Seq(S) /\ Len(c) = n /\ \A i \in 1..n : c[i] = s[i]
  BY <1>1
<1>3. q \in Seq(S) /\ Len(q) = Len(s) - n /\ \A i \in 1..Len(q) : q[i] = s[n + i]
  BY <1>1
<1>4. t \in Seq(S) /\ Len(t) = Len(s)
  BY <1>1, <1>2, <1>3
<1>8. \A j \in 1..Len(q) : t[Len(c) + j] = q[j]
  <2>1. c \in Seq(S) /\ q \in Seq(S) /\ t = c \o q
    BY <1>1, <1>2, <1>3
  <2> QED
    BY ONLY <2>1, Joined
<1>5. ASSUME NEW i \in 1..Len(s) PROVE t[i] = s[i]
  <2>0. n \in Nat /\ Len(s) \in Nat /\ n <= Len(s) /\ i \in Nat /\ 1 <= i /\ i <= Len(s)
    OBVIOUS
  <2>1. CASE i <= n
    <3>1. i \in 1..n /\ i \in 1..Len(c)
      BY ONLY <1>2, <2>0, <2>1
    <3>2. t[i] = c[i]
      BY ONLY <1>1, <1>2, <1>3, <3>1
    <3> QED
      BY <1>2, <3>1, <3>2
  <2>2. CASE i > n
    <3>1. PICK j \in 1..Len(q) : i = n + j
      <4>1. i - n \in 1..Len(q) /\ i = n + (i - n)
        BY ONLY <1>3, <2>0, <2>2
      <4> QED
        BY <4>1
    <3>2. t[Len(c) + j] = q[j]
      BY <1>8
    <3> QED
      BY <1>2, <1>3, <3>1, <3>2
  <2> QED
    BY ONLY <2>0, <2>1, <2>2
<1>6. t = s
  BY <1>4, <1>5, SeqEqual
<1>7. Len(s) = n + Len(q)
  BY ONLY <1>3, s \in Seq(S), n \in 0..Len(s)
<1> QED
  BY ONLY <1>1, <1>2, <1>3, <1>6, <1>7

\* g follows the pieces of s.
Flattens(s, g) == g[0] = <<>> /\ \A i \in 1..Len(s) : g[i] = g[i - 1] \o s[i]

\* The recursion in FlattenSeq has its steps.
LEMMA FlattenUnfolds ==
    ASSUME NEW S, NEW s \in Seq(Seq(S))
    PROVE  \E g : Flattens(s, g) /\ FlattenSeq(s) = g[Len(s)] /\ \A i \in 0..Len(s) : g[i] \in Seq(S)
<1> DEFINE Body(f, n) == [i \in 1..n |-> IF i = 1 THEN s[1] ELSE f[i - 1] \o s[i]]
           N == {n \in Nat : \E f : f = Body(f, n)}
<1>1. 0 \in N
  <2>1. [i \in 1..0 |-> s[1]] = Body([i \in 1..0 |-> s[1]], 0)
    OBVIOUS
  <2> QED
    BY <2>1
<1>2. ASSUME NEW n \in Nat, n \in N PROVE n + 1 \in N
  <2>1. PICK f : f = Body(f, n)
    BY <1>2
  <2>4. \A i \in 1..n : f[i] = IF i = 1 THEN s[1] ELSE f[i - 1] \o s[i]
    BY <2>1
  <2> DEFINE h == [i \in 1..n + 1 |-> IF i <= n THEN f[i] ELSE IF i = 1 THEN s[1] ELSE f[n] \o s[n + 1]]
  <2>2. ASSUME NEW i \in 1..n + 1 PROVE h[i] = IF i = 1 THEN s[1] ELSE h[i - 1] \o s[i]
    <3>1. CASE i <= n
      <4>1. f[i] = IF i = 1 THEN s[1] ELSE f[i - 1] \o s[i]
        BY <2>4, <3>1
      <4>2. h[i] = f[i] /\ (i # 1 => h[i - 1] = f[i - 1])
        BY <3>1
      <4> QED
        BY <4>1, <4>2
    <3>2. CASE i = n + 1
      <4>1. h[i] = (IF i = 1 THEN s[1] ELSE f[n] \o s[n + 1]) /\ (i # 1 => h[i - 1] = f[n])
        BY <3>2
      <4> QED
        BY <3>2, <4>1
    <3> QED
      BY <3>1, <3>2
  <2>3. h = Body(h, n + 1)
    BY <2>2
  <2> HIDE DEF h, Body
  <2> QED
    BY <2>3
<1>3. Len(s) \in N
  <2> HIDE DEF N
  <2> QED
    BY <1>1, <1>2, Induction
<1>4. \E f : f = Body(f, Len(s))
  BY <1>3
<1> DEFINE F == CHOOSE f : f = Body(f, Len(s))
<1>5. F = Body(F, Len(s))
  BY <1>4
<1>6. Len(s) # 0 => FlattenSeq(s) = F[Len(s)]
  BY DEF FlattenSeq
<1>7. Len(s) = 0 => FlattenSeq(s) = <<>>
  BY DEF FlattenSeq
<1> HIDE DEF F
<1> DEFINE g == [i \in 0..Len(s) |-> IF i = 0 THEN <<>> ELSE F[i]]
<1>8. ASSUME NEW i \in 1..Len(s) PROVE F[i] = IF i = 1 THEN s[1] ELSE F[i - 1] \o s[i]
  BY <1>5
<1>9. \A i \in 1..Len(s) : s[i] \in Seq(S)
  OBVIOUS
<1>10. Flattens(s, g)
  <2>1. g[0] = <<>>
    OBVIOUS
  <2>2. ASSUME NEW i \in 1..Len(s) PROVE g[i] = g[i - 1] \o s[i]
    <3>1. g[i] = F[i]
      OBVIOUS
    <3>2. CASE i = 1
      <4>1. g[i] = s[i] /\ g[i - 1] = <<>>
        BY <1>8, <2>1, <3>1, <3>2
      <4>2. <<>> \o s[i] = s[i]
        BY <1>9
      <4> QED
        BY <4>1, <4>2
    <3>3. CASE i # 1
      <4>1. F[i] = F[i - 1] \o s[i]
        BY <1>8, <3>3
      <4>2. g[i - 1] = F[i - 1]
        BY <3>3
      <4> QED
        BY <3>1, <4>1, <4>2
    <3> QED
      BY <3>2, <3>3
  <2> HIDE DEF g
  <2> QED
    BY <2>1, <2>2 DEF Flattens
<1>11. FlattenSeq(s) = g[Len(s)]
  BY <1>6, <1>7
<1> HIDE DEF g
<1>12. \A i \in 0..Len(s) : g[i] \in Seq(S)
  <2> DEFINE K == {i \in Nat : i <= Len(s) => g[i] \in Seq(S)}
  <2>1. 0 \in K
    <3>1. g[0] = <<>> /\ <<>> \in Seq(S)
      BY <1>10 DEF Flattens
    <3> QED
      BY <3>1
  <2>2. ASSUME NEW n \in Nat, n \in K PROVE n + 1 \in K
    <3> SUFFICES ASSUME n + 1 <= Len(s) PROVE g[n + 1] \in Seq(S)
      OBVIOUS
    <3>1. n + 1 \in 1..Len(s) /\ n = (n + 1) - 1 /\ g[n] \in Seq(S)
      BY <2>2
    <3>2. g[n + 1] = g[n] \o s[n + 1]
      BY <1>10, <3>1 DEF Flattens
    <3> QED
      BY <1>9, <3>1, <3>2
  <2>3. Nat \subseteq K
    <3> HIDE DEF K
    <3> QED
      BY <2>1, <2>2, Induction
  <2> QED
    BY <2>3
<1> QED
  BY <1>10, <1>11, <1>12

\* The steps determine the result.
LEMMA FlattenSteps ==
    ASSUME NEW S, NEW s \in Seq(Seq(S)), NEW h, Flattens(s, h)
    PROVE  FlattenSeq(s) = h[Len(s)]
<1>1. PICK g : Flattens(s, g) /\ FlattenSeq(s) = g[Len(s)]
  BY FlattenUnfolds
<1> DEFINE K == {i \in Nat : i <= Len(s) => g[i] = h[i]}
<1>2. 0 \in K
  BY <1>1 DEF Flattens
<1>3. ASSUME NEW n \in Nat, n \in K PROVE n + 1 \in K
  <2> SUFFICES ASSUME n + 1 <= Len(s) PROVE g[n + 1] = h[n + 1]
    OBVIOUS
  <2>1. n + 1 \in 1..Len(s) /\ n = (n + 1) - 1 /\ g[n] = h[n]
    BY <1>3
  <2>2. g[n + 1] = g[n] \o s[n + 1] /\ h[n + 1] = h[n] \o s[n + 1]
    BY <1>1, <2>1 DEF Flattens
  <2> QED
    BY <2>1, <2>2
<1>4. Nat \subseteq K
  <2> HIDE DEF K
  <2> QED
    BY <1>2, <1>3, Induction
<1>5. Len(s) \in Nat
  OBVIOUS
<1> QED
  BY <1>1, <1>4, <1>5

\* What FlattenSeq does to nothing, and to one piece more.
LEMMA FlattenEmpty == FlattenSeq(<<>>) = <<>>
BY DEF FlattenSeq

\* FlattenSeq of one piece more.
LEMMA FlattenAppend ==
    ASSUME NEW S, NEW s \in Seq(Seq(S)), NEW x \in Seq(S)
    PROVE  FlattenSeq(s) \in Seq(S) /\ FlattenSeq(Append(s, x)) = FlattenSeq(s) \o x
<1>1. PICK t : t = Append(s, x)
  OBVIOUS
<1>2. t \in Seq(Seq(S)) /\ Len(t) = Len(s) + 1 /\ (\A i \in 1..Len(s) : t[i] = s[i]) /\ t[Len(s) + 1] = x
  BY <1>1
<1>3. PICK g : Flattens(t, g) /\ FlattenSeq(t) = g[Len(t)] /\ \A i \in 0..Len(t) : g[i] \in Seq(S)
  BY <1>2, FlattenUnfolds
<1>4. Flattens(s, g)
  <2>1. g[0] = <<>>
    BY <1>3 DEF Flattens
  <2>2. ASSUME NEW i \in 1..Len(s) PROVE g[i] = g[i - 1] \o s[i]
    <3>1. i \in 1..Len(t) /\ t[i] = s[i]
      BY <1>2
    <3>2. g[i] = g[i - 1] \o t[i]
      BY <1>3, <3>1 DEF Flattens
    <3> QED
      BY <3>1, <3>2
  <2> QED
    BY <2>1, <2>2 DEF Flattens
<1>5. FlattenSeq(s) = g[Len(s)]
  BY <1>4, FlattenSteps
<1>6. g[Len(s) + 1] = g[Len(s)] \o x
  <2>1. Len(s) + 1 \in 1..Len(t) /\ Len(s) = (Len(s) + 1) - 1
    BY <1>2
  <2> QED
    BY <1>2, <1>3, <2>1 DEF Flattens
<1>7. Len(s) \in 0..Len(t)
  BY <1>2
<1> QED
  BY <1>1, <1>2, <1>3, <1>5, <1>6, <1>7

\* FlattenSeq of a single piece is that piece.
LEMMA FlattenOne ==
    ASSUME NEW S, NEW x \in Seq(S)
    PROVE  FlattenSeq(<<x>>) = x
<1>1. <<x>> = Append(<<>>, x) /\ <<>> \in Seq(Seq(S))
  OBVIOUS
<1>2. FlattenSeq(<<x>>) = FlattenSeq(<<>>) \o x
  BY <1>1, FlattenAppend
<1> QED
  BY <1>2, FlattenEmpty

\* FlattenSeq of two texts one after the other.
LEMMA FlattenConcat ==
    ASSUME NEW S, NEW s \in Seq(Seq(S)), NEW t \in Seq(Seq(S))
    PROVE  FlattenSeq(s \o t) = FlattenSeq(s) \o FlattenSeq(t)
<1> DEFINE T == {r \in Seq(Seq(S)) : FlattenSeq(s \o r) = FlattenSeq(s) \o FlattenSeq(r)}
<1>1. FlattenSeq(s) \in Seq(S)
  BY FlattenAppend, <<>> \in Seq(S)
<1>2. <<>> \in T
  <2>1. s \o <<>> = s /\ FlattenSeq(s) \o <<>> = FlattenSeq(s)
    BY <1>1, ConcatEmptySeq
  <2>2. <<>> \in Seq(Seq(S))
    OBVIOUS
  <2> QED
    BY <2>1, <2>2, FlattenEmpty
<1>3. ASSUME NEW r \in Seq(Seq(S)), NEW e \in Seq(S), r \in T PROVE Append(r, e) \in T
  <2>1. s \o Append(r, e) = Append(s \o r, e) /\ s \o r \in Seq(Seq(S)) /\ Append(r, e) \in Seq(Seq(S))
    OBVIOUS
  <2>2. FlattenSeq(s \o Append(r, e)) = FlattenSeq(s \o r) \o e
    BY <2>1, FlattenAppend
  <2>3. FlattenSeq(Append(r, e)) = FlattenSeq(r) \o e /\ FlattenSeq(r) \in Seq(S)
    BY FlattenAppend
  <2>4. (FlattenSeq(s) \o FlattenSeq(r)) \o e = FlattenSeq(s) \o (FlattenSeq(r) \o e)
    <3>1. FlattenSeq(s) \in Seq(S) /\ FlattenSeq(r) \in Seq(S) /\ e \in Seq(S)
      BY <1>1, <2>3
    <3> QED
      BY ONLY <3>1, ConcatAssociative, SMTT(30)
  <2> QED
    BY <1>3, <2>1, <2>2, <2>3, <2>4
<1>4. Seq(Seq(S)) \subseteq T
  <2> HIDE DEF T
  <2> QED
    BY <1>2, <1>3, Appending
<1> QED
  BY <1>4

-----------------------------------------------------------------------------
(* Characters *)

\* The bytes of b after the first, up to n, are those of a longer character.
Follows(b, n) == \A i \in 2..n : b[i] \in IF i = 2 THEN Lead[b[1]].second ELSE Continuation

\* The first n bytes of b are a character.
CharAt(b, n) ==
    /\ n \in 1..Len(b)
    /\ \/ n = 1 /\ b[1] \in Ascii
       \/ b[1] \in DOMAIN Lead /\ n = Lead[b[1]].len /\ Follows(b, n)

\* The first byte tells how long a character is.
LEMMA OneLength ==
    ASSUME NEW b, NEW n, NEW m, CharAt(b, n), CharAt(b, m)
    PROVE  n = m /\ n \in 1..4
<1>1. b[1] \in Ascii => b[1] \notin DOMAIN Lead
  BY TokenizerAssumption
<1>2. b[1] \in DOMAIN Lead => Lead[b[1]].len \in 2..4
  BY TokenizerAssumption
<1> QED
  BY <1>1, <1>2 DEF CharAt

\* A beginning of b is a character if CharAt says so.
LEMMA CharPrefix ==
    ASSUME NEW b \in Seq(Bytes), NEW n \in 1..Len(b)
    PROVE  IsChar(SubSeq(b, 1, n)) <=> CharAt(b, n)
<1>1. PICK c : c = SubSeq(b, 1, n)
  OBVIOUS
<1>2. c \in Seq(Bytes) /\ Len(c) = n /\ (\A i \in 1..n : c[i] = b[i]) /\ c # <<>> /\ c[1] = b[1]
  BY <1>1
<1>3. Follows(c, n) <=> Follows(b, n)
  BY <1>2 DEF Follows
<1>4. IsChar(c) <=> /\ \/ n = 1 /\ b[1] \in Ascii
                       \/ b[1] \in DOMAIN Lead /\ n <= Lead[b[1]].len /\ Follows(c, n)
                    /\ b[1] \in Ascii \/ n = Lead[b[1]].len
  BY <1>2 DEF IsChar, Begins, Follows
<1>5. b[1] \in Ascii => b[1] \notin DOMAIN Lead
  BY TokenizerAssumption
<1>6. b[1] \in DOMAIN Lead => Lead[b[1]].len \in 2..4
  BY TokenizerAssumption
<1> QED
  BY <1>1, <1>3, <1>4, <1>5, <1>6 DEF CharAt

\* CharLen finds the character if there is one, and is 0 otherwise.
LEMMA CharLenIs ==
    ASSUME NEW b \in Seq(Bytes)
    PROVE  /\ CharLen(b) \in 0..Len(b)
           /\ CharLen(b) = 0 \/ CharAt(b, CharLen(b))
           /\ \A n : CharAt(b, n) => CharLen(b) = n
<1> DEFINE T == {0} \cup {n \in 1..Len(b) : n <= 4 /\ IsChar(SubSeq(b, 1, n))}
<1>1. \A n : n \in T <=> n = 0 \/ CharAt(b, n)
  <2>1. \A n : CharAt(b, n) => n \in 1..Len(b) /\ n <= 4
    BY OneLength DEF CharAt
  <2> QED
    BY <2>1, CharPrefix
<1>2. PICK m : m = Max(T)
  OBVIOUS
<1>3. CharLen(b) = m
  BY <1>2 DEF CharLen
<1>4. m \in T /\ \A y \in T : y <= m
  <2>1. Len(b) \in Nat /\ T \in SUBSET (0..Len(b)) /\ 0 \in T
    OBVIOUS
  <2> HIDE DEF T
  <2> QED
    BY <1>2, <2>1, MaxOf
<1>5. m \in 0..Len(b)
  <2>1. T \in SUBSET (0..Len(b))
    OBVIOUS
  <2> QED
    BY <1>4, <2>1
<1> HIDE DEF T
<1>6. ASSUME NEW n, CharAt(b, n) PROVE m = n
  <2>1. n \in T /\ n <= m /\ n \in 1..Len(b)
    BY <1>1, <1>4, <1>6 DEF CharAt
  <2>2. m # 0
    BY <2>1
  <2>3. CharAt(b, m)
    BY <1>1, <1>4, <2>2
  <2> QED
    BY <1>6, <2>3, OneLength
<1> QED
  BY <1>1, <1>3, <1>4, <1>5, <1>6

\* Bytes that follow do not change the character at the beginning.
LEMMA CharAtExtends ==
    ASSUME NEW b \in Seq(Bytes), NEW t \in Seq(Bytes), NEW n \in 1..Len(b)
    PROVE  CharAt(b \o t, n) <=> CharAt(b, n)
<1>1. PICK c : c = b \o t
  OBVIOUS
<1>2. n \in 1..Len(c) /\ c[1] = b[1] /\ \A i \in 2..n : c[i] = b[i]
  BY <1>1
<1>3. Follows(c, n) <=> Follows(b, n)
  BY <1>2 DEF Follows
<1> QED
  BY <1>1, <1>2, <1>3 DEF CharAt

\* No character begins with a continuation byte.
LEMMA NoCharInside ==
    ASSUME NEW x \in Continuation, NEW b \in Seq(Bytes)
    PROVE  CharLen(<<x>> \o b) = 0
<1>1. x \notin Ascii /\ x \notin DOMAIN Lead /\ x \in Bytes
  BY TokenizerAssumption
<1>2. <<x>> \o b \in Seq(Bytes) /\ (<<x>> \o b)[1] = x
  BY <1>1
<1>3. \A n : ~CharAt(<<x>> \o b, n)
  BY <1>1, <1>2 DEF CharAt
<1> QED
  BY <1>2, <1>3, CharLenIs

\* What can never become a character, whatever follows.
LEMMA Invalid ==
    ASSUME NEW p \in Seq(Bytes), NEW t \in Seq(Bytes), p # <<>>, CharLen(p) = 0, ~Begins(p)
    PROVE  CharLen(p \o t) = 0
<1>1. PICK c : c = p \o t
  OBVIOUS
<1>2. c \in Seq(Bytes) /\ Len(c) = Len(p) + Len(t) /\ (\A i \in 1..Len(p) : c[i] = p[i]) /\ Len(p) \in Nat \ {0}
  BY <1>1
<1>3. ASSUME NEW n, CharAt(c, n) PROVE FALSE
  <2>1. CASE n \in 1..Len(p)
    <3>1. CharAt(p, n)
      BY <1>1, <1>3, <2>1, CharAtExtends
    <3>2. n = 0
      BY <3>1, CharLenIs
    <3> QED
      BY <2>1, <3>2
  <2>2. CASE n \notin 1..Len(p)
    <3>1. n \in 1..Len(c) /\ Len(p) < n
      BY <1>2, <1>3, <2>2 DEF CharAt
    <3>2. c[1] \in DOMAIN Lead /\ n = Lead[c[1]].len /\ Follows(c, n)
      BY <1>2, <1>3, <3>1 DEF CharAt
    <3>3. c[1] = p[1]
      BY <1>2
    <3>4. \A i \in 2..Len(p) : p[i] \in IF i = 2 THEN Lead[p[1]].second ELSE Continuation
      <4>1. \A i \in 2..Len(p) : i \in 2..n /\ c[i] = p[i]
        BY <1>2, <3>1
      <4> QED
        BY <3>2, <3>3, <4>1 DEF Follows
    <3>5. Begins(p)
      BY <1>2, <3>1, <3>2, <3>3, <3>4 DEF Begins
    <3> QED
      BY <3>5
  <2> QED
    BY <2>1, <2>2
<1> QED
  BY <1>1, <1>2, <1>3, CharLenIs

-----------------------------------------------------------------------------
(* The characters in a stream *)

\* The character that begins with byte i, if one does.
Piece(b, i) ==
    LET c == SubSeq(b, i, i - 1 + CharLen(SubSeq(b, i, Len(b)))) IN
    IF c = <<>> THEN <<>> ELSE <<c>>

Pieces(b) == [i \in DOMAIN b |-> Piece(b, i)]

\* A piece is a text of at most one character.
LEMMA PieceType ==
    ASSUME NEW b \in Seq(Bytes), NEW i \in 1..Len(b)
    PROVE  Piece(b, i) \in Seq(Seq(Bytes))
<1>1. PICK r : r = SubSeq(b, i, Len(b))
  OBVIOUS
<1>2. r \in Seq(Bytes) /\ Len(r) = Len(b) - i + 1
  BY <1>1
<1>3. PICK n \in 0..Len(r) : n = CharLen(r)
  BY <1>2, CharLenIs
<1>4. PICK c : c = SubSeq(b, i, i - 1 + n)
  OBVIOUS
<1>5. c \in Seq(Bytes)
  BY <1>2, <1>3, <1>4
<1>6. Piece(b, i) = IF c = <<>> THEN <<>> ELSE <<c>>
  BY <1>1, <1>3, <1>4 DEF Piece
<1> QED
  BY <1>5, <1>6

\* CharsIn puts the pieces together.
LEMMA PiecesType ==
    ASSUME NEW b \in Seq(Bytes)
    PROVE  Pieces(b) \in Seq(Seq(Seq(Bytes))) /\ CharsIn(b) = FlattenSeq(Pieces(b)) /\ CharsIn(b) \in Seq(Seq(Bytes))
<1>1. DOMAIN b = 1..Len(b) /\ Len(b) \in Nat
  OBVIOUS
<1>2. Pieces(b) \in Seq(Seq(Seq(Bytes)))
  BY <1>1, PieceType DEF Pieces
<1>3. CharsIn(b) = FlattenSeq(Pieces(b))
  BY DEF CharsIn, Pieces, Piece
<1>4. FlattenSeq(Pieces(b)) \in Seq(Seq(Bytes))
  <2>1. <<>> \in Seq(Seq(Bytes))
    OBVIOUS
  <2> QED
    BY <1>2, <2>1, FlattenAppend
<1> QED
  BY <1>2, <1>3, <1>4

\* A part of a sequence that has got an element more before it.
LEMMA SubSeqShift ==
    ASSUME NEW S, NEW x \in S, NEW b \in Seq(S), NEW i \in 1..Len(b), NEW j \in 0..Len(b)
    PROVE  SubSeq(<<x>> \o b, i + 1, j + 1) = SubSeq(b, i, j)
<1>1. PICK c : c = <<x>> \o b
  OBVIOUS
<1>2. c \in Seq(S) /\ Len(c) = 1 + Len(b) /\ \A k \in 1..Len(b) : c[k + 1] = b[k]
  BY <1>1
<1>3. PICK u, v : u = SubSeq(c, i + 1, j + 1) /\ v = SubSeq(b, i, j)
  OBVIOUS
<1>4. u \in Seq(S) /\ v \in Seq(S) /\ Len(u) = Len(v) /\ \A k \in 1..Len(u) : u[k] = v[k]
  <2>1. u \in Seq(S) /\ Len(u) = (IF i <= j THEN j - i + 1 ELSE 0) /\ \A k \in 1..j - i + 1 : u[k] = c[i + k]
    BY <1>2, <1>3
  <2>2. v \in Seq(S) /\ Len(v) = (IF i <= j THEN j - i + 1 ELSE 0) /\ \A k \in 1..j - i + 1 : v[k] = b[i + k - 1]
    BY <1>3
  <2>3. \A k \in 1..j - i + 1 : c[i + k] = b[i + k - 1]
    <3> SUFFICES ASSUME NEW k \in 1..j - i + 1 PROVE c[i + k] = b[i + k - 1]
      OBVIOUS
    <3>1. i + k - 1 \in 1..Len(b) /\ (i + k - 1) + 1 = i + k
      OBVIOUS
    <3> QED
      BY <1>2, <3>1
  <2>4. Len(u) = Len(v) /\ u \in Seq(S) /\ v \in Seq(S)
    BY ONLY <2>1, <2>2
  <2>5. ASSUME NEW k \in 1..Len(u) PROVE u[k] = v[k]
    <3>1. k \in 1..j - i + 1
      BY ONLY <2>1, k \in 1..Len(u), i \in 1..Len(b), j \in 0..Len(b)
    <3> QED
      BY ONLY <2>1, <2>2, <2>3, <3>1
  <2> QED
    BY ONLY <2>4, <2>5
<1>5. u = v
  BY <1>4, SeqEqual
<1> QED
  BY <1>1, <1>3, <1>5

\* The character at the beginning of b, as a sequence of at most one.
First(b) == IF CharLen(b) = 0 THEN <<>> ELSE <<SubSeq(b, 1, CharLen(b))>>

\* The characters of a stream, one byte at a time.
LEMMA CharsInFirst ==
    ASSUME NEW x \in Bytes, NEW b \in Seq(Bytes), NEW c, c = <<x>> \o b
    PROVE  CharsIn(c) = First(c) \o CharsIn(b)
<1>1. c \in Seq(Bytes) /\ Len(c) = 1 + Len(b) /\ c[1] = x /\ DOMAIN c = 1..Len(c) /\ DOMAIN b = 1..Len(b)
  OBVIOUS
<1>2. PICK p : p = First(c)
  OBVIOUS
<1>3. Piece(c, 1) = p /\ p \in Seq(Seq(Bytes))
  <2>1. SubSeq(c, 1, Len(c)) = c
    BY <1>1, SubSeqFull
  <2>2. PICK n \in 0..Len(c) : n = CharLen(c)
    BY <1>1, CharLenIs
  <2>3. SubSeq(c, 1, n) \in Seq(Bytes) /\ (SubSeq(c, 1, n) = <<>> <=> n = 0)
    BY <1>1, <2>2
  <2>4. Piece(c, 1) = IF SubSeq(c, 1, 1 - 1 + n) = <<>> THEN <<>> ELSE <<SubSeq(c, 1, 1 - 1 + n)>>
    BY <2>1, <2>2 DEF Piece
  <2>5. p = IF n = 0 THEN <<>> ELSE <<SubSeq(c, 1, n)>>
    BY <1>2, <2>2 DEF First
  <2>6. 1 - 1 + n = n
    OBVIOUS
  <2>7. Piece(c, 1) = p
    BY ONLY <2>3, <2>4, <2>5, <2>6
  <2>8. p \in Seq(Seq(Bytes))
    BY <2>3, <2>5
  <2> QED
    BY <2>7, <2>8
<1>4. ASSUME NEW i \in 1..Len(b) PROVE Piece(c, i + 1) = Piece(b, i)
  <2>1. SubSeq(c, i + 1, Len(c)) = SubSeq(b, i, Len(b))
    <3>1. Len(b) \in 0..Len(b) /\ Len(c) = Len(b) + 1
      BY <1>1
    <3> QED
      BY <3>1, SubSeqShift
  <2>2. PICK n \in Nat : n = CharLen(SubSeq(b, i, Len(b))) /\ i - 1 + n \in 0..Len(b)
    <3>1. PICK r : r = SubSeq(b, i, Len(b))
      OBVIOUS
    <3>3. r \in Seq(Bytes) /\ Len(r) = Len(b) - i + 1
      BY <3>1
    <3>2. CharLen(r) \in 0..Len(r)
      BY <3>3, CharLenIs
    <3> QED
      BY <3>1, <3>2, <3>3
  <2>3. SubSeq(c, i + 1, (i - 1 + n) + 1) = SubSeq(b, i, i - 1 + n)
    BY <2>2, SubSeqShift
  <2>4. (i + 1) - 1 + n = (i - 1 + n) + 1
    OBVIOUS
  <2> QED
    BY <2>1, <2>2, <2>3, <2>4 DEF Piece
<1>5. Pieces(c) = <<p>> \o Pieces(b)
  <2>1. Pieces(b) \in Seq(Seq(Seq(Bytes))) /\ Pieces(c) \in Seq(Seq(Seq(Bytes)))
    BY <1>1, PiecesType
  <2>2. Len(Pieces(b)) = Len(b) /\ Len(Pieces(c)) = Len(c)
    BY <1>1 DEF Pieces
  <2>3. PICK q : q = <<p>> \o Pieces(b)
    OBVIOUS
  <2>4. /\ q \in Seq(Seq(Seq(Bytes))) /\ Len(q) = Len(c)
        /\ \A i \in 1..Len(c) : q[i] = IF i = 1 THEN p ELSE Pieces(b)[i - 1]
    BY <1>1, <1>3, <2>1, <2>2, <2>3
  <2>5. \A i \in 1..Len(b) : Pieces(b)[i] = Piece(b, i)
    BY <1>1 DEF Pieces
  <2>6. \A i \in 1..Len(c) : Pieces(c)[i] = Piece(c, i)
    BY <1>1 DEF Pieces
  <2>7. ASSUME NEW i \in 1..Len(c) PROVE Pieces(c)[i] = q[i]
    <3>1. CASE i = 1
      BY <1>3, <2>4, <2>6, <3>1
    <3>2. CASE i # 1
      <4>1. i - 1 \in 1..Len(b) /\ (i - 1) + 1 = i
        BY <1>1, <3>2
      <4>2. Piece(c, i) = Piece(b, i - 1)
        BY <1>4, <4>1
      <4> QED
        BY <2>4, <2>5, <2>6, <3>2, <4>1, <4>2
    <3> QED
      BY <3>1, <3>2
  <2>8. Pieces(c) = q
    <3>1. PICK r : r = Pieces(c)
      OBVIOUS
    <3>2. r \in Seq(Seq(Seq(Bytes))) /\ q \in Seq(Seq(Seq(Bytes))) /\ Len(r) = Len(q)
          /\ \A i \in 1..Len(r) : r[i] = q[i]
      BY <2>1, <2>2, <2>4, <2>7, <3>1
    <3>3. r = q
      BY ONLY <3>2, SeqEqual
    <3> QED
      BY <3>1, <3>3
  <2> QED
    BY <2>3, <2>8
<1>6. Pieces(b) \in Seq(Seq(Seq(Bytes))) /\ <<p>> \in Seq(Seq(Seq(Bytes)))
  BY <1>3, PiecesType
<1>7. FlattenSeq(<<p>> \o Pieces(b)) = FlattenSeq(<<p>>) \o FlattenSeq(Pieces(b))
  BY <1>6, FlattenConcat
<1>8. FlattenSeq(<<p>>) = p
  BY <1>3, FlattenOne
<1> QED
  BY <1>1, <1>2, <1>5, <1>7, <1>8, PiecesType

\* Continuation bytes alone add no character.
LEMMA CharsInInside ==
    ASSUME NEW b \in Seq(Bytes)
    PROVE  \A t \in Seq(Continuation) : CharsIn(t \o b) = CharsIn(b)
<1> DEFINE T == {t \in Seq(Continuation) : CharsIn(t \o b) = CharsIn(b)}
<1>0. Continuation \subseteq Bytes
  BY TokenizerAssumption
<1>1. <<>> \in T
  BY ConcatEmptySeq
<1>2. ASSUME NEW t \in Seq(Continuation), NEW x \in Continuation, t \in T PROVE <<x>> \o t \in T
  <2>1. t \in Seq(Bytes) /\ x \in Bytes
    BY <1>0
  <2>2. t \o b \in Seq(Bytes) /\ (<<x>> \o t) \o b = <<x>> \o (t \o b) /\ <<x>> \o t \in Seq(Continuation)
    BY <2>1, ConcatAssociative
  <2>3. CharLen(<<x>> \o (t \o b)) = 0
    BY <2>2, NoCharInside
  <2>4. CharsIn(<<x>> \o (t \o b)) = <<>> \o CharsIn(t \o b)
    BY <2>1, <2>2, <2>3, CharsInFirst DEF First
  <2>5. CharsIn(b) \in Seq(Seq(Bytes))
    BY PiecesType
  <2> QED
    BY <1>2, <2>2, <2>4, <2>5, ConcatEmptySeq
<1>3. Seq(Continuation) \subseteq T
  <2> HIDE DEF T
  <2> QED
    BY <1>1, <1>2, Prepending
<1> QED
  BY <1>3

\* Nothing has no characters.
LEMMA CharsInEmpty == CharsIn(<<>>) = <<>>
<1>1. <<>> \in Seq(Bytes) /\ Pieces(<<>>) = <<>>
  BY DEF Pieces
<1> QED
  BY <1>1, PiecesType, FlattenEmpty

\* A sequence is one over any set that has its elements.
LEMMA Retype ==
    ASSUME NEW S, NEW T, NEW s \in Seq(S), \A i \in 1..Len(s) : s[i] \in T
    PROVE  s \in Seq(T)
<1>1. s \in [1..Len(s) -> S] /\ Len(s) \in Nat
  BY LenProperties
<1>2. s \in [1..Len(s) -> T]
  BY <1>1
<1> QED
  BY <1>1, <1>2, SeqDef

\* The bytes of a character after its first, or of the beginning of one.
LEMMA FollowsInside ==
    ASSUME NEW b \in Seq(Bytes), b # <<>>, b[1] \in DOMAIN Lead, Follows(b, Len(b))
    PROVE  Tail(b) \in Seq(Continuation) /\ b = <<b[1]>> \o Tail(b)
<1>1. b = <<b[1]>> \o Tail(b) /\ Tail(b) \in Seq(Bytes) /\ Len(Tail(b)) = Len(b) - 1
  BY HeadFirst
<1>2. ASSUME NEW i \in 1..Len(Tail(b)) PROVE Tail(b)[i] \in Continuation
  <2>1. Tail(b)[i] = b[i + 1] /\ i + 1 \in 2..Len(b)
    BY <1>1
  <2>2. Lead[b[1]].second \subseteq Continuation
    BY TokenizerAssumption
  <2> QED
    BY <2>1, <2>2 DEF Follows
<1>3. Tail(b) \in Seq(Continuation)
  BY <1>1, <1>2, Retype
<1> QED
  BY <1>1, <1>3

\* A character at the beginning comes out first, and nothing else of it.
LEMMA CharsInChar ==
    ASSUME NEW b \in Seq(Bytes), NEW n, n = CharLen(b), n > 0
    PROVE  CharsIn(b) = <<SubSeq(b, 1, n)>> \o CharsIn(SubSeq(b, n + 1, Len(b)))
<1>1. n \in 1..Len(b) /\ CharAt(b, n)
  BY CharLenIs
<1>2. PICK c, r : c = SubSeq(b, 1, n) /\ r = SubSeq(b, n + 1, Len(b))
  OBVIOUS
<1>3. /\ c \in Seq(Bytes) /\ Len(c) = n /\ (\A i \in 1..n : c[i] = b[i]) /\ c # <<>>
      /\ r \in Seq(Bytes) /\ b = c \o r
  <2>1. c \in Seq(Bytes) /\ Len(c) = n /\ (\A i \in 1..n : c[i] = b[i]) /\ r \in Seq(Bytes)
    BY <1>1, <1>2
  <2>2. SubSeq(b, 1, n) \o SubSeq(b, n + 1, Len(b)) = SubSeq(b, 1, Len(b))
    <3>1. 1 \in 1..Len(b) + 1 /\ n \in 1 - 1..Len(b) /\ Len(b) \in n..Len(b)
      BY <1>1
    <3> QED
      BY ONLY b \in Seq(Bytes), <3>1, ConcatAdjacentSubSeq
  <2>3. SubSeq(b, 1, Len(b)) = b
    BY SubSeqFull
  <2>4. b = c \o r
    BY ONLY <1>2, <2>2, <2>3
  <2>5. c # <<>>
    BY <1>1, <2>1
  <2> QED
    BY <2>1, <2>4, <2>5
<1>4. Tail(c) \in Seq(Continuation) /\ c = <<c[1]>> \o Tail(c) /\ c[1] \in Bytes
  <2>1. CASE n = 1
    <3>1. PICK e \in Bytes, q \in Seq(Bytes) : c = <<e>> \o q /\ Len(c) = 1 + Len(q) /\ e = c[1] /\ q = Tail(c)
      BY <1>3, HeadFirst
    <3>2. q = <<>>
      BY <1>3, <2>1, <3>1
    <3>3. <<>> \in Seq(Continuation)
      OBVIOUS
    <3>4. Tail(c) \in Seq(Continuation)
      BY ONLY <3>1, <3>2, <3>3
    <3>5. c = <<c[1]>> \o Tail(c)
      BY ONLY <3>1
    <3> QED
      BY <3>1, <3>4, <3>5
  <2>2. CASE n # 1
    <3>1. b[1] \in DOMAIN Lead /\ Follows(b, n)
      BY <1>1, <2>2 DEF CharAt
    <3>2. c[1] = b[1] /\ \A i \in 2..n : c[i] = b[i]
      BY <1>1, <1>3
    <3>3. c[1] \in DOMAIN Lead /\ Follows(c, Len(c))
      BY <1>3, <3>1, <3>2 DEF Follows
    <3> QED
      BY <1>3, <3>3, FollowsInside
  <2> QED
    BY <2>1, <2>2
<1>5. PICK x \in Bytes, t \in Seq(Continuation) : x = c[1] /\ t = Tail(c) /\ c = <<x>> \o t
  BY <1>4
<1>6. t \in Seq(Bytes)
  BY TokenizerAssumption
<1>7. b = <<x>> \o (t \o r) /\ t \o r \in Seq(Bytes)
  <2>1. (<<x>> \o t) \o r = <<x>> \o (t \o r)
    BY <1>3, <1>6, ConcatAssociative
  <2>2. t \o r \in Seq(Bytes)
    BY <1>3, <1>6
  <2> QED
    BY <1>3, <1>5, <2>1, <2>2
<1>8. CharsIn(b) = <<c>> \o CharsIn(t \o r)
  <2>1. CharsIn(b) = First(b) \o CharsIn(t \o r)
    BY <1>7, CharsInFirst
  <2>2. First(b) = <<c>>
    BY <1>1, <1>2 DEF First
  <2> QED
    BY <2>1, <2>2
<1>9. CharsIn(t \o r) = CharsIn(r)
  BY <1>3, CharsInInside
<1> QED
  BY <1>2, <1>8, <1>9

\* An incomplete character is none.
LEMMA CharsInBegun ==
    ASSUME NEW b \in Seq(Bytes), CharLen(b) = 0, b = <<>> \/ Begins(b)
    PROVE  CharsIn(b) = <<>>
<1>1. CASE b = <<>>
  BY <1>1, CharsInEmpty
<1>2. CASE b # <<>>
  <2>1. ~(Len(b) = 1 /\ b[1] \in Ascii)
    <3> SUFFICES ASSUME Len(b) = 1, b[1] \in Ascii PROVE FALSE
      OBVIOUS
    <3>1. CharAt(b, 1)
      BY DEF CharAt
    <3> QED
      BY <3>1, CharLenIs
  <2>2. b[1] \in DOMAIN Lead /\ Follows(b, Len(b))
    BY <1>2, <2>1 DEF Begins, Follows
  <2>3. PICK x \in Bytes, t \in Seq(Continuation) : b = <<x>> \o t
    <3>1. b[1] \in Bytes
      BY <1>2
    <3> QED
      BY <1>2, <2>2, <3>1, FollowsInside
  <2>4. t \in Seq(Bytes) /\ t \o <<>> = t /\ <<>> \in Seq(Bytes)
    BY TokenizerAssumption, ConcatEmptySeq
  <2>5. CharsIn(t) = <<>>
    BY <2>4, CharsInInside, CharsInEmpty
  <2>6. CharsIn(b) = <<>> \o CharsIn(t)
    BY <2>3, <2>4, CharsInFirst DEF First
  <2> QED
    BY <2>5, <2>6
<1> QED
  BY <1>1, <1>2

\* An invalid byte at the beginning is none, whatever follows.
LEMMA CharsInInvalid ==
    ASSUME NEW b \in Seq(Bytes), NEW t \in Seq(Bytes), b # <<>>, CharLen(b) = 0, ~Begins(b)
    PROVE  CharsIn(b \o t) = CharsIn(Tail(b) \o t)
<1>1. PICK x \in Bytes, r \in Seq(Bytes) : b = <<x>> \o r /\ Len(b) = 1 + Len(r) /\ x = b[1] /\ r = Tail(b)
  BY HeadFirst
<1>2. b \o t = <<x>> \o (r \o t) /\ r \o t \in Seq(Bytes)
  BY <1>1, ConcatAssociative
<1>3. CharLen(b \o t) = 0
  BY Invalid
<1>4. CharsIn(b \o t) = <<>> \o CharsIn(r \o t)
  BY <1>2, <1>3, CharsInFirst DEF First
<1>5. CharsIn(r \o t) \in Seq(Seq(Bytes))
  BY <1>2, PiecesType
<1> QED
  BY <1>1, <1>4, <1>5, ConcatEmptySeq

-----------------------------------------------------------------------------
(* flush_utf8 *)

\* g holds pending and out after every round of flush_utf8's loop.
Flushes(p, o, g) ==
    /\ g[0] = [pending |-> p, out |-> o]
    /\ \A k \in 1..Len(p) : g[k] = FlushStep(g[k - 1])

\* The recursion in FlushUtf8 has its rounds.
LEMMA FlushUnfolds ==
    ASSUME NEW p \in Seq(Bytes), NEW o
    PROVE  \E g : Flushes(p, o, g) /\ FlushUtf8(p, o) = g[Len(p)]
<1> DEFINE Body(f, n) == [k \in 0..n |-> IF k = 0 THEN [pending |-> p, out |-> o] ELSE FlushStep(f[k - 1])]
           N == {n \in Nat : \E f : f = Body(f, n)}
<1>1. 0 \in N
  <2>1. [k \in 0..0 |-> [pending |-> p, out |-> o]] = Body([k \in 0..0 |-> [pending |-> p, out |-> o]], 0)
    OBVIOUS
  <2> QED
    BY <2>1
<1>2. ASSUME NEW n \in Nat, n \in N PROVE n + 1 \in N
  <2>1. PICK f : f = Body(f, n)
    BY <1>2
  <2>2. \A k \in 0..n : f[k] = IF k = 0 THEN [pending |-> p, out |-> o] ELSE FlushStep(f[k - 1])
    BY <2>1
  <2> DEFINE h == [k \in 0..n + 1 |-> IF k <= n THEN f[k] ELSE FlushStep(f[n])]
  <2>3. ASSUME NEW k \in 0..n + 1
        PROVE  h[k] = IF k = 0 THEN [pending |-> p, out |-> o] ELSE FlushStep(h[k - 1])
    <3>1. CASE k <= n
      <4>1. h[k] = f[k] /\ (k # 0 => h[k - 1] = f[k - 1])
        BY <3>1
      <4> QED
        BY <2>2, <3>1, <4>1
    <3>2. CASE k = n + 1
      BY <3>2
    <3> QED
      BY <3>1, <3>2
  <2>4. h = Body(h, n + 1)
    BY <2>3
  <2> HIDE DEF h, Body
  <2> QED
    BY <2>4
<1>3. Len(p) \in N
  <2> HIDE DEF N
  <2> QED
    BY <1>1, <1>2, Induction
<1>4. \E f : f = Body(f, Len(p))
  BY <1>3
<1> DEFINE F == CHOOSE f : f = Body(f, Len(p))
<1>5. F = Body(F, Len(p))
  BY <1>4
<1>6. FlushUtf8(p, o) = F[Len(p)]
  BY DEF FlushUtf8
<1> HIDE DEF F
<1>7. Flushes(p, o, F)
  BY <1>5 DEF Flushes
<1> QED
  BY <1>6, <1>7

\* What is left when no round can change anything more.
Settled(p) == CharLen(p) = 0 /\ (p = <<>> \/ Begins(p))

\* Whatever follows, the characters of all are those that are out and those
\* that begin in what is pending.
Streams(all, p, o) ==
    /\ p \in Seq(Bytes) /\ o \in Seq(Seq(Bytes))
    /\ \A t \in Seq(Bytes) : CharsIn(all \o t) = o \o CharsIn(p \o t)

\* What the steps have in common: the record they are applied to.
LEMMA FlushStepCases ==
    ASSUME NEW p, NEW o, NEW f, f = [pending |-> p, out |-> o]
    PROVE  /\ CharLen(p) > 0 =>
                FlushStep(f) = [pending |-> SubSeq(p, CharLen(p) + 1, Len(p)), out |-> Append(o, SubSeq(p, 1, CharLen(p)))]
           /\ ~(CharLen(p) > 0) /\ (p = <<>> \/ Begins(p)) => FlushStep(f) = f
           /\ ~(CharLen(p) > 0) /\ ~(p = <<>> \/ Begins(p)) => FlushStep(f) = [pending |-> Tail(p), out |-> o]
<1>1. f.pending = p /\ f.out = o
  OBVIOUS
<1>2. FlushStep(f) =
        IF CharLen(p) > 0 THEN [pending |-> SubSeq(p, CharLen(p) + 1, Len(p)), out |-> Append(o, SubSeq(p, 1, CharLen(p)))]
        ELSE IF p = <<>> \/ Begins(p) THEN f
        ELSE [pending |-> Tail(p), out |-> o]
  BY <1>1 DEF FlushStep
<1> QED
  BY ONLY <1>2

\* A round of flush_utf8 moves a character from pending to out or drops what
\* is none: nothing changes for what follows, and pending shortens unless it is
\* settled.
LEMMA FlushStepStreams ==
    ASSUME NEW all \in Seq(Bytes), NEW p, NEW o, Streams(all, p, o), NEW f, f = [pending |-> p, out |-> o]
    PROVE  \E q, r : /\ FlushStep(f) = [pending |-> q, out |-> r]
                     /\ Streams(all, q, r)
                     /\ \/ Settled(p) /\ q = p
                        \/ ~Settled(p) /\ Len(q) < Len(p)
<1>1. p \in Seq(Bytes) /\ o \in Seq(Seq(Bytes)) /\ Len(p) \in Nat
  BY DEF Streams
<1>2. PICK n \in 0..Len(p) : n = CharLen(p)
  BY <1>1, CharLenIs
<1>3. CASE n > 0
  <2>1. PICK c, q : /\ c \in Seq(Bytes) /\ q \in Seq(Bytes) /\ c = SubSeq(p, 1, n) /\ q = SubSeq(p, n + 1, Len(p))
                    /\ p = c \o q /\ Len(c) = n /\ Len(p) = n + Len(q)
    <3>1. p \in Seq(Bytes) /\ n \in 0..Len(p)
      BY <1>1
    <3>2. PICK c, q : c = SubSeq(p, 1, n) /\ q = SubSeq(p, n + 1, Len(p))
      OBVIOUS
    <3>4. /\ SubSeq(p, 1, n) \in Seq(Bytes) /\ SubSeq(p, n + 1, Len(p)) \in Seq(Bytes)
          /\ p = SubSeq(p, 1, n) \o SubSeq(p, n + 1, Len(p))
          /\ Len(SubSeq(p, 1, n)) = n /\ Len(p) = n + Len(SubSeq(p, n + 1, Len(p)))
      BY ONLY <3>1, Parts
    <3>3. c \in Seq(Bytes) /\ q \in Seq(Bytes) /\ p = c \o q /\ Len(c) = n /\ Len(p) = n + Len(q)
      BY ONLY <3>2, <3>4
    <3> QED
      BY ONLY <3>2, <3>3
  <2>2. PICK r : r = Append(o, c)
    OBVIOUS
  <2>3. <<c>> \in Seq(Seq(Bytes)) /\ r = o \o <<c>> /\ r \in Seq(Seq(Bytes))
    <3>1. c \in Seq(Bytes) /\ o \in Seq(Seq(Bytes))
      BY <1>1, <2>1
    <3>2. PICK B : B = Seq(Bytes)
      OBVIOUS
    <3>3. <<c>> \in Seq(B) /\ Append(o, c) = o \o <<c>> /\ Append(o, c) \in Seq(B)
      BY ONLY <3>1, <3>2
    <3> QED
      BY ONLY <2>2, <3>2, <3>3
  <2>4. ASSUME NEW t \in Seq(Bytes) PROVE CharsIn(all \o t) = r \o CharsIn(q \o t)
    <3>1. PICK u, w : u = p \o t /\ w = q \o t
      OBVIOUS
    <3>2. w \in Seq(Bytes) /\ u \in Seq(Bytes) /\ u = c \o w
      <4>1. c \in Seq(Bytes) /\ q \in Seq(Bytes) /\ p = c \o q /\ p \in Seq(Bytes)
        BY <1>1, <2>1
      <4>2. (c \o q) \o t = c \o (q \o t)
        BY ONLY <4>1, t \in Seq(Bytes), ConcatAssociative
      <4> QED
        BY ONLY <3>1, <4>1, <4>2, t \in Seq(Bytes)
    <3>3. CharLen(u) = n
      <4>1. CharAt(p, n) /\ n \in 1..Len(p)
        BY <1>1, <1>2, <1>3, CharLenIs
      <4>2. CharAt(u, n)
        BY <1>1, <3>1, <4>1, CharAtExtends
      <4> QED
        BY <3>2, <4>2, CharLenIs
    <3>4. SubSeq(u, 1, n) = c /\ SubSeq(u, n + 1, Len(u)) = w
      <4>1. c \in Seq(Bytes) /\ w \in Seq(Bytes)
        BY <2>1, <3>2
      <4>2. SubSeq(c \o w, 1, Len(c)) = c /\ SubSeq(c \o w, Len(c) + 1, Len(c \o w)) = w
        BY ONLY <4>1, Cut
      <4>3. Len(c) = n
        BY <2>1
      <4> QED
        BY ONLY <3>2, <4>2, <4>3
    <3>5. CharsIn(u) = <<c>> \o CharsIn(w)
      <4>1. CharsIn(u) = <<SubSeq(u, 1, n)>> \o CharsIn(SubSeq(u, n + 1, Len(u)))
        BY <1>3, <3>2, <3>3, CharsInChar
      <4> QED
        BY ONLY <3>4, <4>1
    <3>6. CharsIn(w) \in Seq(Seq(Bytes))
      BY <3>2, PiecesType
    <3>7. CharsIn(all \o t) = o \o (<<c>> \o CharsIn(w))
      <4>1. CharsIn(all \o t) = o \o CharsIn(p \o t)
        BY DEF Streams
      <4> QED
        BY ONLY <3>1, <3>5, <4>1
    <3>8. o \o (<<c>> \o CharsIn(w)) = (o \o <<c>>) \o CharsIn(w)
      <4>1. o \in Seq(Seq(Bytes)) /\ <<c>> \in Seq(Seq(Bytes))
        BY <1>1, <2>3
      <4>2. PICK d, x, S : d = <<c>> /\ x = CharsIn(w) /\ S = Seq(Bytes)
        OBVIOUS
      <4>4. o \in Seq(S) /\ d \in Seq(S) /\ x \in Seq(S)
        BY ONLY <3>6, <4>1, <4>2
      <4>3. (o \o d) \o x = o \o (d \o x)
        BY ONLY <4>4, ConcatAssociative
      <4> QED
        BY ONLY <4>2, <4>3
    <3> QED
      BY ONLY <2>3, <3>1, <3>7, <3>8
  <2>5. Len(q) < Len(p) /\ q \in Seq(Bytes)
    <3>0. q \in Seq(Bytes) /\ Len(p) = n + Len(q)
      BY <2>1
    <3>1. Len(q) \in Nat /\ Len(p) = n + Len(q) /\ q \in Seq(Bytes)
      BY ONLY <3>0
    <3> QED
      BY ONLY <3>1, <1>3, n \in 0..Len(p)
  <2>6. ~Settled(p)
    BY <1>2, <1>3 DEF Settled
  <2>7. Streams(all, q, r)
    BY <2>3, <2>4, <2>5 DEF Streams
  <2>8. FlushStep(f) = [pending |-> q, out |-> r]
    <3>1. CharLen(p) > 0
      BY <1>2, <1>3
    <3>2. FlushStep(f) = [pending |-> SubSeq(p, CharLen(p) + 1, Len(p)), out |-> Append(o, SubSeq(p, 1, CharLen(p)))]
      BY <3>1, FlushStepCases
    <3>3. q = SubSeq(p, n + 1, Len(p)) /\ c = SubSeq(p, 1, n)
      BY <2>1
    <3> QED
      BY ONLY <1>2, <2>2, <3>2, <3>3
  <2> QED
    BY ONLY <2>5, <2>6, <2>7, <2>8
<1>4. CASE n = 0 /\ (p = <<>> \/ Begins(p))
  <2>1. ~(CharLen(p) > 0) /\ (p = <<>> \/ Begins(p)) /\ Settled(p)
    BY <1>2, <1>4 DEF Settled
  <2>2. FlushStep(f) = f
    BY <2>1, FlushStepCases
  <2> QED
    BY <2>1, <2>2
<1>5. CASE n = 0 /\ p # <<>> /\ ~Begins(p)
  <2>1. ~(CharLen(p) > 0) /\ ~(p = <<>> \/ Begins(p)) /\ ~Settled(p)
    BY <1>2, <1>5 DEF Settled
  <2>2. FlushStep(f) = [pending |-> Tail(p), out |-> o]
    BY <2>1, FlushStepCases
  <2>3. Tail(p) \in Seq(Bytes) /\ Len(Tail(p)) < Len(p)
    BY <1>1, <1>5
  <2>4. ASSUME NEW t \in Seq(Bytes) PROVE CharsIn(all \o t) = o \o CharsIn(Tail(p) \o t)
    <3>1. CharsIn(p \o t) = CharsIn(Tail(p) \o t)
      BY <1>1, <1>2, <1>5, CharsInInvalid
    <3>2. CharsIn(all \o t) = o \o CharsIn(p \o t)
      BY DEF Streams
    <3> QED
      BY ONLY <3>1, <3>2
  <2>5. Streams(all, Tail(p), o)
    BY <1>1, <2>3, <2>4 DEF Streams
  <2> QED
    BY ONLY <2>1, <2>2, <2>3, <2>5
<1> QED
  BY ONLY <1>3, <1>4, <1>5, n \in 0..Len(p), Len(p) \in Nat, <1>1

\* flush_utf8 leaves nothing that could go out, and keeps the characters.
LEMMA FlushStreams ==
    ASSUME NEW all \in Seq(Bytes), NEW p, NEW o, Streams(all, p, o), NEW f, f = FlushUtf8(p, o)
    PROVE  Streams(all, f.pending, f.out) /\ Settled(f.pending)
<1>1. p \in Seq(Bytes) /\ Len(p) \in Nat
  BY DEF Streams
<1>2. PICK g : Flushes(p, o, g) /\ f = g[Len(p)]
  BY <1>1, FlushUnfolds
<1> DEFINE R(k) == \E q, r : /\ g[k] = [pending |-> q, out |-> r]
                             /\ Streams(all, q, r)
                             /\ Settled(q) \/ Len(q) <= Len(p) - k
           N == {k \in Nat : k <= Len(p) => R(k)}
<1>3. 0 \in N
  <2>1. R(0)
    BY <1>1, <1>2 DEF Flushes
  <2> QED
    BY <2>1
<1> HIDE DEF R
<1>4. ASSUME NEW k \in Nat, k \in N PROVE k + 1 \in N
  <2> SUFFICES ASSUME k + 1 <= Len(p) PROVE R(k + 1)
    OBVIOUS
  <2>1. R(k)
    BY <1>1, <1>4
  <2>2. g[k + 1] = FlushStep(g[k])
    <3>1. k + 1 \in 1..Len(p) /\ (k + 1) - 1 = k
      BY <1>1
    <3> QED
      BY <1>2, <3>1 DEF Flushes
  <2>3. PICK a, b : g[k] = [pending |-> a, out |-> b] /\ Streams(all, a, b) /\ (Settled(a) \/ Len(a) <= Len(p) - k)
    BY <2>1 DEF R
  <2>4. PICK h : h = g[k]
    OBVIOUS
  <2>5. \E q, r : /\ FlushStep(h) = [pending |-> q, out |-> r]
                  /\ Streams(all, q, r)
                  /\ (Settled(a) /\ q = a) \/ (~Settled(a) /\ Len(q) < Len(a))
    BY <2>3, <2>4, FlushStepStreams
  <2>6. PICK q, r : /\ FlushStep(h) = [pending |-> q, out |-> r]
                    /\ Streams(all, q, r)
                    /\ (Settled(a) /\ q = a) \/ (~Settled(a) /\ Len(q) < Len(a))
    BY ONLY <2>5
  <2>7. Len(q) \in Nat /\ Len(a) \in Nat
    <3>1. q \in Seq(Bytes) /\ a \in Seq(Bytes)
      BY ONLY <2>3, <2>6 DEF Streams
    <3> QED
      BY ONLY <3>1
  <2>8. Settled(q) \/ Len(q) <= Len(p) - (k + 1)
    BY ONLY <1>1, <2>3, <2>6, <2>7, k \in Nat
  <2> QED
    BY ONLY <2>2, <2>4, <2>6, <2>8 DEF R
<1>5. R(Len(p))
  <2>1. Nat \subseteq N
    <3> HIDE DEF N
    <3> QED
      BY <1>3, <1>4, Induction
  <2> QED
    BY <1>1, <2>1
<1>6. PICK q, r : /\ f = [pending |-> q, out |-> r] /\ Streams(all, q, r)
                  /\ Settled(q) \/ Len(q) <= Len(p) - Len(p)
  BY <1>2, <1>5 DEF R
<1>7. Settled(q)
  <2>1. q \in Seq(Bytes) /\ (Len(q) <= 0 => q = <<>>)
    <3>1. q \in Seq(Bytes)
      BY <1>6 DEF Streams
    <3> QED
      BY <3>1
  <2>2. Settled(<<>>)
    <3>0. PICK e : e = <<>>
      OBVIOUS
    <3>1. e \in Seq(Bytes) /\ e = <<>> /\ Len(e) = 0
      BY ONLY <3>0
    <3>2. CharLen(e) \in 0..Len(e)
      BY <3>1, CharLenIs
    <3>3. CharLen(e) = 0
      BY ONLY <3>1, <3>2
    <3> QED
      BY <3>1, <3>3 DEF Settled
  <2> QED
    BY <1>1, <1>6, <2>1, <2>2
<1> QED
  BY <1>6, <1>7

-----------------------------------------------------------------------------
(* Cutting a text at a separator *)

\* g holds the pieces after every character of s.
Splits(s, sep, g) ==
    /\ g[0] = <<<<>>>>
    /\ \A k \in 1..Len(s) : g[k] = AddChar(g[k - 1], s[k], sep)

\* The recursion in Split has its steps.
LEMMA SplitUnfolds ==
    ASSUME NEW s, Len(s) \in Nat, NEW sep
    PROVE  \E g : Splits(s, sep, g) /\ Split(s, sep) = g[Len(s)]
<1> DEFINE Body(f, n) == [k \in 0..n |-> IF k = 0 THEN <<<<>>>> ELSE AddChar(f[k - 1], s[k], sep)]
           N == {n \in Nat : \E f : f = Body(f, n)}
<1>1. 0 \in N
  <2>1. [k \in 0..0 |-> <<<<>>>>] = Body([k \in 0..0 |-> <<<<>>>>], 0)
    OBVIOUS
  <2> QED
    BY <2>1
<1>2. ASSUME NEW n \in Nat, n \in N PROVE n + 1 \in N
  <2>1. PICK f : f = Body(f, n)
    BY <1>2
  <2>2. \A k \in 0..n : f[k] = IF k = 0 THEN <<<<>>>> ELSE AddChar(f[k - 1], s[k], sep)
    BY <2>1
  <2> DEFINE h == [k \in 0..n + 1 |-> IF k <= n THEN f[k] ELSE AddChar(f[n], s[n + 1], sep)]
  <2>3. ASSUME NEW k \in 0..n + 1
        PROVE  h[k] = IF k = 0 THEN <<<<>>>> ELSE AddChar(h[k - 1], s[k], sep)
    <3>1. CASE k <= n
      <4>1. h[k] = f[k] /\ (k # 0 => h[k - 1] = f[k - 1])
        BY <3>1
      <4> QED
        BY <2>2, <3>1, <4>1
    <3>2. CASE k = n + 1
      BY <3>2
    <3> QED
      BY <3>1, <3>2
  <2>4. h = Body(h, n + 1)
    BY <2>3
  <2> HIDE DEF h, Body
  <2> QED
    BY <2>4
<1>3. Len(s) \in N
  <2> HIDE DEF N
  <2> QED
    BY <1>1, <1>2, Induction
<1>4. \E f : f = Body(f, Len(s))
  BY <1>3
<1> DEFINE F == CHOOSE f : f = Body(f, Len(s))
<1>5. F = Body(F, Len(s))
  BY <1>4
<1>6. Split(s, sep) = F[Len(s)]
  BY DEF Split
<1> HIDE DEF F
<1>7. Splits(s, sep, F)
  BY <1>5 DEF Splits
<1> QED
  BY <1>6, <1>7

\* The steps determine the pieces.
LEMMA SplitSteps ==
    ASSUME NEW s, Len(s) \in Nat, NEW sep, NEW h, Splits(s, sep, h)
    PROVE  Split(s, sep) = h[Len(s)]
<1>1. PICK g : Splits(s, sep, g) /\ Split(s, sep) = g[Len(s)]
  BY SplitUnfolds
<1> DEFINE K == {i \in Nat : i <= Len(s) => g[i] = h[i]}
<1>2. 0 \in K
  BY <1>1 DEF Splits
<1>3. ASSUME NEW n \in Nat, n \in K PROVE n + 1 \in K
  <2> SUFFICES ASSUME n + 1 <= Len(s) PROVE g[n + 1] = h[n + 1]
    OBVIOUS
  <2>1. n + 1 \in 1..Len(s) /\ n = (n + 1) - 1 /\ g[n] = h[n]
    BY <1>3
  <2>2. g[n + 1] = AddChar(g[n], s[n + 1], sep) /\ h[n + 1] = AddChar(h[n], s[n + 1], sep)
    BY <1>1, <2>1 DEF Splits
  <2> QED
    BY <2>1, <2>2
<1>4. Nat \subseteq K
  <2> HIDE DEF K
  <2> QED
    BY <1>2, <1>3, Induction
<1> QED
  BY <1>1, <1>4

\* Nothing is one empty piece.
LEMMA SplitEmpty == ASSUME NEW sep PROVE Split(<<>>, sep) = <<<<>>>>
<1>1. Len(<<>>) = 0
  OBVIOUS
<1>2. PICK g : Splits(<<>>, sep, g) /\ Split(<<>>, sep) = g[0]
  BY <1>1, SplitUnfolds
<1> QED
  BY <1>2 DEF Splits

\* One character more.
LEMMA SplitAppend ==
    ASSUME NEW C, NEW s \in Seq(C), NEW c \in C, NEW sep
    PROVE  Split(Append(s, c), sep) = AddChar(Split(s, sep), c, sep)
<1>1. PICK t : t = Append(s, c)
  OBVIOUS
<1>2. t \in Seq(C) /\ Len(s) \in Nat /\ Len(t) = Len(s) + 1 /\ (\A i \in 1..Len(s) : t[i] = s[i]) /\ t[Len(s) + 1] = c
  BY <1>1
<1>3. PICK g : Splits(t, sep, g) /\ Split(t, sep) = g[Len(t)]
  BY <1>2, SplitUnfolds
<1>4. Splits(s, sep, g)
  <2>1. ASSUME NEW k \in 1..Len(s) PROVE g[k] = AddChar(g[k - 1], s[k], sep)
    <3>1. k \in 1..Len(t) /\ t[k] = s[k]
      BY <1>2
    <3> QED
      BY <1>3, <3>1 DEF Splits
  <2> QED
    BY <1>3, <2>1 DEF Splits
<1>5. Split(s, sep) = g[Len(s)]
  BY <1>2, <1>4, SplitSteps
<1>6. g[Len(t)] = AddChar(g[Len(s)], c, sep)
  <2>1. Len(t) \in 1..Len(t) /\ Len(t) - 1 = Len(s)
    BY <1>2
  <2> QED
    BY <1>2, <1>3, <2>1 DEF Splits
<1> QED
  BY <1>1, <1>3, <1>5, <1>6

\* A sequence that is not empty, its front and its last element.
LEMMA FrontLast ==
    ASSUME NEW S, NEW f \in Seq(S), NEW x \in S
    PROVE  Front(Append(f, x)) = f /\ Last(Append(f, x)) = x
<1>1. PICK t : t = Append(f, x)
  OBVIOUS
<1>2. t \in Seq(S) /\ Len(f) \in Nat /\ Len(t) = Len(f) + 1 /\ (\A i \in 1..Len(f) : t[i] = f[i]) /\ t[Len(f) + 1] = x
  BY <1>1
<1>3. SubSeq(t, 1, Len(t) - 1) = f
  <2>1. PICK u : u = SubSeq(t, 1, Len(t) - 1)
    OBVIOUS
  <2>2. u \in Seq(S) /\ Len(u) = Len(f) /\ \A i \in 1..Len(u) : u[i] = t[i]
    BY ONLY <1>2, <2>1
  <2>3. \A i \in 1..Len(u) : u[i] = f[i]
    BY <1>2, <2>2
  <2> QED
    BY <2>1, <2>2, <2>3, SeqEqual
<1>4. Front(t) = f
  BY <1>3 DEF Front
<1>5. Last(t) = x
  BY <1>2 DEF Last
<1> QED
  BY <1>1, <1>4, <1>5

\* The pieces after one character more: a separator begins a piece, any other
\* character goes to the last one.
LEMMA SplitMore ==
    ASSUME NEW C, NEW s \in Seq(C), NEW c \in C, NEW sep, NEW f \in Seq(Seq(C)), NEW l \in Seq(C),
           Split(s, sep) = Append(f, l), NEW e, e = <<>>
    PROVE  /\ c = sep => Split(Append(s, c), sep) = Append(Append(f, l), e)
           /\ c # sep => Split(Append(s, c), sep) = Append(f, Append(l, c))
<1>1. PICK S : S = Seq(C)
  OBVIOUS
<1>2. f \in Seq(S) /\ l \in S
  BY <1>1
<1>3. Front(Append(f, l)) = f /\ Last(Append(f, l)) = l
  BY ONLY <1>2, FrontLast
<1>4. Split(Append(s, c), sep) = AddChar(Append(f, l), c, sep)
  BY SplitAppend
<1> QED
  BY <1>3, <1>4 DEF AddChar

\* There is a last piece.
LEMMA SplitType ==
    ASSUME NEW C, NEW s \in Seq(C), NEW sep
    PROVE  \E f \in Seq(Seq(C)), l \in Seq(C) : Split(s, sep) = Append(f, l)
<1> DEFINE P(t) == \E f \in Seq(Seq(C)), l \in Seq(C) : Split(t, sep) = Append(f, l)
           T == {t \in Seq(C) : P(t)}
<1>1. <<>> \in T
  <2>1. PICK e : e = <<>>
    OBVIOUS
  <2>2. e \in Seq(Seq(C)) /\ e \in Seq(C) /\ Append(e, e) = <<e>>
    BY ONLY <2>1
  <2>3. Split(e, sep) = Append(e, e)
    BY <2>1, <2>2, SplitEmpty
  <2>4. P(e)
    BY <2>2, <2>3
  <2> HIDE DEF P
  <2> QED
    BY <2>1, <2>2, <2>4
<1>2. ASSUME NEW t \in Seq(C), NEW c \in C, t \in T PROVE Append(t, c) \in T
  <2>1. PICK f \in Seq(Seq(C)), l \in Seq(C) : Split(t, sep) = Append(f, l)
    BY <1>2
  <2>2. Append(t, c) \in Seq(C) /\ Append(l, c) \in Seq(C) /\ <<>> \in Seq(C)
    OBVIOUS
  <2>3. Append(f, l) \in Seq(Seq(C))
    <3>1. PICK S : S = Seq(C)
      OBVIOUS
    <3>2. f \in Seq(S) /\ l \in S
      BY <3>1
    <3> QED
      BY <3>1, <3>2
  <2>4. P(Append(t, c))
    <3> PICK e : e = <<>>
      OBVIOUS
    <3>0. /\ c = sep => Split(Append(t, c), sep) = Append(Append(f, l), e)
          /\ c # sep => Split(Append(t, c), sep) = Append(f, Append(l, c))
      <4>1. t \in Seq(C) /\ c \in C /\ f \in Seq(Seq(C)) /\ l \in Seq(C) /\ Split(t, sep) = Append(f, l)
        BY <2>1
      <4> QED
        BY <4>1, SplitMore
    <3>1. CASE c = sep
      BY <2>2, <2>3, <3>0, <3>1
    <3>2. CASE c # sep
      BY <2>2, <3>0, <3>2
    <3> QED
      BY <3>1, <3>2
  <2> HIDE DEF P
  <2> QED
    BY <2>2, <2>4
<1>3. Seq(C) \subseteq T
  <2> HIDE DEF T
  <2> QED
    BY <1>1, <1>2, Appending
<1> QED
  BY <1>3

-----------------------------------------------------------------------------
(* What can be seen of a text *)

\* What can be seen of one character.
Glyph(c) == IF c \in {Space, NL} THEN <<>> ELSE <<c>>

\* The characters of s one by one.
Glyphs(s) == [i \in DOMAIN s |-> Glyph(s[i])]

LEMMA GlyphsType ==
    ASSUME NEW C, NEW s \in Seq(C)
    PROVE  /\ Glyphs(s) \in Seq(Seq(C)) /\ Len(Glyphs(s)) = Len(s)
           /\ \A i \in 1..Len(s) : Glyphs(s)[i] = Glyph(s[i])
           /\ Visible(s) = FlattenSeq(Glyphs(s)) /\ Visible(s) \in Seq(C)
<1>1. PICK S : S = Seq(C)
  OBVIOUS
<1>2. \A i \in 1..Len(s) : Glyph(s[i]) \in S
  BY <1>1 DEF Glyph
<1>3. DOMAIN s = 1..Len(s) /\ Len(s) \in Nat
  OBVIOUS
<1>4. PICK g : g = [i \in 1..Len(s) |-> Glyph(s[i])]
  OBVIOUS
<1>5. g \in Seq(S) /\ Len(g) = Len(s) /\ \A i \in 1..Len(s) : g[i] = Glyph(s[i])
  BY ONLY <1>2, <1>3, <1>4
<1>6. Glyphs(s) = g
  BY <1>3, <1>4 DEF Glyphs
<1>7. Visible(s) = FlattenSeq(Glyphs(s))
  BY DEF Visible, Glyphs, Glyph
<1>8. FlattenSeq(Glyphs(s)) \in Seq(C)
  BY <1>1, <1>5, <1>6, FlattenAppend, <<>> \in Seq(C)
<1> QED
  BY <1>1, <1>5, <1>6, <1>7, <1>8

LEMMA VisibleEmpty == Visible(<<>>) = <<>>
<1>1. PICK C : C = {0}
  OBVIOUS
<1>2. PICK e : e = <<>>
  OBVIOUS
<1>3. e \in Seq(C) /\ Len(e) = 0
  BY ONLY <1>2
<1>4. Glyphs(e) \in Seq(Seq(C)) /\ Len(Glyphs(e)) = 0 /\ Visible(e) = FlattenSeq(Glyphs(e))
  BY <1>3, GlyphsType
<1>5. Glyphs(e) = <<>>
  <2>1. PICK S, g : S = Seq(C) /\ g = Glyphs(e)
    OBVIOUS
  <2>2. g \in Seq(S) /\ Len(g) = 0
    BY <1>4, <2>1
  <2>3. g = <<>>
    BY ONLY <2>2
  <2> QED
    BY <2>1, <2>3
<1> QED
  BY <1>2, <1>4, <1>5, FlattenEmpty

\* What can be seen of two texts one after the other.
LEMMA VisibleConcat ==
    ASSUME NEW C, NEW a \in Seq(C), NEW b \in Seq(C)
    PROVE  Visible(a \o b) = Visible(a) \o Visible(b)
<1>1. PICK t : t = a \o b
  OBVIOUS
<1>2. PICK S : S = Seq(C)
  OBVIOUS
<1>3. /\ t \in Seq(C) /\ Len(t) = Len(a) + Len(b) /\ Len(a) \in Nat /\ Len(b) \in Nat
      /\ \A i \in 1..Len(a) : t[i] = a[i]
      /\ \A i \in 1..Len(b) : t[Len(a) + i] = b[i]
  BY <1>1
<1>4. PICK ga, gb, gt : ga = Glyphs(a) /\ gb = Glyphs(b) /\ gt = Glyphs(t)
  OBVIOUS
<1>5. ga \in Seq(S) /\ Len(ga) = Len(a) /\ \A i \in 1..Len(a) : ga[i] = Glyph(a[i])
  BY <1>2, <1>4, GlyphsType
<1>6. gb \in Seq(S) /\ Len(gb) = Len(b) /\ \A i \in 1..Len(b) : gb[i] = Glyph(b[i])
  BY <1>2, <1>4, GlyphsType
<1>7. gt \in Seq(S) /\ Len(gt) = Len(t) /\ \A i \in 1..Len(t) : gt[i] = Glyph(t[i])
  BY <1>2, <1>3, <1>4, GlyphsType
<1>8. gt = ga \o gb
  <2>1. PICK u : u = ga \o gb
    OBVIOUS
  <2>2. /\ u \in Seq(S) /\ Len(u) = Len(ga) + Len(gb)
        /\ \A i \in 1..Len(ga) : u[i] = ga[i]
        /\ \A i \in 1..Len(gb) : u[Len(ga) + i] = gb[i]
    <3>1. ga \in Seq(S) /\ gb \in Seq(S)
      BY <1>5, <1>6
    <3> QED
      BY ONLY <2>1, <3>1, Joined
  <2>3. ASSUME NEW i \in 1..Len(gt) PROVE gt[i] = u[i]
    <3>1. CASE i <= Len(a)
      <4>1. i \in 1..Len(a) /\ i \in 1..Len(t)
        BY <1>3, <1>7, <3>1
      <4> QED
        BY <1>3, <1>5, <1>7, <2>2, <4>1
    <3>2. CASE i > Len(a)
      <4>1. PICK j \in 1..Len(b) : i = Len(a) + j
        <5>1. i - Len(a) \in 1..Len(b) /\ i = Len(a) + (i - Len(a))
          BY <1>3, <1>7, <3>2
        <5> QED
          BY <5>1
      <4>2. gt[i] = Glyph(b[j])
        BY <1>3, <1>7, <4>1
      <4>3. u[i] = gb[j]
        BY <1>5, <1>6, <2>2, <4>1
      <4> QED
        BY <1>6, <4>2, <4>3
    <3> QED
      BY <1>3, <1>7, <3>1, <3>2
  <2>4. Len(u) = Len(gt)
    BY <1>3, <1>5, <1>6, <1>7, <2>2
  <2>5. gt = u
    BY <1>7, <2>2, <2>3, <2>4, SeqEqual
  <2> QED
    BY <2>1, <2>5
<1>9. FlattenSeq(gt) = FlattenSeq(ga) \o FlattenSeq(gb)
  <2>1. ga \in Seq(Seq(C)) /\ gb \in Seq(Seq(C))
    BY <1>2, <1>5, <1>6
  <2> QED
    BY <1>8, <2>1, FlattenConcat
<1>10. Visible(a) = FlattenSeq(ga) /\ Visible(b) = FlattenSeq(gb) /\ Visible(t) = FlattenSeq(gt)
  BY <1>3, <1>4, GlyphsType
<1> QED
  BY <1>1, <1>9, <1>10

\* What can be seen of some lines.
Seen(lines) == Visible(FlattenSeq(lines))

LEMMA SeenType ==
    ASSUME NEW C, NEW s \in Seq(Seq(C))
    PROVE  FlattenSeq(s) \in Seq(C) /\ Seen(s) \in Seq(C)
<1>1. FlattenSeq(s) \in Seq(C)
  BY FlattenAppend, <<>> \in Seq(C)
<1> QED
  BY <1>1, GlyphsType DEF Seen

LEMMA SeenConcat ==
    ASSUME NEW C, NEW s \in Seq(Seq(C)), NEW t \in Seq(Seq(C))
    PROVE  Seen(s \o t) = Seen(s) \o Seen(t)
<1>1. FlattenSeq(s) \in Seq(C) /\ FlattenSeq(t) \in Seq(C)
  BY SeenType
<1>2. FlattenSeq(s \o t) = FlattenSeq(s) \o FlattenSeq(t)
  BY FlattenConcat
<1> QED
  BY <1>1, <1>2, VisibleConcat DEF Seen

LEMMA SeenAppend ==
    ASSUME NEW C, NEW s \in Seq(Seq(C)), NEW x \in Seq(C)
    PROVE  Seen(Append(s, x)) = Seen(s) \o Visible(x)
<1>1. FlattenSeq(s) \in Seq(C)
  BY SeenType
<1>2. FlattenSeq(Append(s, x)) = FlattenSeq(s) \o x
  BY FlattenAppend
<1> QED
  BY <1>1, <1>2, VisibleConcat DEF Seen

LEMMA SeenEmpty == Seen(<<>>) = <<>>
BY FlattenEmpty, VisibleEmpty DEF Seen

\* One character more.
LEMMA VisibleAppend ==
    ASSUME NEW C, NEW s \in Seq(C), NEW c \in C
    PROVE  Visible(Append(s, c)) = Visible(s) \o Glyph(c)
<1>1. PICK o : o = <<c>>
  OBVIOUS
<1>2. o \in Seq(C) /\ Len(o) = 1 /\ o[1] = c /\ Append(s, c) = s \o o
  BY <1>1
<1>3. PICK g, S : g = Glyphs(o) /\ S = Seq(C)
  OBVIOUS
<1>4. g \in Seq(S) /\ Len(g) = 1 /\ g[1] = Glyph(c) /\ Visible(o) = FlattenSeq(g)
  BY <1>2, <1>3, GlyphsType
<1>5. Glyph(c) \in S
  BY <1>3 DEF Glyph
<1>6. g = <<Glyph(c)>>
  BY ONLY <1>4, <1>5
<1>7. Visible(o) = Glyph(c)
  BY <1>3, <1>4, <1>5, <1>6, FlattenOne
<1> QED
  BY <1>2, <1>7, VisibleConcat

-----------------------------------------------------------------------------
(* Wrapping *)

\* Three texts one after the other.
LEMMA Regroup ==
    ASSUME NEW C, NEW a \in Seq(C), NEW b \in Seq(C), NEW c \in Seq(C)
    PROVE  (a \o b) \o c = a \o (b \o c)
BY ConcatAssociative

\* Cutting a text into pieces loses only separators.
LEMMA SplitKeeps ==
    ASSUME NEW C, NEW s \in Seq(C), NEW sep \in {Space, NL}
    PROVE  Seen(Split(s, sep)) = Visible(s)
<1> DEFINE T == {t \in Seq(C) : Seen(Split(t, sep)) = Visible(t)}
<1>1. <<>> \in T
  <2>1. PICK e : e = <<>>
    OBVIOUS
  <2>2. e \in Seq(C) /\ <<e>> = Append(e, e)
    BY ONLY <2>1
  <2>3. FlattenSeq(<<e>>) = e
    BY <2>2, FlattenOne
  <2>4. Split(e, sep) = <<e>>
    BY <2>1, SplitEmpty
  <2> QED
    BY <2>1, <2>2, <2>3, <2>4 DEF Seen
<1>2. ASSUME NEW t \in Seq(C), NEW c \in C, t \in T PROVE Append(t, c) \in T
  <2>1. PICK f \in Seq(Seq(C)), l \in Seq(C) : Split(t, sep) = Append(f, l)
    BY SplitType
  <2>2. PICK e : e = <<>>
    OBVIOUS
  <2>3. e \in Seq(C) /\ Append(l, c) \in Seq(C) /\ Append(t, c) \in Seq(C)
    BY <2>2
  <2>4. Append(f, l) \in Seq(Seq(C))
    <3>1. PICK S : S = Seq(C)
      OBVIOUS
    <3>2. f \in Seq(S) /\ l \in S
      BY <3>1
    <3> QED
      BY <3>1, <3>2
  <2>5. PICK v : v = Seen(f)
    OBVIOUS
  <2>6. v \in Seq(C) /\ Visible(l) \in Seq(C) /\ Visible(t) \in Seq(C)
    BY <2>5, SeenType, GlyphsType
  <2>7. Visible(t) = v \o Visible(l)
    BY <1>2, <2>1, <2>5, SeenAppend
  <2>8. Visible(Append(t, c)) = Visible(t) \o Glyph(c)
    BY VisibleAppend
  <2>9. /\ c = sep => Split(Append(t, c), sep) = Append(Append(f, l), e)
        /\ c # sep => Split(Append(t, c), sep) = Append(f, Append(l, c))
    BY <2>1, <2>2, SplitMore, SMTT(30)
  <2>10. CASE c = sep
    <3>1. Seen(Append(Append(f, l), e)) = Visible(t) \o Visible(e)
      <4>1. Seen(Append(Append(f, l), e)) = Seen(Append(f, l)) \o Visible(e)
        BY <2>3, <2>4, SeenAppend
      <4> QED
        BY <1>2, <2>1, <4>1
    <3>2. Visible(e) = <<>> /\ Glyph(c) = <<>>
      BY <2>2, <2>10, VisibleEmpty DEF Glyph
    <3> QED
      BY <2>3, <2>8, <2>9, <2>10, <3>1, <3>2
  <2>11. CASE c # sep
    <3>1. Seen(Append(f, Append(l, c))) = v \o Visible(Append(l, c))
      BY <2>3, <2>5, SeenAppend
    <3>2. Visible(Append(l, c)) = Visible(l) \o Glyph(c)
      BY VisibleAppend
    <3>3. Glyph(c) \in Seq(C)
      BY DEF Glyph
    <3>4. v \o (Visible(l) \o Glyph(c)) = (v \o Visible(l)) \o Glyph(c)
      <4>1. PICK x, y : x = Visible(l) /\ y = Glyph(c)
        OBVIOUS
      <4>2. x \in Seq(C) /\ y \in Seq(C) /\ v \in Seq(C)
        BY <2>6, <3>3, <4>1
      <4>3. (v \o x) \o y = v \o (x \o y)
        BY ONLY <4>2, Regroup, SMTT(60)
      <4> QED
        BY <4>1, <4>3
    <3> QED
      BY <2>3, <2>7, <2>8, <2>9, <2>11, <3>1, <3>2, <3>4
  <2> QED
    BY <2>10, <2>11
<1>3. Seq(C) \subseteq T
  <2> HIDE DEF T
  <2> QED
    BY <1>1, <1>2, Appending
<1> QED
  BY <1>3

\* The pieces that push_word cuts off a word.
Pushed(word, n) == [k \in 1..n |-> SubSeq(word, (k - 1) * Cols + 1, k * Cols)]

\* How many there are: all but the last, which is not empty.
Full(word) == IF word = <<>> THEN 0 ELSE (Len(word) - 1) \div Cols

LEMMA FullIs ==
    ASSUME NEW C, NEW word \in Seq(C)
    PROVE  /\ Full(word) \in Nat
           /\ Full(word) * Cols <= Len(word) /\ Len(word) <= Full(word) * Cols + Cols
           /\ word # <<>> => Full(word) * Cols < Len(word)
<1>1. Cols \in Nat /\ Cols >= 8
  BY TextAssumption
<1>2. CASE word = <<>>
  <2>1. Full(word) = 0 /\ Len(word) = 0
    BY <1>2 DEF Full
  <2> QED
    BY <1>1, <1>2, <2>1
<1>3. CASE word # <<>>
  <2>1. PICK m \in Nat : m = Len(word) - 1
    <3>1. Len(word) \in Nat /\ Len(word) >= 1
      BY <1>3
    <3>2. Len(word) - 1 \in Nat
      BY <3>1
    <3> QED
      BY <3>2
  <2>2. PICK d \in Int : d = m \div Cols
    BY <1>1, <2>1
  <2>3. d \in Nat /\ d * Cols <= m /\ m < d * Cols + Cols
    <3>1. d * Cols <= m /\ m < d * Cols + Cols
      BY ONLY <1>1, <2>2, m \in Nat, d \in Int
    <3>2. d >= 0
      <4> SUFFICES ASSUME d <= -1 PROVE FALSE
        OBVIOUS
      <4>1. d * Cols <= (-1) * Cols
        BY <1>1
      <4> QED
        BY <1>1, <3>1, <4>1
    <3> QED
      BY <3>1, <3>2
  <2>4. Full(word) = d
    BY <1>3, <2>1, <2>2 DEF Full
  <2>5. d * Cols \in Nat /\ Len(word) \in Nat
    BY <1>1, <2>3
  <2> QED
    BY <1>1, <2>1, <2>3, <2>4, <2>5
<1> QED
  BY <1>2, <1>3

\* One piece after the other they are the beginning of the word.
LEMMA PushedIs ==
    ASSUME NEW C, NEW word \in Seq(C), NEW n \in Nat, n * Cols <= Len(word)
    PROVE  /\ Pushed(word, n) \in Seq(Seq(C)) /\ Len(Pushed(word, n)) = n
           /\ \A k \in 1..n : Pushed(word, n)[k] \in Seq(C) /\ Len(Pushed(word, n)[k]) = Cols
           /\ FlattenSeq(Pushed(word, n)) = SubSeq(word, 1, n * Cols)
<1>1. Cols \in Nat /\ Cols >= 8 /\ Len(word) \in Nat
  BY TextAssumption
<1> PICK S : S = Seq(C)
  OBVIOUS
<1>2. ASSUME NEW k \in Nat, k >= 1, k * Cols <= Len(word), NEW q, q = SubSeq(word, (k - 1) * Cols + 1, k * Cols)
      PROVE  q \in S /\ Len(q) = Cols
  <2>1. PICK a \in Nat, b \in Nat : a = (k - 1) * Cols + 1 /\ b = k * Cols /\ b = a - 1 + Cols /\ a >= 1
    <3>1. (k - 1) * Cols \in Nat /\ k * Cols \in Nat /\ k * Cols = (k - 1) * Cols + Cols
      <4>1. k - 1 \in Nat
        BY <1>2
      <4>2. k * Cols = (k - 1) * Cols + Cols
        BY <1>1, <4>1
      <4>3. (k - 1) * Cols \in Nat
        BY <1>1, <4>1
      <4> QED
        BY <1>1, <4>2, <4>3
    <3> QED
      BY <1>1, <3>1
  <2>2. q = SubSeq(word, a, b) /\ b <= Len(word)
    BY <1>2, <2>1
  <2> QED
    BY <1>1, <2>1, <2>2
<1> DEFINE N == {j \in Nat : j * Cols <= Len(word) =>
                    /\ Pushed(word, j) \in Seq(S) /\ Len(Pushed(word, j)) = j
                    /\ FlattenSeq(Pushed(word, j)) = SubSeq(word, 1, j * Cols)}
<1>3. 0 \in N
  <2>1. Pushed(word, 0) = <<>>
    BY DEF Pushed
  <2>2. <<>> \in Seq(S) /\ Len(<<>>) = 0 /\ 0 * Cols = 0 /\ SubSeq(word, 1, 0) = <<>>
    BY <1>1
  <2> QED
    BY <2>1, <2>2, FlattenEmpty
<1>4. ASSUME NEW j \in Nat, j \in N PROVE j + 1 \in N
  <2> SUFFICES ASSUME (j + 1) * Cols <= Len(word)
               PROVE  /\ Pushed(word, j + 1) \in Seq(S) /\ Len(Pushed(word, j + 1)) = j + 1
                      /\ FlattenSeq(Pushed(word, j + 1)) = SubSeq(word, 1, (j + 1) * Cols)
    OBVIOUS
  <2>1. PICK a \in Nat, b \in Nat : a = j * Cols /\ b = (j + 1) * Cols /\ b = a + Cols
    <3>1. j * Cols \in Nat /\ (j + 1) * Cols = j * Cols + Cols
      BY <1>1
    <3> QED
      BY <1>1, <3>1
  <2>2. a <= Len(word) /\ b <= Len(word)
    BY <1>1, <2>1
  <2>3. PICK p, q : p = Pushed(word, j) /\ q = SubSeq(word, a + 1, b)
    OBVIOUS
  <2>4. p \in Seq(S) /\ Len(p) = j /\ FlattenSeq(p) = SubSeq(word, 1, a)
    BY <1>4, <2>1, <2>2, <2>3
  <2>5. q \in S /\ q = SubSeq(word, ((j + 1) - 1) * Cols + 1, (j + 1) * Cols)
    <3>1. (j + 1) - 1 = j
      OBVIOUS
    <3>2. q = SubSeq(word, ((j + 1) - 1) * Cols + 1, (j + 1) * Cols)
      BY <2>1, <2>3, <3>1
    <3>3. PICK i \in Nat : i = j + 1 /\ i >= 1
      OBVIOUS
    <3>4. i * Cols <= Len(word) /\ q = SubSeq(word, (i - 1) * Cols + 1, i * Cols)
      BY <3>2, <3>3
    <3>5. q \in S
      BY ONLY <1>2, <3>3, <3>4
    <3> QED
      BY <3>2, <3>5
  <2>6. Pushed(word, j + 1) = Append(p, q)
    <3> DEFINE Cell(k) == SubSeq(word, (k - 1) * Cols + 1, k * Cols)
    <3>1. PICK u : u = Pushed(word, j + 1)
      OBVIOUS
    <3>2. \A k \in 1..j : p[k] = Cell(k)
      BY <2>3 DEF Pushed
    <3>3. \A k \in 1..j + 1 : u[k] = Cell(k)
      BY <3>1 DEF Pushed
    <3>4. u = [k \in 1..j + 1 |-> u[k]]
      BY <3>1 DEF Pushed
    <3>11. Cell(j + 1) = q
      BY <2>5
    <3> HIDE DEF Cell
    <3>5. \A k \in 1..j : u[k] = p[k]
      BY ONLY <3>2, <3>3, j \in Nat
    <3>6. u[j + 1] = q
      BY ONLY <3>3, <3>11, j \in Nat
    <3>7. PICK t : t = Append(p, q)
      OBVIOUS
    <3>8. t \in Seq(S) /\ Len(t) = j + 1 /\ (\A k \in 1..j : t[k] = p[k]) /\ t[j + 1] = q
      <4>1. p \in Seq(S) /\ Len(p) = j /\ q \in S
        BY <2>4, <2>5
      <4>2. t \in Seq(S) /\ Len(t) = Len(p) + 1 /\ (\A k \in 1..Len(p) : t[k] = p[k]) /\ t[Len(p) + 1] = q
        BY ONLY <3>7, <4>1
      <4> QED
        BY ONLY <4>1, <4>2
    <3>9. t = [k \in 1..j + 1 |-> t[k]]
      BY ONLY <3>8
    <3>10. \A k \in 1..j + 1 : t[k] = u[k]
      BY ONLY <3>5, <3>6, <3>8, j \in Nat
    <3> QED
      BY ONLY <3>1, <3>4, <3>7, <3>9, <3>10
  <2>7. Append(p, q) \in Seq(S) /\ Len(Append(p, q)) = j + 1
    BY <2>4, <2>5
  <2>8. FlattenSeq(Append(p, q)) = SubSeq(word, 1, a) \o SubSeq(word, a + 1, b)
    <3>1. FlattenSeq(Append(p, q)) = FlattenSeq(p) \o q
      BY <2>4, <2>5, FlattenAppend
    <3> QED
      BY <2>3, <2>4, <3>1
  <2>9. SubSeq(word, 1, a) \o SubSeq(word, a + 1, b) = SubSeq(word, 1, b)
    <3>1. PICK w : w = SubSeq(word, 1, b)
      OBVIOUS
    <3>2. w \in Seq(C) /\ Len(w) = b /\ \A i \in 1..b : w[i] = word[i]
      BY <1>1, <2>2, <3>1
    <3>3. a \in 0..Len(w)
      BY <1>1, <2>1, <3>2
    <3>4. w = SubSeq(w, 1, a) \o SubSeq(w, a + 1, Len(w))
      BY <3>2, <3>3, Parts
    <3>5. SubSeq(w, 1, a) = SubSeq(word, 1, a) /\ SubSeq(w, a + 1, Len(w)) = SubSeq(word, a + 1, b)
      BY <1>1, <2>1, <2>2, <3>2, <3>3
    <3> QED
      BY <3>1, <3>4, <3>5
  <2> QED
    BY <2>1, <2>6, <2>7, <2>8, <2>9
<1>5. n \in N
  <2> HIDE DEF N
  <2> QED
    BY <1>3, <1>4, Induction
<1>6. ASSUME NEW k \in 1..n PROVE Pushed(word, n)[k] \in S /\ Len(Pushed(word, n)[k]) = Cols
  <2>1. PICK q : q = SubSeq(word, (k - 1) * Cols + 1, k * Cols)
    OBVIOUS
  <2>2. Pushed(word, n)[k] = q
    BY <2>1 DEF Pushed
  <2>3. k \in Nat /\ k >= 1 /\ k * Cols <= Len(word)
    <3>1. k * Cols <= n * Cols
      BY <1>1
    <3>2. k * Cols \in Int /\ n * Cols \in Int
      BY <1>1
    <3> QED
      BY <1>1, <3>1, <3>2
  <2>4. q \in S /\ Len(q) = Cols
    BY <1>2, <2>1, <2>3
  <2> QED
    BY <2>2, <2>4
<1> QED
  BY <1>5, <1>6

\* A line that fits the column.
Narrow(C) == {l \in Seq(C) : Len(l) <= Cols}

LEMMA NarrowLines ==
    ASSUME NEW C, NEW s \in Seq(Narrow(C))
    PROVE  s \in Seq(Seq(C))
<1>1. PICK S, N : S = Seq(C) /\ N = Narrow(C)
  OBVIOUS
<1>2. N \subseteq S
  BY <1>1 DEF Narrow
<1>3. s \in Seq(N)
  BY <1>1
<1>4. \A i \in 1..Len(s) : s[i] \in S
  BY ONLY <1>2, <1>3
<1>5. s \in Seq(S)
  BY <1>3, <1>4, Retype
<1> QED
  BY <1>1, <1>5

\* What push_word leaves on the line.
Kept(word) == SubSeq(word, Full(word) * Cols + 1, Len(word))

\* What push_word does to an empty line.
LEMMA PushWordIs ==
    ASSUME NEW lines, NEW word
    PROVE  PushWord(lines, word) = [done |-> lines \o Pushed(word, Full(word)), line |-> Kept(word)]
BY DEF PushWord, Pushed, Full, Kept

\* The pieces and the rest are the word, and fit.
LEMMA PushWordKeeps ==
    ASSUME NEW C, NEW word \in Seq(C)
    PROVE  /\ Pushed(word, Full(word)) \in Seq(Narrow(C)) /\ Kept(word) \in Narrow(C)
           /\ Seen(Pushed(word, Full(word))) \o Visible(Kept(word)) = Visible(word)
<1> PICK p : p = Pushed(word, Full(word))
  OBVIOUS
<1> PICK x : x = Kept(word)
  OBVIOUS
<1>1. PICK n \in Nat, a \in Nat : n = Full(word) /\ a = n * Cols
  <2>1. Full(word) \in Nat /\ Cols \in Nat
    BY FullIs, TextAssumption
  <2> QED
    BY <2>1
<1>2. a <= Len(word) /\ Len(word) <= a + Cols /\ n * Cols <= Len(word) /\ Cols \in Nat
  BY <1>1, FullIs, TextAssumption
<1>3. /\ p \in Seq(Seq(C)) /\ Len(p) = n
      /\ \A k \in 1..n : p[k] \in Seq(C) /\ Len(p[k]) = Cols
      /\ FlattenSeq(p) = SubSeq(word, 1, a)
  <2>1. p = Pushed(word, n)
    BY <1>1
  <2> QED
    BY <1>1, <1>2, <2>1, PushedIs
<1>4. p \in Seq(Narrow(C))
  <2>1. PICK S, N : S = Seq(C) /\ N = Narrow(C)
    OBVIOUS
  <2>2. \A k \in 1..Len(p) : p[k] \in N
    BY <1>2, <1>3, <2>1 DEF Narrow
  <2>3. p \in Seq(S)
    BY <1>3, <2>1
  <2>4. p \in Seq(N)
    BY <2>2, <2>3, Retype
  <2> QED
    BY <2>1, <2>4
<1>5. a \in 0..Len(word) /\ x = SubSeq(word, a + 1, Len(word))
  BY <1>1, <1>2 DEF Kept
<1>6. /\ SubSeq(word, 1, a) \in Seq(C) /\ x \in Seq(C) /\ word = SubSeq(word, 1, a) \o x
      /\ Len(word) = a + Len(x)
  <2>1. PICK b, y : b = SubSeq(word, 1, a) /\ y = SubSeq(word, a + 1, Len(word))
    OBVIOUS
  <2>2. b \in Seq(C) /\ y \in Seq(C) /\ word = b \o y /\ Len(word) = a + Len(y)
    BY ONLY <1>5, <2>1, word \in Seq(C), Parts
  <2> QED
    BY <1>5, <2>1, <2>2
<1>7. x \in Narrow(C)
  <2>0. x \in Seq(C)
    BY <1>6
  <2>1. Len(x) \in Nat /\ Len(word) \in Nat /\ x \in Seq(C)
    BY <2>0
  <2>2. Len(x) <= Cols
    BY ONLY <1>2, <1>6, <2>1, a \in Nat
  <2> QED
    BY <2>1, <2>2 DEF Narrow
<1>8. Visible(word) = Visible(SubSeq(word, 1, a)) \o Visible(x)
  <2>1. PICK b : b = SubSeq(word, 1, a)
    OBVIOUS
  <2>2. b \in Seq(C) /\ x \in Seq(C) /\ word = b \o x
    BY <1>6, <2>1
  <2>3. Visible(b \o x) = Visible(b) \o Visible(x)
    BY <2>2, VisibleConcat
  <2> QED
    BY <2>1, <2>2, <2>3
<1> QED
  BY <1>3, <1>4, <1>7, <1>8 DEF Seen

\* w's lines fit the column and show v.
Shows(C, w, v) ==
    \E d \in Seq(Narrow(C)), x \in Narrow(C) : w = [done |-> d, line |-> x] /\ Seen(d) \o Visible(x) = v

\* push_word after finished lines adds lines that fit and the whole word.
LEMMA PushWordAdds ==
    ASSUME NEW C, NEW lines \in Seq(Narrow(C)), NEW word \in Seq(C)
    PROVE  Shows(C, PushWord(lines, word), Seen(lines) \o Visible(word))
<1> PICK N : N = Narrow(C)
  OBVIOUS
<1> PICK p : p = Pushed(word, Full(word))
  OBVIOUS
<1> PICK x : x = Kept(word)
  OBVIOUS
<1>1. N = Narrow(C) /\ p = Pushed(word, Full(word)) /\ x = Kept(word)
  OBVIOUS
<1>2. p \in Seq(Narrow(C)) /\ x \in Narrow(C) /\ Seen(p) \o Visible(x) = Visible(word)
  BY <1>1, PushWordKeeps
<1>3. PICK d : d = lines \o p
  OBVIOUS
<1>4. d \in Seq(Narrow(C))
  <2>1. lines \in Seq(N) /\ p \in Seq(N)
    BY <1>1, <1>2
  <2>2. d \in Seq(N)
    BY ONLY <1>3, <2>1
  <2> QED
    BY <1>1, <2>2
<1>5. PushWord(lines, word) = [done |-> d, line |-> x]
  BY <1>1, <1>3, PushWordIs
<1>6. lines \in Seq(Seq(C)) /\ p \in Seq(Seq(C)) /\ x \in Seq(C)
  BY <1>2, NarrowLines DEF Narrow
<1>7. Seen(d) = Seen(lines) \o Seen(p)
  BY <1>3, <1>6, SeenConcat
<1>8. (Seen(lines) \o Seen(p)) \o Visible(x) = Seen(lines) \o (Seen(p) \o Visible(x))
  <2>1. PICK u, v, y : u = Seen(lines) /\ v = Seen(p) /\ y = Visible(x)
    OBVIOUS
  <2>2. u \in Seq(C) /\ v \in Seq(C) /\ y \in Seq(C)
    BY <1>6, <2>1, SeenType, GlyphsType
  <2>3. (u \o v) \o y = u \o (v \o y)
    BY ONLY <2>2, Regroup
  <2> QED
    BY <2>1, <2>3
<1> QED
  BY <1>2, <1>4, <1>5, <1>7, <1>8 DEF Shows

\* One round of wrap's inner loop adds the word, and every line still fits.
LEMMA AddWordAdds ==
    ASSUME NEW C, Space \in C, NEW w, NEW v, Shows(C, w, v), NEW word \in Seq(C)
    PROVE  Shows(C, AddWord(w, word), v \o Visible(word))
<1>0. PICK lines \in Seq(Narrow(C)), line \in Narrow(C) :
         w = [done |-> lines, line |-> line] /\ Seen(lines) \o Visible(line) = v
  BY DEF Shows
<1>1. line \in Seq(C) /\ lines \in Seq(Seq(C)) /\ Len(line) <= Cols /\ Len(line) \in Nat
  BY NarrowLines DEF Narrow
<1>2. Seen(lines) \in Seq(C) /\ Visible(line) \in Seq(C) /\ Visible(word) \in Seq(C)
  BY <1>1, SeenType, GlyphsType
<1>3. CASE line = <<>>
  <2>1. AddWord(w, word) = PushWord(lines, word)
    BY <1>0, <1>3 DEF AddWord
  <2>2. Seen(lines) \o Visible(line) = Seen(lines)
    BY <1>2, <1>3, VisibleEmpty, ConcatEmptySeq
  <2> QED
    BY <1>0, <2>1, <2>2, PushWordAdds
<1>4. CASE line # <<>> /\ Len(line) + 1 + Len(word) <= Cols
  <2>1. PICK x : x = (line \o <<Space>>) \o word
    OBVIOUS
  <2>2. AddWord(w, word) = [done |-> lines, line |-> x]
    BY <1>0, <1>4, <2>1 DEF AddWord
  <2>3. <<Space>> \in Seq(C) /\ line \o <<Space>> \in Seq(C)
    BY <1>1
  <2>4. x \in Seq(C) /\ Len(x) = Len(line) + 1 + Len(word)
    BY <1>1, <2>1
  <2>5. x \in Narrow(C)
    BY <1>4, <2>4 DEF Narrow
  <2>6. Visible(line \o <<Space>>) = Visible(line)
    <3>1. line \o <<Space>> = Append(line, Space) /\ Glyph(Space) = <<>>
      BY <1>1 DEF Glyph
    <3>2. Visible(Append(line, Space)) = Visible(line) \o <<>>
      BY <1>1, <3>1, VisibleAppend
    <3> QED
      BY <1>2, <3>1, <3>2, ConcatEmptySeq
  <2>7. Visible(x) = Visible(line) \o Visible(word)
    BY <2>1, <2>3, <2>6, VisibleConcat
  <2>8. (Seen(lines) \o Visible(line)) \o Visible(word) = Seen(lines) \o (Visible(line) \o Visible(word))
    <3>1. PICK u, z, y : u = Seen(lines) /\ z = Visible(line) /\ y = Visible(word)
      OBVIOUS
    <3>2. u \in Seq(C) /\ z \in Seq(C) /\ y \in Seq(C)
      BY <1>2, <3>1
    <3>3. (u \o z) \o y = u \o (z \o y)
      BY ONLY <3>2, Regroup, SMTT(30)
    <3> QED
      BY <3>1, <3>3
  <2> QED
    BY <1>0, <2>2, <2>5, <2>7, <2>8 DEF Shows
<1>5. CASE line # <<>> /\ ~(Len(line) + 1 + Len(word) <= Cols)
  <2>1. AddWord(w, word) = PushWord(Append(lines, line), word)
    BY <1>0, <1>5 DEF AddWord
  <2>2. Append(lines, line) \in Seq(Narrow(C))
    <3>1. PICK N : N = Narrow(C)
      OBVIOUS
    <3>2. lines \in Seq(N) /\ line \in N
      BY <3>1
    <3>3. Append(lines, line) \in Seq(N)
      BY ONLY <3>2
    <3> QED
      BY <3>1, <3>3
  <2>3. Seen(Append(lines, line)) = Seen(lines) \o Visible(line)
    BY <1>1, SeenAppend
  <2> QED
    BY <1>0, <2>1, <2>2, <2>3, PushWordAdds
<1> QED
  BY <1>3, <1>4, <1>5

\* g holds the lines after every word of s.
Adds(s, g) ==
    /\ g[0] = [done |-> <<>>, line |-> <<>>]
    /\ \A k \in 1..Len(s) : g[k] = AddWord(g[k - 1], s[k])

\* The recursion in AddWords has its steps.
LEMMA AddWordsUnfolds ==
    ASSUME NEW s, Len(s) \in Nat
    PROVE  \E g : Adds(s, g) /\ AddWords(s) = g[Len(s)]
<1> DEFINE Body(f, n) == [k \in 0..n |-> IF k = 0 THEN [done |-> <<>>, line |-> <<>>] ELSE AddWord(f[k - 1], s[k])]
           N == {n \in Nat : \E f : f = Body(f, n)}
<1>1. 0 \in N
  <2>1. [k \in 0..0 |-> [done |-> <<>>, line |-> <<>>]] = Body([k \in 0..0 |-> [done |-> <<>>, line |-> <<>>]], 0)
    OBVIOUS
  <2> QED
    BY <2>1
<1>2. ASSUME NEW n \in Nat, n \in N PROVE n + 1 \in N
  <2>1. PICK f : f = Body(f, n)
    BY <1>2
  <2>2. \A k \in 0..n : f[k] = IF k = 0 THEN [done |-> <<>>, line |-> <<>>] ELSE AddWord(f[k - 1], s[k])
    BY <2>1
  <2> DEFINE h == [k \in 0..n + 1 |-> IF k <= n THEN f[k] ELSE AddWord(f[n], s[n + 1])]
  <2>3. ASSUME NEW k \in 0..n + 1
        PROVE  h[k] = IF k = 0 THEN [done |-> <<>>, line |-> <<>>] ELSE AddWord(h[k - 1], s[k])
    <3>1. CASE k <= n
      <4>1. h[k] = f[k] /\ (k # 0 => h[k - 1] = f[k - 1])
        BY <3>1
      <4> QED
        BY <2>2, <3>1, <4>1
    <3>2. CASE k = n + 1
      BY <3>2
    <3> QED
      BY <3>1, <3>2
  <2>4. h = Body(h, n + 1)
    BY <2>3
  <2> HIDE DEF h, Body
  <2> QED
    BY <2>4
<1>3. Len(s) \in N
  <2> HIDE DEF N
  <2> QED
    BY <1>1, <1>2, Induction
<1>4. \E f : f = Body(f, Len(s))
  BY <1>3
<1> DEFINE F == CHOOSE f : f = Body(f, Len(s))
<1>5. F = Body(F, Len(s))
  BY <1>4
<1>6. AddWords(s) = F[Len(s)]
  BY DEF AddWords
<1> HIDE DEF F
<1>7. Adds(s, F)
  BY <1>5 DEF Adds
<1> QED
  BY <1>6, <1>7

\* The steps determine the lines.
LEMMA AddWordsSteps ==
    ASSUME NEW s, Len(s) \in Nat, NEW h, Adds(s, h)
    PROVE  AddWords(s) = h[Len(s)]
<1>1. PICK g : Adds(s, g) /\ AddWords(s) = g[Len(s)]
  BY AddWordsUnfolds
<1> DEFINE K == {i \in Nat : i <= Len(s) => g[i] = h[i]}
<1>2. 0 \in K
  BY <1>1 DEF Adds
<1>3. ASSUME NEW n \in Nat, n \in K PROVE n + 1 \in K
  <2> SUFFICES ASSUME n + 1 <= Len(s) PROVE g[n + 1] = h[n + 1]
    OBVIOUS
  <2>1. n + 1 \in 1..Len(s) /\ n = (n + 1) - 1 /\ g[n] = h[n]
    BY <1>3
  <2>2. g[n + 1] = AddWord(g[n], s[n + 1]) /\ h[n + 1] = AddWord(h[n], s[n + 1])
    BY <1>1, <2>1 DEF Adds
  <2> QED
    BY <2>1, <2>2
<1>4. Nat \subseteq K
  <2> HIDE DEF K
  <2> QED
    BY <1>2, <1>3, Induction
<1> QED
  BY <1>1, <1>4

\* One word more.
LEMMA AddWordsAppend ==
    ASSUME NEW C, NEW s \in Seq(C), NEW c \in C
    PROVE  AddWords(Append(s, c)) = AddWord(AddWords(s), c)
<1>1. PICK t : t = Append(s, c)
  OBVIOUS
<1>2. t \in Seq(C) /\ Len(s) \in Nat /\ Len(t) = Len(s) + 1 /\ (\A i \in 1..Len(s) : t[i] = s[i]) /\ t[Len(s) + 1] = c
  BY <1>1
<1>3. PICK g : Adds(t, g) /\ AddWords(t) = g[Len(t)]
  BY <1>2, AddWordsUnfolds
<1>4. Adds(s, g)
  <2>1. ASSUME NEW k \in 1..Len(s) PROVE g[k] = AddWord(g[k - 1], s[k])
    <3>1. k \in 1..Len(t) /\ t[k] = s[k]
      BY <1>2
    <3> QED
      BY <1>3, <3>1 DEF Adds
  <2> QED
    BY <1>3, <2>1 DEF Adds
<1>5. AddWords(s) = g[Len(s)]
  BY <1>2, <1>4, AddWordsSteps
<1>6. g[Len(t)] = AddWord(g[Len(s)], c)
  <2>1. Len(t) \in 1..Len(t) /\ Len(t) - 1 = Len(s)
    BY <1>2
  <2> QED
    BY <1>2, <1>3, <2>1 DEF Adds
<1> QED
  BY <1>1, <1>3, <1>5, <1>6

LEMMA AddWordsEmpty == AddWords(<<>>) = [done |-> <<>>, line |-> <<>>]
<1>1. Len(<<>>) = 0
  OBVIOUS
<1>2. PICK g : Adds(<<>>, g) /\ AddWords(<<>>) = g[0]
  BY <1>1, AddWordsUnfolds
<1> QED
  BY <1>2 DEF Adds

\* However many words: every line fits, and they show what the words show.
LEMMA AddWordsKeep ==
    ASSUME NEW C, Space \in C, NEW words \in Seq(Seq(C))
    PROVE  Shows(C, AddWords(words), Seen(words))
<1> DEFINE T == {t \in Seq(Seq(C)) : Shows(C, AddWords(t), Seen(t))}
<1> PICK S : S = Seq(C)
  OBVIOUS
<1>1. <<>> \in T
  <2>1. PICK e, N : e = <<>> /\ N = Narrow(C)
    OBVIOUS
  <2>2. e \in Seq(N) /\ e \in Seq(S) /\ e \in Seq(C) /\ Len(e) = 0
    BY ONLY <2>1
  <2>3. e \in Narrow(C)
    BY <2>2, TextAssumption DEF Narrow
  <2>4. Seen(e) \o Visible(e) = Seen(e)
    <3>1. e \o e = e
      BY <2>2, ConcatEmptySeq, <2>1
    <3> QED
      BY <2>1, <3>1, SeenEmpty, VisibleEmpty
  <2>5. AddWords(e) = [done |-> e, line |-> e]
    BY <2>1, AddWordsEmpty
  <2>6. Shows(C, AddWords(e), Seen(e))
    BY <2>1, <2>2, <2>3, <2>4, <2>5 DEF Shows
  <2> QED
    BY <2>1, <2>2, <2>6
<1>2. ASSUME NEW t \in S, NEW before \in Seq(S), before \in T PROVE Append(before, t) \in T
  <2>1. Shows(C, AddWords(before), Seen(before))
    BY <1>2
  <2>3. t \in Seq(C) /\ before \in Seq(Seq(C)) /\ Append(before, t) \in Seq(Seq(C))
    <3>1. Append(before, t) \in Seq(S)
      BY ONLY t \in S, before \in Seq(S)
    <3> QED
      BY <3>1
  <2>4. AddWords(Append(before, t)) = AddWord(AddWords(before), t)
    BY ONLY t \in S, before \in Seq(S), AddWordsAppend
  <2>5. Shows(C, AddWord(AddWords(before), t), Seen(before) \o Visible(t))
    BY <2>1, <2>3, AddWordAdds
  <2>6. Seen(Append(before, t)) = Seen(before) \o Visible(t)
    BY <2>3, SeenAppend
  <2> QED
    BY <2>3, <2>4, <2>5, <2>6
<1>3. Seq(S) \subseteq T
  <2> HIDE DEF T
  <2> QED
    BY <1>1, <1>2, Appending
<1> QED
  BY <1>3

\* A paragraph has a last line, which may still grow.
LEMMA ParagraphIs ==
    ASSUME NEW C, Space \in C, NEW p \in Seq(C)
    PROVE  \E d \in Seq(Narrow(C)), x \in Narrow(C) :
              /\ AddWords(Split(p, Space)) = [done |-> d, line |-> x]
              /\ Paragraph(p) = Append(d, x) /\ Append(d, x) \in Seq(Narrow(C))
              /\ Seen(Paragraph(p)) = Visible(p)
<1> PICK N : N = Narrow(C)
  OBVIOUS
<1>1. Split(p, Space) \in Seq(Seq(C))
  <2>1. PICK f \in Seq(Seq(C)), l \in Seq(C) : Split(p, Space) = Append(f, l)
    BY SplitType
  <2>2. PICK S : S = Seq(C)
    OBVIOUS
  <2>3. Append(f, l) \in Seq(S)
    BY <2>2
  <2> QED
    BY <2>1, <2>2, <2>3
<1>2. PICK d \in Seq(Narrow(C)), x \in Narrow(C) :
         /\ AddWords(Split(p, Space)) = [done |-> d, line |-> x]
         /\ Seen(d) \o Visible(x) = Seen(Split(p, Space))
  BY <1>1, AddWordsKeep DEF Shows
<1>3. Paragraph(p) = Append(d, x)
  BY <1>2 DEF Paragraph
<1>4. Append(d, x) \in Seq(Narrow(C))
  <2>1. d \in Seq(N) /\ x \in N
    OBVIOUS
  <2>2. Append(d, x) \in Seq(N)
    BY ONLY <2>1
  <2> QED
    BY <2>2
<1>5. Seen(Append(d, x)) = Seen(d) \o Visible(x)
  <2>1. d \in Seq(Seq(C)) /\ x \in Seq(C)
    BY NarrowLines DEF Narrow
  <2> QED
    BY <2>1, SeenAppend
<1>6. Seen(Split(p, Space)) = Visible(p)
  BY SplitKeeps
<1> QED
  BY <1>2, <1>3, <1>4, <1>5, <1>6

\* The lines of some paragraphs.
Wrapping(ps) == FlattenSeq([k \in DOMAIN ps |-> Paragraph(ps[k])])

LEMMA WrapIs == ASSUME NEW s PROVE Wrap(s) = Wrapping(Split(s, NL))
BY DEF Wrap, Wrapping

LEMMA WrappingEmpty == Wrapping(<<>>) = <<>>
<1>1. [k \in DOMAIN <<>> |-> Paragraph(<<>>[k])] = <<>>
  OBVIOUS
<1> QED
  BY <1>1, FlattenEmpty DEF Wrapping

\* One paragraph more.
LEMMA WrappingAppend ==
    ASSUME NEW C, Space \in C, NEW f \in Seq(Seq(C)), NEW l \in Seq(C)
    PROVE  /\ Wrapping(f) \in Seq(Narrow(C))
           /\ Wrapping(Append(f, l)) = Wrapping(f) \o Paragraph(l)
<1> PICK S, N : S = Seq(C) /\ N = Seq(Narrow(C))
  OBVIOUS
<1>1. \A p \in S : Paragraph(p) \in N
  BY ParagraphIs
<1>2. f \in Seq(S) /\ l \in S
  OBVIOUS
<1>3. PICK a : a = [k \in DOMAIN f |-> Paragraph(f[k])]
  OBVIOUS
<1>4. a \in Seq(N) /\ Len(a) = Len(f) /\ \A k \in 1..Len(f) : a[k] = Paragraph(f[k])
  <2>1. DOMAIN f = 1..Len(f) /\ Len(f) \in Nat /\ \A k \in 1..Len(f) : f[k] \in S
    BY ONLY <1>2
  <2>2. a = [k \in 1..Len(f) |-> Paragraph(f[k])] /\ \A k \in 1..Len(f) : Paragraph(f[k]) \in N
    BY <1>1, <1>3, <2>1
  <2> QED
    BY ONLY <2>1, <2>2
<1>5. PICK g, b : g = Append(f, l) /\ b = [k \in DOMAIN g |-> Paragraph(g[k])]
  OBVIOUS
<1>6. g \in Seq(S) /\ Len(f) \in Nat /\ Len(g) = Len(f) + 1 /\ (\A k \in 1..Len(f) : g[k] = f[k]) /\ g[Len(f) + 1] = l
  BY ONLY <1>2, <1>5
<1>7. b \in Seq(N) /\ Len(b) = Len(g) /\ \A k \in 1..Len(g) : b[k] = Paragraph(g[k])
  BY ONLY <1>1, <1>5, <1>6
<1>8. b = Append(a, Paragraph(l))
  <2>1. PICK q, t : q = Paragraph(l) /\ t = Append(a, q)
    OBVIOUS
  <2>2. q \in N
    BY <1>1, <1>2, <2>1
  <2>3. t \in Seq(N) /\ Len(t) = Len(a) + 1 /\ (\A k \in 1..Len(a) : t[k] = a[k]) /\ t[Len(a) + 1] = q
    BY ONLY <1>4, <2>1, <2>2
  <2>4. ASSUME NEW k \in 1..Len(b) PROVE b[k] = t[k]
    <3>1. CASE k <= Len(f)
      <4>1. k \in 1..Len(f) /\ k \in 1..Len(g) /\ k \in 1..Len(a)
        BY <1>4, <1>6, <1>7, <3>1
      <4> QED
        BY <1>4, <1>6, <1>7, <2>3, <4>1
    <3>2. CASE k = Len(f) + 1
      <4>1. k \in 1..Len(g) /\ k = Len(a) + 1
        BY <1>4, <1>6, <1>7, <3>2
      <4> QED
        BY <1>6, <1>7, <2>1, <2>3, <3>2, <4>1
    <3> QED
      BY <1>6, <1>7, <3>1, <3>2
  <2>5. Len(b) = Len(t)
    BY <1>4, <1>6, <1>7, <2>3
  <2>6. b = t
    BY <1>7, <2>3, <2>4, <2>5, SeqEqual
  <2> QED
    BY <2>1, <2>6
<1>9. a \in Seq(Seq(Narrow(C))) /\ Paragraph(l) \in Seq(Narrow(C))
  BY <1>1, <1>2, <1>4
<1>10. FlattenSeq(a) \in Seq(Narrow(C)) /\ FlattenSeq(b) = FlattenSeq(a) \o Paragraph(l)
  BY <1>8, <1>9, FlattenAppend
<1> QED
  BY <1>3, <1>5, <1>10 DEF Wrapping

\* Paragraphs show what their text shows.
LEMMA WrappingKeeps ==
    ASSUME NEW C, Space \in C, NEW f \in Seq(Seq(C))
    PROVE  Seen(Wrapping(f)) = Seen(f)
<1> DEFINE T == {t \in Seq(Seq(C)) : Seen(Wrapping(t)) = Seen(t)}
<1> PICK S : S = Seq(C)
  OBVIOUS
<1>1. <<>> \in T
  <2>1. <<>> \in Seq(S)
    OBVIOUS
  <2> QED
    BY <2>1, WrappingEmpty
<1>2. ASSUME NEW t \in Seq(S), NEW l \in S, t \in T PROVE Append(t, l) \in T
  <2>1. t \in Seq(Seq(C)) /\ l \in Seq(C) /\ Append(t, l) \in Seq(Seq(C))
    <3>1. Append(t, l) \in Seq(S)
      BY ONLY t \in Seq(S), l \in S
    <3> QED
      BY <3>1
  <2>2. PICK u, q : u = Wrapping(t) /\ q = Paragraph(l)
    OBVIOUS
  <2>3. Wrapping(Append(t, l)) = u \o q /\ u \in Seq(Seq(C))
    BY <2>1, <2>2, WrappingAppend, NarrowLines
  <2>4. q \in Seq(Seq(C)) /\ Seen(q) = Visible(l)
    BY <2>1, <2>2, ParagraphIs, NarrowLines
  <2>5. Seen(u \o q) = Seen(u) \o Seen(q)
    BY <2>3, <2>4, SeenConcat
  <2>6. Seen(Append(t, l)) = Seen(t) \o Visible(l)
    BY <2>1, SeenAppend
  <2>7. Seen(u) = Seen(t)
    BY <1>2, <2>2
  <2> QED
    BY <2>1, <2>3, <2>4, <2>5, <2>6, <2>7
<1>3. Seq(S) \subseteq T
  <2> HIDE DEF T
  <2> QED
    BY <1>1, <1>2, Appending
<1> QED
  BY <1>3

\* A wrapped text fits the column and shows what the text shows.
LEMMA WrapKeeps ==
    ASSUME NEW C, Space \in C, NEW s \in Seq(C)
    PROVE  /\ Wrap(s) \in Seq(Narrow(C))
           /\ Visible(FlattenSeq(Wrap(s))) = Visible(s)
<1>1. PICK f \in Seq(Seq(C)), l \in Seq(C) : Split(s, NL) = Append(f, l)
  BY SplitType
<1>2. Split(s, NL) \in Seq(Seq(C))
  <2>1. PICK S : S = Seq(C)
    OBVIOUS
  <2>2. Append(f, l) \in Seq(S)
    BY <2>1
  <2> QED
    BY <1>1, <2>1, <2>2
<1>3. Wrapping(Split(s, NL)) \in Seq(Narrow(C)) /\ Seen(Wrapping(Split(s, NL))) = Seen(Split(s, NL))
  BY <1>2, WrappingAppend, WrappingKeeps, <<>> \in Seq(C)
<1>4. Seen(Split(s, NL)) = Visible(s)
  BY SplitKeeps
<1> QED
  BY <1>3, <1>4, WrapIs DEF Seen

-----------------------------------------------------------------------------
(* A text that grows *)

\* b is a with more behind it.
Extends(S, a, b) == \E t \in Seq(S) : b = a \o t

LEMMA ExtendsSame == ASSUME NEW S, NEW a \in Seq(S) PROVE Extends(S, a, a)
<1>1. a = a \o <<>> /\ <<>> \in Seq(S)
  BY ConcatEmptySeq
<1> QED
  BY <1>1 DEF Extends

LEMMA ExtendsTransitive ==
    ASSUME NEW S, NEW a \in Seq(S), NEW b, NEW c, Extends(S, a, b), Extends(S, b, c)
    PROVE  Extends(S, a, c)
<1>1. PICK t \in Seq(S), u \in Seq(S) : b = a \o t /\ c = b \o u
  BY DEF Extends
<1>2. c = a \o (t \o u) /\ t \o u \in Seq(S)
  BY <1>1, Regroup
<1> QED
  BY <1>2 DEF Extends

LEMMA ExtendsBehind ==
    ASSUME NEW S, NEW p \in Seq(S), NEW a \in Seq(S), NEW b, Extends(S, a, b)
    PROVE  Extends(S, p \o a, p \o b)
<1>1. PICK t \in Seq(S) : b = a \o t
  BY DEF Extends
<1>2. p \o b = (p \o a) \o t
  BY <1>1, Regroup, SMTT(30)
<1> QED
  BY <1>2 DEF Extends

LEMMA ExtendsPrefix ==
    ASSUME NEW S, NEW a \in Seq(S), NEW b, Extends(S, a, b)
    PROVE  IsPrefix(a, b)
<1>1. PICK t \in Seq(S) : b = a \o t
  BY DEF Extends
<1>2. SubSeq(b, 1, Len(a)) = a
  BY <1>1, Cut
<1>3. SubSeq(a, 1, Len(a)) = a /\ Len(a) <= Len(b)
  BY <1>1
<1> QED
  BY <1>2, <1>3 DEF IsPrefix

\* A word that is longer has the pieces it had.
LEMMA FullGrows ==
    ASSUME NEW C, NEW word \in Seq(C), NEW c \in C
    PROVE  Full(word) <= Full(Append(word, c))
<1>1. PICK v : v = Append(word, c)
  OBVIOUS
<1>2. v \in Seq(C) /\ Len(v) = Len(word) + 1 /\ v # <<>> /\ Len(word) \in Nat
  BY <1>1
<1>3. PICK n \in Nat, m \in Nat, k \in Nat : n = Full(word) /\ m = Full(v) /\ k = Cols
  BY <1>2, FullIs, TextAssumption
<1>4. n * k <= Len(word) /\ (word # <<>> => n * k < Len(word)) /\ Len(v) <= m * k + k /\ k >= 8
  BY <1>2, <1>3, FullIs, TextAssumption
<1>5. n * k < m * k + k
  <2>1. n * k \in Nat /\ m * k \in Nat
    OBVIOUS
  <2>2. CASE word = <<>>
    <3>1. Len(word) = 0
      BY <2>2
    <3> QED
      BY <1>4, <2>1, <3>1
  <2>3. CASE word # <<>>
    BY <1>2, <1>4, <2>1, <2>3
  <2> QED
    BY <2>2, <2>3
<1>6. n <= m
  <2> SUFFICES ASSUME m + 1 <= n PROVE FALSE
    OBVIOUS
  <2>1. (m + 1) * k <= n * k
    BY ONLY m + 1 <= n, m \in Nat, n \in Nat, k \in Nat
  <2>2. (m + 1) * k = m * k + k
    BY ONLY m \in Nat, k \in Nat
  <2>3. n * k \in Nat /\ m * k \in Nat
    OBVIOUS
  <2> QED
    BY ONLY <1>5, <2>1, <2>2, <2>3, k \in Nat
<1> QED
  BY <1>1, <1>3, <1>6

LEMMA PushedGrows ==
    ASSUME NEW C, NEW word \in Seq(C), NEW c \in C
    PROVE  Extends(Seq(C), Pushed(word, Full(word)), Pushed(Append(word, c), Full(Append(word, c))))
<1> PICK S : S = Seq(C)
  OBVIOUS
<1>1. PICK v : v = Append(word, c)
  OBVIOUS
<1>2. v \in Seq(C) /\ Len(v) = Len(word) + 1 /\ Len(word) \in Nat /\ \A i \in 1..Len(word) : v[i] = word[i]
  BY <1>1
<1>3. PICK n \in Nat, m \in Nat : n = Full(word) /\ m = Full(v)
  BY <1>2, FullIs
<1>4. n <= m /\ n * Cols <= Len(word) /\ m * Cols <= Len(v) /\ Cols \in Nat /\ Cols >= 8
  BY <1>1, <1>2, <1>3, FullGrows, FullIs, TextAssumption
<1>5. PICK p, q : p = Pushed(word, n) /\ q = Pushed(v, m)
  OBVIOUS
<1>6. p \in Seq(S) /\ Len(p) = n /\ q \in Seq(S) /\ Len(q) = m
  BY <1>2, <1>4, <1>5, PushedIs
<1>7. ASSUME NEW k \in 1..n PROVE p[k] = q[k]
  <2>1. PICK a \in Nat, b \in Nat : a = (k - 1) * Cols + 1 /\ b = k * Cols /\ a >= 1
    <3>1. k - 1 \in Nat /\ k \in Nat
      OBVIOUS
    <3>2. (k - 1) * Cols \in Nat /\ k * Cols \in Nat
      BY <1>4, <3>1
    <3> QED
      BY <3>2
  <2>2. b <= Len(word)
    <3>1. k * Cols <= n * Cols
      BY <1>4
    <3>2. n * Cols \in Nat
      BY <1>4
    <3> QED
      BY <1>2, <1>4, <2>1, <3>1, <3>2
  <2>3. p[k] = SubSeq(word, a, b)
    BY <1>5, <2>1 DEF Pushed
  <2>4. q[k] = SubSeq(v, a, b)
    <3>1. k \in 1..m
      BY <1>4
    <3> QED
      BY <1>5, <2>1, <3>1 DEF Pushed
  <2>6. b = a - 1 + Cols
    <3>1. k * Cols = (k - 1) * Cols + Cols
      <4>1. k \in Int /\ Cols \in Int
        BY <1>4
      <4> QED
        BY ONLY <4>1
    <3>2. (k - 1) * Cols \in Int
      BY <1>4
    <3> QED
      BY <1>4, <2>1, <3>1, <3>2
  <2>7. a >= 1 /\ b <= Len(word) /\ b <= Len(v) /\ Len(word) \in Nat /\ Len(v) \in Nat /\ Cols \in Nat /\ v \in Seq(C)
    BY <1>2, <1>4, <2>1, <2>2
  <2>5. SubSeq(word, a, b) = SubSeq(v, a, b)
    <3>1. PICK x, y : x = SubSeq(word, a, b) /\ y = SubSeq(v, a, b)
      OBVIOUS
    <3>2. x \in Seq(C) /\ Len(x) = Cols /\ \A i \in 1..Cols : x[i] = word[a + i - 1]
      BY ONLY <2>6, <2>7, <3>1, word \in Seq(C), a \in Nat, b \in Nat
    <3>3. y \in Seq(C) /\ Len(y) = Cols /\ \A i \in 1..Cols : y[i] = v[a + i - 1]
      BY ONLY <2>6, <2>7, <3>1, a \in Nat, b \in Nat
    <3>4. \A i \in 1..Len(x) : a + i - 1 \in 1..Len(word)
      BY ONLY <2>6, <2>7, <3>2, a \in Nat, b \in Nat
    <3>5. \A i \in 1..Len(x) : x[i] = y[i]
      BY <1>2, <3>2, <3>3, <3>4
    <3>6. x = y
      BY <3>2, <3>3, <3>5, SeqEqual
    <3> QED
      BY <3>1, <3>6
  <2> QED
    BY <2>3, <2>4, <2>5
<1>8. n \in 0..Len(q)
  BY <1>4, <1>6
<1>9. PICK r, t : r = SubSeq(q, 1, n) /\ t = SubSeq(q, n + 1, Len(q))
  OBVIOUS
<1>10. r \in Seq(S) /\ t \in Seq(S) /\ q = r \o t /\ Len(r) = n
  <2>1. q \in Seq(S)
    BY <1>6
  <2> QED
    BY ONLY <1>8, <1>9, <2>1, Parts, ZenonT(30)
<1>11. r = p
  <2>1. \A k \in 1..n : r[k] = q[k]
    BY ONLY <1>6, <1>8, <1>9, n \in Nat
  <2>2. \A k \in 1..Len(r) : r[k] = p[k]
    BY <1>7, <1>10, <2>1
  <2> QED
    BY <1>6, <1>10, <2>2, SeqEqual
<1> QED
  BY <1>1, <1>3, <1>5, <1>10, <1>11 DEF Extends

\* w's lines, by themselves.
Lined(C, w, d, x) == d \in Seq(Seq(C)) /\ x \in Seq(C) /\ w = [done |-> d, line |-> x]

\* A word that grows leaves the finished lines as they were.
LEMMA AddWordGrows ==
    ASSUME NEW C, NEW w, NEW d, NEW x, Lined(C, w, d, x), NEW word \in Seq(C), NEW c \in C
    PROVE  Extends(Seq(C), AddWord(w, word).done, AddWord(w, Append(word, c)).done)
<1> PICK S : S = Seq(C)
  OBVIOUS
<1>0. d \in Seq(S) /\ x \in Seq(C) /\ w = [done |-> d, line |-> x] /\ w.done = d /\ w.line = x
  BY DEF Lined
<1>1. PICK v : v = Append(word, c)
  OBVIOUS
<1>2. v \in Seq(C) /\ Len(v) = Len(word) + 1 /\ Len(word) \in Nat /\ Len(x) \in Nat /\ Cols \in Nat
  BY <1>0, <1>1, TextAssumption
<1>3. PICK p, q : p = Pushed(word, Full(word)) /\ q = Pushed(v, Full(v))
  OBVIOUS
<1>4. p \in Seq(S) /\ q \in Seq(S) /\ Extends(S, p, q)
  <2>1. p \in Seq(Narrow(C)) /\ q \in Seq(Narrow(C))
    BY <1>2, <1>3, PushWordKeeps
  <2>2. Extends(S, p, q)
    BY <1>1, <1>3, PushedGrows
  <2> QED
    BY <2>1, <2>2, NarrowLines
<1>5. \A l : PushWord(l, word).done = l \o p /\ PushWord(l, v).done = l \o q
  BY <1>3, PushWordIs
<1>6. CASE x = <<>>
  <2>1. AddWord(w, word).done = d \o p /\ AddWord(w, v).done = d \o q
    BY <1>0, <1>5, <1>6 DEF AddWord
  <2>2. Extends(S, d \o p, d \o q)
    BY <1>0, <1>4, ExtendsBehind
  <2> QED
    BY <1>1, <2>1, <2>2
<1> PICK e : e = Append(d, x)
  OBVIOUS
<1>7. e \in Seq(S) /\ e = Append(d, x)
  BY <1>0
<1>8. Extends(S, d, e \o q)
  <2>1. PICK o : o = <<x>>
    OBVIOUS
  <2>2. o \in Seq(S) /\ e = d \o o
    BY <1>0, <2>1
  <2>3. e \o q = d \o (o \o q) /\ o \o q \in Seq(S)
    <3>1. d \in Seq(S) /\ o \in Seq(S) /\ q \in Seq(S)
      BY <1>0, <1>4, <2>2
    <3>2. (d \o o) \o q = d \o (o \o q) /\ o \o q \in Seq(S)
      BY ONLY <3>1, Regroup
    <3> QED
      BY <2>2, <3>2
  <2> QED
    BY <2>3 DEF Extends
<1>9. CASE x # <<>> /\ Len(x) + 1 + Len(v) <= Cols
  <2>1. Len(x) + 1 + Len(word) <= Cols
    BY <1>2, <1>9
  <2>2. AddWord(w, word).done = d /\ AddWord(w, v).done = d
    BY <1>0, <1>9, <2>1 DEF AddWord
  <2> QED
    BY <1>0, <1>1, <2>2, ExtendsSame
<1>10. CASE x # <<>> /\ ~(Len(x) + 1 + Len(v) <= Cols) /\ Len(x) + 1 + Len(word) <= Cols
  <2>1. AddWord(w, word).done = d /\ AddWord(w, v).done = e \o q
    BY <1>0, <1>5, <1>7, <1>10 DEF AddWord
  <2> QED
    BY <1>1, <1>8, <2>1
<1>11. CASE x # <<>> /\ ~(Len(x) + 1 + Len(word) <= Cols)
  <2>1. ~(Len(x) + 1 + Len(v) <= Cols)
    BY <1>2, <1>11
  <2>2. AddWord(w, word).done = e \o p /\ AddWord(w, v).done = e \o q
    BY <1>0, <1>5, <1>7, <1>11, <2>1 DEF AddWord
  <2>3. Extends(S, e \o p, e \o q)
    BY <1>4, <1>7, ExtendsBehind
  <2> QED
    BY <1>1, <2>2, <2>3
<1> QED
  BY <1>6, <1>9, <1>10, <1>11

\* The finished pieces of a text and its last one.
CutInto(C, s, sep, f, l) == f \in Seq(Seq(C)) /\ l \in Seq(C) /\ Split(s, sep) = Append(f, l)

LEMMA CutExists ==
    ASSUME NEW C, NEW s \in Seq(C), NEW sep
    PROVE  \E f, l : CutInto(C, s, sep, f, l)
<1>1. PICK f \in Seq(Seq(C)), l \in Seq(C) : Split(s, sep) = Append(f, l)
  BY SplitType
<1> QED
  BY <1>1 DEF CutInto

LEMMA CutMore ==
    ASSUME NEW C, NEW s \in Seq(C), NEW c \in C, NEW sep, NEW f, NEW l, CutInto(C, s, sep, f, l)
    PROVE  /\ c = sep => CutInto(C, Append(s, c), sep, Append(f, l), <<>>)
           /\ c # sep => CutInto(C, Append(s, c), sep, f, Append(l, c))
<1>0. PICK g \in Seq(Seq(C)), m \in Seq(C) : g = f /\ m = l /\ Split(s, sep) = Append(g, m)
  BY DEF CutInto
<1>1. f \in Seq(Seq(C)) /\ l \in Seq(C)
  BY <1>0
<1>2. PICK e : e = <<>>
  OBVIOUS
<1>3. /\ c = sep => Split(Append(s, c), sep) = Append(Append(f, l), e)
      /\ c # sep => Split(Append(s, c), sep) = Append(f, Append(l, c))
  <2>1. /\ c = sep => Split(Append(s, c), sep) = Append(Append(g, m), e)
        /\ c # sep => Split(Append(s, c), sep) = Append(g, Append(m, c))
    BY ONLY <1>0, <1>2, SplitMore
  <2> QED
    BY <1>0, <2>1
<1>4. e \in Seq(C) /\ Append(l, c) \in Seq(C)
  BY <1>1, <1>2
<1>5. Append(f, l) \in Seq(Seq(C))
  <2>1. PICK S : S = Seq(C)
    OBVIOUS
  <2>2. f \in Seq(S) /\ l \in S
    BY <1>1, <2>1
  <2>3. Append(f, l) \in Seq(S)
    BY ONLY <2>2
  <2> QED
    BY <2>1, <2>3
<1> QED
  BY <1>1, <1>2, <1>3, <1>4, <1>5 DEF CutInto

\* The lines of a paragraph that are finished.
Finished(p) == AddWords(Split(p, Space)).done

LEMMA AddWordsLined ==
    ASSUME NEW C, Space \in C, NEW words \in Seq(Seq(C))
    PROVE  \E d, x : Lined(C, AddWords(words), d, x)
<1>1. PICK d \in Seq(Narrow(C)), x \in Narrow(C) : AddWords(words) = [done |-> d, line |-> x]
  BY AddWordsKeep DEF Shows
<1>2. Lined(C, AddWords(words), d, x)
  BY <1>1, NarrowLines DEF Narrow, Lined
<1> QED
  BY <1>2

\* A paragraph that grows leaves its finished lines as they were.
LEMMA ParagraphGrows ==
    ASSUME NEW C, Space \in C, NEW p \in Seq(C), NEW c \in C
    PROVE  Extends(Seq(C), Finished(p), Finished(Append(p, c)))
<1> PICK S : S = Seq(C)
  OBVIOUS
<1>0. PICK f, l : CutInto(C, p, Space, f, l)
  BY CutExists
<1>1. f \in Seq(Seq(C)) /\ l \in Seq(C) /\ Split(p, Space) = Append(f, l)
  BY <1>0 DEF CutInto
<1>2. f \in Seq(S) /\ l \in S /\ Append(l, c) \in S /\ <<>> \in S /\ Append(l, c) \in Seq(C)
  BY <1>1
<1>3. Append(f, l) \in Seq(S)
  BY ONLY <1>2
<1>4. PICK e : e = <<>>
  OBVIOUS
<1>5. /\ c = Space => Split(Append(p, c), Space) = Append(Append(f, l), e)
      /\ c # Space => Split(Append(p, c), Space) = Append(f, Append(l, c))
  <2>1. /\ c = Space => CutInto(C, Append(p, c), Space, Append(f, l), <<>>)
        /\ c # Space => CutInto(C, Append(p, c), Space, f, Append(l, c))
    BY <1>0, CutMore
  <2> QED
    BY <1>4, <2>1 DEF CutInto
<1>6. CASE c = Space
  <2>1. PICK d, x : Lined(C, AddWords(Append(f, l)), d, x)
    BY <1>3, AddWordsLined
  <2>2. PICK w : w = AddWords(Append(f, l))
    OBVIOUS
  <2>3. d \in Seq(S) /\ x \in S /\ w = [done |-> d, line |-> x] /\ w.done = d /\ w.line = x
    BY <2>1, <2>2 DEF Lined
  <2>4. AddWords(Append(Append(f, l), e)) = AddWord(w, e)
    BY <1>2, <1>3, <1>4, <2>2, AddWordsAppend
  <2>5. Full(e) = 0 /\ Pushed(e, 0) = e
    BY <1>4 DEF Full, Pushed
  <2>6. \A k : PushWord(k, e).done = k \o e
    BY <2>5, PushWordIs
  <2>7. AddWord(w, e).done \in {d, d \o e, Append(d, x) \o e}
    BY <2>3, <2>6 DEF AddWord
  <2>8. Append(d, x) \in Seq(S) /\ e \in Seq(S)
    BY ONLY <1>4, <2>3
  <2>9. d \o e = d /\ Append(d, x) \o e = Append(d, x)
    BY <1>4, <2>3, <2>8, ConcatEmptySeq
  <2>10. Extends(S, d, d) /\ Extends(S, d, Append(d, x))
    <3>1. Append(d, x) = d \o <<x>> /\ <<x>> \in Seq(S)
      BY ONLY <2>3
    <3> QED
      BY <2>3, <3>1, ExtendsSame DEF Extends
  <2>11. Extends(S, d, AddWord(w, e).done)
    BY <2>7, <2>9, <2>10
  <2> QED
    BY <1>1, <1>5, <1>6, <2>2, <2>3, <2>4, <2>11 DEF Finished
<1>7. CASE c # Space
  <2>1. PICK d, x : Lined(C, AddWords(f), d, x)
    BY <1>1, AddWordsLined
  <2>2. AddWords(Append(f, l)) = AddWord(AddWords(f), l)
    BY ONLY <1>2, AddWordsAppend
  <2>3. AddWords(Append(f, Append(l, c))) = AddWord(AddWords(f), Append(l, c))
    BY ONLY <1>2, AddWordsAppend
  <2>4. Extends(Seq(C), AddWord(AddWords(f), l).done, AddWord(AddWords(f), Append(l, c)).done)
    BY <1>1, <2>1, AddWordGrows
  <2> QED
    BY <1>1, <1>5, <1>7, <2>2, <2>3, <2>4 DEF Finished
<1> QED
  BY <1>6, <1>7

\* The last line of a paragraph, and those before it.
LEMMA ParagraphEnds ==
    ASSUME NEW C, Space \in C, NEW p \in Seq(C)
    PROVE  \E x \in Seq(C) : Paragraph(p) = Append(Finished(p), x) /\ Finished(p) \in Seq(Seq(C))
<1>1. PICK d \in Seq(Narrow(C)), x \in Narrow(C) :
         AddWords(Split(p, Space)) = [done |-> d, line |-> x] /\ Paragraph(p) = Append(d, x)
  BY ParagraphIs
<1>2. Finished(p) = d
  BY <1>1 DEF Finished
<1>3. d \in Seq(Seq(C)) /\ x \in Seq(C)
  BY NarrowLines DEF Narrow
<1> QED
  BY <1>1, <1>2, <1>3

\* A text has a last line too; the lines before it are those of the paragraphs
\* before the last, and the finished lines of the last.
LEMMA WrapEnds ==
    ASSUME NEW C, Space \in C, NEW s \in Seq(C), NEW f, NEW l, CutInto(C, s, NL, f, l)
    PROVE  /\ Wrapping(f) \in Seq(Seq(C)) /\ Finished(l) \in Seq(Seq(C))
           /\ Front(Wrap(s)) = Wrapping(f) \o Finished(l)
           /\ \E x \in Seq(C) : Wrap(s) = Append(Front(Wrap(s)), x)
<1> PICK S : S = Seq(C)
  OBVIOUS
<1>0. f \in Seq(Seq(C)) /\ l \in Seq(C) /\ Split(s, NL) = Append(f, l)
  BY DEF CutInto
<1>1. PICK x \in Seq(C) : Paragraph(l) = Append(Finished(l), x) /\ Finished(l) \in Seq(Seq(C))
  BY <1>0, ParagraphEnds
<1>2. PICK a, b : a = Wrapping(f) /\ b = Finished(l)
  OBVIOUS
<1>3. a \in Seq(S) /\ b \in Seq(S) /\ x \in S
  <2>1. Wrapping(f) \in Seq(Seq(C))
    BY <1>0, WrappingAppend, NarrowLines
  <2> QED
    BY <1>1, <1>2, <2>1
<1>4. Wrap(s) = a \o Append(b, x)
  BY <1>0, <1>1, <1>2, WrapIs, WrappingAppend
<1>5. a \o Append(b, x) = Append(a \o b, x) /\ a \o b \in Seq(S)
  BY ONLY <1>3
<1>6. Front(Append(a \o b, x)) = a \o b
  BY ONLY <1>3, <1>5, FrontLast
<1> QED
  BY <1>2, <1>3, <1>4, <1>5, <1>6

\* One character more leaves all lines but the last as they were.
LEMMA WrapGrowsOne ==
    ASSUME NEW C, Space \in C, NEW s \in Seq(C), NEW c \in C
    PROVE  Extends(Seq(C), Front(Wrap(s)), Front(Wrap(Append(s, c))))
<1> PICK S : S = Seq(C)
  OBVIOUS
<1>0. PICK f, l : CutInto(C, s, NL, f, l)
  BY CutExists
<1>1. f \in Seq(Seq(C)) /\ l \in Seq(C)
  BY <1>0 DEF CutInto
<1>2. PICK e : e = <<>>
  OBVIOUS
<1>3. e \in Seq(C) /\ Append(l, c) \in Seq(C) /\ Append(s, c) \in Seq(C)
  BY <1>1, <1>2
<1>4. Append(f, l) \in Seq(Seq(C))
  <2>1. f \in Seq(S) /\ l \in S
    BY <1>1
  <2>2. Append(f, l) \in Seq(S)
    BY ONLY <2>1
  <2> QED
    BY <2>2
<1>5. /\ c = NL => CutInto(C, Append(s, c), NL, Append(f, l), e)
      /\ c # NL => CutInto(C, Append(s, c), NL, f, Append(l, c))
  BY <1>0, <1>2, CutMore
<1>6. PICK a, b : a = Wrapping(f) /\ b = Finished(l)
  OBVIOUS
<1>7. a \in Seq(S) /\ b \in Seq(S) /\ Front(Wrap(s)) = a \o b
  BY <1>0, <1>6, WrapEnds, ZenonT(30)
<1>8. CASE c = NL
  <2>1. PICK x \in Seq(C) : Paragraph(l) = Append(b, x)
    BY <1>1, <1>6, ParagraphEnds
  <2>2. PICK g : g = Finished(e)
    OBVIOUS
  <2>3. g \in Seq(S) /\ Front(Wrap(Append(s, c))) = Wrapping(Append(f, l)) \o g
    <3>1. CutInto(C, Append(s, c), NL, Append(f, l), e)
      BY <1>5, <1>8
    <3>2. PICK t, h : t = Append(s, c) /\ h = Append(f, l)
      OBVIOUS
    <3>3. t \in Seq(C) /\ CutInto(C, t, NL, h, e) /\ Space \in C
      BY <1>3, <3>1, <3>2
    <3>4. Finished(e) \in Seq(Seq(C)) /\ Front(Wrap(t)) = Wrapping(h) \o Finished(e)
      BY ONLY <3>3, WrapEnds
    <3> QED
      BY <2>2, <3>2, <3>4
  <2>4. Wrapping(Append(f, l)) = a \o Append(b, x)
    BY <1>1, <1>6, <2>1, WrappingAppend
  <2>5. PICK o : o = <<x>> \o g
    OBVIOUS
  <2>6. x \in S
    OBVIOUS
  <2>7. <<x>> \in Seq(S) /\ o \in Seq(S)
    BY ONLY <2>3, <2>5, <2>6
  <2>8. (a \o Append(b, x)) \o g = (a \o b) \o o
    <3>1. PICK y : y = <<x>>
      OBVIOUS
    <3>2. y \in Seq(S) /\ Append(b, x) = b \o y
      <4>1. <<x>> \in Seq(S) /\ Append(b, x) = b \o <<x>>
        BY ONLY <1>7, <2>6
      <4> QED
        BY <3>1, <4>1
    <3>3. g \in Seq(S) /\ a \in Seq(S) /\ b \in Seq(S) /\ b \o y \in Seq(S) /\ a \o b \in Seq(S)
      BY <1>7, <2>3, <3>2
    <3>6. y \in Seq(S)
      BY <3>2
    <3>4. (a \o b) \o y = a \o (b \o y)
      BY ONLY <3>6, <3>3, Regroup, SMTT(30)
    <3>5. ((a \o b) \o y) \o g = (a \o b) \o (y \o g)
      <4>1. PICK q : q = a \o b
        OBVIOUS
      <4>2. q \in Seq(S) /\ g \in Seq(S) /\ y \in Seq(S)
        BY <3>3, <3>6, <4>1
      <4>3. (q \o y) \o g = q \o (y \o g)
        <5>1. g \in Seq(S)
          BY <4>2
        <5>2. \A u \in Seq(S), v \in Seq(S), z \in Seq(S) : (u \o v) \o z = u \o (v \o z)
          BY ONLY ConcatAssociative
        <5> QED
          BY ONLY <4>2, <5>2
      <4> QED
        BY <4>1, <4>3
    <3> QED
      BY <2>5, <3>1, <3>2, <3>4, <3>5
  <2>9. Front(Wrap(Append(s, c))) = (a \o b) \o o
    BY <2>3, <2>4, <2>8
  <2> QED
    BY <1>7, <2>7, <2>9 DEF Extends
<1>9. CASE c # NL
  <2>1. PICK g : g = Finished(Append(l, c))
    OBVIOUS
  <2>2. Front(Wrap(Append(s, c))) = a \o g
    <3>1. CutInto(C, Append(s, c), NL, f, Append(l, c))
      BY <1>5, <1>9
    <3>2. PICK t, h : t = Append(s, c) /\ h = Append(l, c)
      OBVIOUS
    <3>3. t \in Seq(C) /\ CutInto(C, t, NL, f, h) /\ Space \in C
      BY <1>3, <3>1, <3>2
    <3>4. Front(Wrap(t)) = Wrapping(f) \o Finished(h)
      BY ONLY <3>3, WrapEnds
    <3> QED
      BY <1>6, <2>1, <3>2, <3>4
  <2>3. Extends(S, b, g)
    BY <1>1, <1>6, <2>1, ParagraphGrows
  <2>4. Extends(S, a \o b, a \o g)
    BY <1>7, <2>3, ExtendsBehind
  <2> QED
    BY <1>7, <2>2, <2>4
<1> QED
  BY <1>8, <1>9

\* There is always a last line.
LEMMA WrapLast ==
    ASSUME NEW C, Space \in C, NEW s \in Seq(C)
    PROVE  /\ Front(Wrap(s)) \in Seq(Seq(C)) /\ Len(Wrap(s)) \in Nat \ {0}
           /\ \E x \in Seq(C) : Wrap(s) = Append(Front(Wrap(s)), x)
<1> PICK S : S = Seq(C)
  OBVIOUS
<1>0. PICK f, l : CutInto(C, s, NL, f, l)
  BY CutExists
<1>1. f \in Seq(Seq(C)) /\ l \in Seq(C)
  BY <1>0 DEF CutInto
<1>2. PICK a, b : a = Wrapping(f) /\ b = Finished(l)
  OBVIOUS
<1>3. a \in Seq(S) /\ b \in Seq(S) /\ Front(Wrap(s)) = a \o b
  BY <1>0, <1>2, WrapEnds, ZenonT(30)
<1>4. PICK x \in Seq(C) : Wrap(s) = Append(Front(Wrap(s)), x)
  BY <1>0, WrapEnds
<1>5. PICK g : g = Front(Wrap(s))
  OBVIOUS
<1>6. g \in Seq(S) /\ x \in S
  BY <1>3, <1>5
<1>7. Len(Append(g, x)) \in Nat \ {0}
  BY ONLY <1>6
<1> QED
  BY <1>4, <1>5, <1>6, <1>7

\* However much is added.
LEMMA WrapGrows ==
    ASSUME NEW C, Space \in C, NEW s \in Seq(C), NEW u \in Seq(C)
    PROVE  IsPrefix(Front(Wrap(s)), Wrap(s \o u))
<1> PICK S : S = Seq(C)
  OBVIOUS
<1> DEFINE T == {t \in Seq(C) : Extends(S, Front(Wrap(s)), Front(Wrap(s \o t)))}
<1>0. Front(Wrap(s)) \in Seq(S)
  BY WrapLast
<1>1. <<>> \in T
  <2>1. s \o <<>> = s
    BY ConcatEmptySeq
  <2> QED
    BY <1>0, <2>1, ExtendsSame
<1>2. ASSUME NEW t \in Seq(C), NEW c \in C, t \in T PROVE Append(t, c) \in T
  <2>1. s \o Append(t, c) = Append(s \o t, c) /\ s \o t \in Seq(C) /\ Append(t, c) \in Seq(C)
    OBVIOUS
  <2>2. Extends(S, Front(Wrap(s \o t)), Front(Wrap(Append(s \o t, c))))
    BY <2>1, WrapGrowsOne
  <2>3. Extends(S, Front(Wrap(s)), Front(Wrap(s \o t)))
    BY <1>2
  <2> QED
    BY <1>0, <2>1, <2>2, <2>3, ExtendsTransitive
<1>3. Seq(C) \subseteq T
  <2> HIDE DEF T
  <2> QED
    BY <1>1, <1>2, Appending
<1>4. PICK a, b : a = Front(Wrap(s)) /\ b = Front(Wrap(s \o u))
  OBVIOUS
<1>5. Extends(S, a, b)
  BY <1>3, <1>4
<1>6. a \in Seq(S) /\ b \in Seq(S)
  <2>1. s \o u \in Seq(C)
    OBVIOUS
  <2> QED
    BY <1>4, <2>1, WrapLast
<1>7. PICK x \in Seq(C) : Wrap(s \o u) = Append(b, x)
  <2>1. s \o u \in Seq(C)
    OBVIOUS
  <2> QED
    BY <1>4, <2>1, WrapLast
<1>8. Extends(S, b, Append(b, x))
  <2>1. x \in S
    OBVIOUS
  <2>2. Append(b, x) = b \o <<x>> /\ <<x>> \in Seq(S)
    BY ONLY <1>6, <2>1
  <2> QED
    BY <2>2 DEF Extends
<1>9. Extends(S, a, Append(b, x))
  BY <1>5, <1>6, <1>8, ExtendsTransitive
<1> QED
  BY <1>4, <1>6, <1>7, <1>9, ExtendsPrefix

-----------------------------------------------------------------------------
(* The invariant *)

\* Before the answer nothing is sampled; during it, what has come out and what
\* is pending are together the characters of all that was sampled, and
\* nothing more could come out.
Answering ==
    /\ pc \in {"chunks", "merge"} => stream = <<>> /\ pending = <<>> /\ text = <<>>
    /\ pc = "generate" => Streams(stream, pending, text) /\ Settled(pending)

TextInv ==
    /\ pc \in {"chunks", "merge", "generate", "idle"}
    /\ rest \in Seq(Seq(Bytes))
    /\ stream \in Seq(Bytes) /\ pending \in Seq(Bytes) /\ text \in Seq(Seq(Bytes))
    /\ Answering

\* Before the first byte.
LEMMA NothingYet == Streams(<<>>, <<>>, <<>>) /\ Settled(<<>>)
<1>1. PICK e : e = <<>>
  OBVIOUS
<1>2. e \in Seq(Bytes) /\ e \in Seq(Seq(Bytes)) /\ Len(e) = 0
  BY ONLY <1>1
<1>3. CharLen(e) \in 0..Len(e)
  BY <1>2, CharLenIs
<1>4. Settled(e)
  BY <1>1, <1>2, <1>3 DEF Settled
<1>5. ASSUME NEW t \in Seq(Bytes) PROVE CharsIn(e \o t) = e \o CharsIn(e \o t)
  <2>1. e \o t = t
    BY <1>1, ConcatEmptySeq
  <2>2. CharsIn(t) \in Seq(Seq(Bytes))
    BY PiecesType
  <2> QED
    BY <1>1, <2>1, <2>2, ConcatEmptySeq
<1>6. Streams(e, e, e)
  BY <1>2, <1>5 DEF Streams
<1> QED
  BY <1>1, <1>4, <1>6

\* Bytes that are sampled wait behind what is pending.
LEMMA MoreSampled ==
    ASSUME NEW all \in Seq(Bytes), NEW p, NEW o, Streams(all, p, o), NEW b \in Seq(Bytes)
    PROVE  Streams(all \o b, p \o b, o)
<1>1. p \in Seq(Bytes) /\ o \in Seq(Seq(Bytes))
  BY DEF Streams
<1>2. p \o b \in Seq(Bytes)
  BY ONLY <1>1, b \in Seq(Bytes)
<1>3. ASSUME NEW t \in Seq(Bytes) PROVE CharsIn((all \o b) \o t) = o \o CharsIn((p \o b) \o t)
  <2>1. b \o t \in Seq(Bytes)
    OBVIOUS
  <2>2. CharsIn(all \o (b \o t)) = o \o CharsIn(p \o (b \o t))
    BY <2>1 DEF Streams
  <2>3. (all \o b) \o t = all \o (b \o t) /\ (p \o b) \o t = p \o (b \o t)
    <3>1. (all \o b) \o t = all \o (b \o t)
      BY ConcatAssociative
    <3>2. (p \o b) \o t = p \o (b \o t)
      <4>1. p \in Seq(Bytes)
        BY <1>1
      <4> QED
        BY ONLY <4>1, b \in Seq(Bytes), t \in Seq(Bytes), ConcatAssociative
    <3> QED
      BY <3>1, <3>2
  <2> QED
    BY <2>2, <2>3
<1> QED
  BY <1>1, <1>2, <1>3 DEF Streams

\* Every id has bytes, if perhaps none.
LEMMA BytesOfToken ==
    ASSUME NEW id
    PROVE  TokenBytes(id) \in Seq(Bytes)
<1>1. ASSUME id \in DOMAIN Vocab PROVE Vocab[id].bytes \in Seq(Bytes)
  <2>1. Vocab[id] \in [bytes : Seq(Bytes), control : BOOLEAN]
    <3>1. PICK R : R = [bytes : Seq(Bytes), control : BOOLEAN]
      OBVIOUS
    <3>2. Vocab \in Seq(R)
      BY <3>1, TokenizerAssumption
    <3>3. Vocab[id] \in R
      BY ONLY <1>1, <3>2
    <3> QED
      BY <3>1, <3>3
  <2> QED
    BY <2>1
<1> QED
  BY <1>1 DEF TokenBytes

\* The invariant holds before the first chunk.
LEMMA TextInit == Init => TextInv
<1> SUFFICES ASSUME Init PROVE TextInv
  OBVIOUS
<1>1. rest \in Seq(Seq(Bytes))
  BY TextAssumption DEF Init
<1>2. <<>> \in Seq(Bytes) /\ <<>> \in Seq(Seq(Bytes))
  OBVIOUS
<1> QED
  BY <1>1, <1>2 DEF Init, TextInv, Answering

\* Every step keeps the invariant.
LEMMA TextStep == TextInv /\ [Next]_vars => TextInv'
<1> SUFFICES ASSUME TextInv, [Next]_vars PROVE TextInv'
  OBVIOUS
<1>1. CASE NextChunk
  <2>1. UNCHANGED answer /\ pc = "chunks" /\ pc' = "merge" /\ rest' = SubSeq(rest, MatchOne(rest) + 1, Len(rest))
    BY <1>1 DEF NextChunk
  <2>2. rest' \in Seq(Seq(Bytes))
    <3>1. rest \in Seq(Seq(Bytes)) /\ rest # <<>>
      BY <1>1 DEF NextChunk, TextInv
    <3>2. MatchOne(rest) \in 1..Len(rest)
      BY <3>1, TokenizerAssumption, MatcherMatches
    <3>3. \A i \in MatchOne(rest) + 1..Len(rest) : rest[i] \in Seq(Bytes)
      BY <3>1, <3>2
    <3> QED
      BY <2>1, <3>1, <3>2, <3>3
  <2> QED
    BY <2>1, <2>2 DEF TextInv, Answering, answer
<1>2. CASE MergeBest
  BY <1>2 DEF MergeBest, TextInv, Answering, answer
<1>3. CASE EndChunk
  BY <1>3 DEF EndChunk, TextInv, Answering, answer
<1>4. CASE Prefill
  BY <1>4, NothingYet DEF Prefill, TextInv, Answering, answer
<1>5. ASSUME NEW id \in Sampled, Emit(id) PROVE TextInv'
  <2>1. PICK b \in Seq(Bytes) : b = TokenBytes(id)
    BY BytesOfToken
  <2>2. PICK f : f = FlushUtf8(pending \o b, text)
    OBVIOUS
  <2>3. /\ pc = "generate" /\ pc' = pc /\ rest' = rest
        /\ stream' = stream \o b /\ pending' = f.pending /\ text' = f.out
    BY <1>5, <2>1, <2>2 DEF Emit, encoding
  <2>4. stream \in Seq(Bytes) /\ Streams(stream, pending, text) /\ rest \in Seq(Seq(Bytes))
    BY <2>3 DEF TextInv, Answering
  <2>5. stream' \in Seq(Bytes)
    BY <2>3, <2>4
  <2>6. Streams(stream', pending \o b, text)
    BY <2>3, <2>4, MoreSampled
  <2>7. Streams(stream', pending', text') /\ Settled(pending')
    BY <2>2, <2>3, <2>5, <2>6, FlushStreams
  <2> QED
    BY <2>3, <2>4, <2>5, <2>7 DEF TextInv, Answering, Streams
<1>6. CASE Stop
  <2>1. NoOutput \in Seq(Seq(Bytes)) /\ <<>> \in Seq(Bytes)
    <3>1. Quote \in Seq(Bytes)
      BY TokenizerAssumption
    <3> QED
      BY <3>1 DEF NoOutput
  <2> QED
    BY <1>6, <2>1 DEF Stop, TextInv, Answering, encoding
<1>7. CASE Up \/ Down \/ PageUp \/ PageDown \/ Draw
  BY <1>7 DEF Up, Down, PageUp, PageDown, Draw, Key, TextInv, Answering, encoding, answer
<1>8. CASE UNCHANGED vars
  BY <1>8 DEF vars, encoding, answer, TextInv, Answering
<1> QED
  BY <1>1, <1>2, <1>3, <1>4, <1>5, <1>6, <1>7, <1>8 DEF Next

\* The invariant holds always.
THEOREM TextInvariant == Spec => []TextInv
<1>1. Init => TextInv
  BY TextInit
<1>2. TextInv /\ [Next]_vars => TextInv'
  BY TextStep
<1> QED
  BY <1>1, <1>2, PTL DEF Spec

\* match_one takes the longest match of the first alternative of the pattern
\* that matches at all, whatever is left of the prompt.
THEOREM TakesThePattern == Spec => []MatcherIsPattern
<1>1. TextInv => MatcherIsPattern
  <2> SUFFICES ASSUME TextInv, rest # <<>> PROVE MatchOne(rest) = PatternLength(rest)
    BY DEF MatcherIsPattern
  <2>1. rest \in Seq(Seq(Bytes))
    BY DEF TextInv
  <2> QED
    BY <2>1, TokenizerAssumption, MatcherMatches
<1> QED
  BY <1>1, TextInvariant, PTL

\* Once nothing that is pending can begin a character, the answer is the
\* characters in the bytes.
LEMMA StreamsAll ==
    ASSUME NEW a \in Seq(Bytes), NEW p, NEW o, Streams(a, p, o), Settled(p)
    PROVE  o = CharsIn(a)
<1>1. p \in Seq(Bytes) /\ o \in Seq(Seq(Bytes))
  BY DEF Streams
<1>2. PICK e : e = <<>>
  OBVIOUS
<1>3. e \in Seq(Bytes)
  BY ONLY <1>2
<1>4. CharsIn(a \o e) = o \o CharsIn(p \o e)
  BY <1>3 DEF Streams
<1>5. a \o <<>> = a /\ p \o <<>> = p /\ o \o <<>> = o
  BY <1>1, ConcatEmptySeq
<1>6. CharsIn(p) = <<>>
  BY <1>1, CharsInBegun DEF Settled
<1> QED
  BY ONLY <1>2, <1>4, <1>5, <1>6

\* The answer is exactly the characters in the sampled bytes, however they
\* were cut into tokens.
THEOREM AnswersTheStream == Spec => []AnswerIsStream
<1>1. TextInv => AnswerIsStream
  BY StreamsAll DEF AnswerIsStream, TextInv, Answering
<1> QED
  BY <1>1, TextInvariant, PTL

-----------------------------------------------------------------------------
(* The screen *)

\* A space is a character.
LEMMA SpaceIsChar == Space \in Seq(Bytes)
BY TokenizerAssumption

LEMMA AtMost == ASSUME NEW n \in Int, NEW m \in Int PROVE Min({n, m}) = IF n <= m THEN n ELSE m
<1>1. CASE n <= m
  <2>1. {n, m} \in SUBSET Int /\ n \in {n, m} /\ \A y \in {n, m} : n <= y
    BY <1>1
  <2>2. Min({n, m}) = n
    BY ONLY <2>1, MinIs
  <2> QED
    BY <1>1, <2>2
<1>2. CASE ~(n <= m)
  <2>1. {n, m} \in SUBSET Int /\ m \in {n, m} /\ \A y \in {n, m} : m <= y
    BY <1>2
  <2>2. Min({n, m}) = m
    BY ONLY <2>1, MinIs
  <2> QED
    BY <1>2, <2>2
<1> QED
  BY <1>1, <1>2

\* There is always a line to show.
LEMMA SomeLines ==
    ASSUME NEW a \in Nat, NEW t \in Seq(Seq(Bytes))
    PROVE  /\ a + Len(Wrap(t)) \in Nat \ {0}
           /\ Sat(a + Len(Wrap(t)) - Page) \in Nat
<1>1. Len(Wrap(t)) \in Nat \ {0}
  BY SpaceIsChar, WrapLast
<1>2. PICK n \in Nat \ {0} : n = Len(Wrap(t))
  BY <1>1
<1>3. a + n \in Nat \ {0} /\ Sat(a + n - Page) \in Nat
  BY TextAssumption DEF Sat
<1> QED
  BY <1>2, <1>3

\* Where the screen can be: at the newest line until the answer is there, and
\* within the lines after every redraw.
ScreenInv ==
    /\ prompt \in Seq(Seq(Bytes))
    /\ above \in Nat /\ scroll \in Nat /\ keys \in Nat
    /\ pc # "idle" => scroll = 0 /\ keys = 0
    /\ keys = 0 => scroll <= MaxScroll

LEMMA MaxScrollIs ==
    ASSUME above \in Nat, text \in Seq(Seq(Bytes))
    PROVE  Lines \in Nat \ {0} /\ MaxScroll = Sat(Lines - Page) /\ MaxScroll \in Nat
<1>1. /\ above + Len(Wrap(text)) \in Nat \ {0}
      /\ Sat(above + Len(Wrap(text)) - Page) \in Nat
  BY SomeLines
<1>2. Lines = above + Len(Wrap(text))
  BY DEF Lines
<1>3. Lines \in Nat \ {0} /\ Sat(Lines - Page) \in Nat
  BY <1>1, <1>2, TextAssumption DEF Sat
<1> QED
  BY <1>3 DEF MaxScroll

LEMMA ScreenInit == Init => ScreenInv
<1> SUFFICES ASSUME Init PROVE ScreenInv
  OBVIOUS
<1>1. prompt \in Seq(Seq(Bytes)) /\ above = Intro /\ Intro \in Nat /\ scroll = 0 /\ keys = 0
  BY TextAssumption DEF Init
<1>2. text \in Seq(Seq(Bytes))
  BY TextInit DEF TextInv
<1>3. MaxScroll \in Nat
  BY <1>1, <1>2, MaxScrollIs
<1> QED
  BY <1>1, <1>3 DEF ScreenInv

LEMMA ScreenStep == TextInv /\ TextInv' /\ ScreenInv /\ [Next]_vars => ScreenInv'
<1> SUFFICES ASSUME TextInv, TextInv', ScreenInv, [Next]_vars PROVE ScreenInv'
  OBVIOUS
<1>0. /\ prompt \in Seq(Seq(Bytes)) /\ above \in Nat /\ scroll \in Nat /\ keys \in Nat
      /\ text \in Seq(Seq(Bytes)) /\ text' \in Seq(Seq(Bytes)) /\ Page \in Nat
  BY TextAssumption DEF TextInv, ScreenInv
<1>1. ASSUME above' \in Nat, prompt' \in Seq(Seq(Bytes)), scroll' = 0, keys' = 0 PROVE ScreenInv'
  <2>1. Lines' = above' + Len(Wrap(text'))
    BY DEF Lines
  <2>2. Lines' \in Nat
    BY <1>0, <1>1, <2>1, SomeLines
  <2>3. MaxScroll' = Sat(Lines' - Page)
    BY DEF MaxScroll
  <2>4. MaxScroll' \in Nat
    <3>1. PICK l \in Nat : l = Lines'
      BY <2>2
    <3>2. PICK p \in Nat : p = Page
      BY <1>0
    <3>3. Sat(l - p) \in Nat
      BY DEF Sat
    <3>4. Sat(Lines' - Page) = Sat(l - p)
      BY <3>1, <3>2
    <3> QED
      BY <2>3, <3>3, <3>4
  <2> QED
    BY <1>1, <2>4 DEF ScreenInv
<1>2. CASE NextChunk \/ MergeBest \/ EndChunk
  <2>1. UNCHANGED view /\ UNCHANGED prompt /\ pc # "idle"
    BY <1>2 DEF NextChunk, MergeBest, EndChunk
  <2> QED
    BY <1>0, <1>1, <2>1 DEF ScreenInv, view
<1>3. CASE Prefill
  <2>1. above' = Intro + 1 + Len(Wrap(prompt)) + 1 /\ prompt' = <<>> /\ UNCHANGED <<scroll, keys>> /\ pc = "chunks"
    BY <1>3 DEF Prefill
  <2>2. Len(Wrap(prompt)) \in Nat
    BY <1>0, SpaceIsChar, WrapLast
  <2>3. Intro \in Nat
    BY TextAssumption
  <2>4. above' \in Nat /\ prompt' \in Seq(Seq(Bytes))
    <3>1. PICK n \in Nat : n = Len(Wrap(prompt))
      BY <2>2
    <3> QED
      BY <2>1, <2>3, <3>1
  <2> QED
    BY <1>1, <2>1, <2>4 DEF ScreenInv
<1>4. CASE (\E id \in Sampled : Emit(id)) \/ Stop
  <2>1. UNCHANGED view /\ UNCHANGED prompt /\ pc # "idle"
    BY <1>4 DEF Emit, Stop, encoding
  <2> QED
    BY <1>0, <1>1, <2>1 DEF ScreenInv, view
<1>5. CASE Up \/ Down \/ PageUp \/ PageDown
  <2>1. PICK change \in Int : Key(change)
    BY <1>0, <1>5 DEF Up, Down, PageUp, PageDown
  <2>2. keys' = keys + 1 /\ scroll' = Sat(scroll + change) /\ pc' = "idle" /\ UNCHANGED <<prompt, above>>
    BY <2>1 DEF Key, encoding
  <2>3. scroll' \in Nat /\ keys' \in Nat /\ keys' # 0
    BY <1>0, <2>2 DEF Sat
  <2> QED
    BY <1>0, <2>2, <2>3 DEF ScreenInv
<1>6. CASE Draw
  <2>1. keys' = 0 /\ scroll' = Clamped(scroll) /\ pc' = "idle" /\ UNCHANGED <<prompt, above, text>>
    BY <1>6 DEF Draw, encoding, answer
  <2>2. PICK m \in Nat : m = MaxScroll
    BY <1>0, MaxScrollIs
  <2>3. scroll' = IF scroll <= m THEN scroll ELSE m
    BY <1>0, <2>1, <2>2, AtMost DEF Clamped
  <2>4. MaxScroll' = m
    BY <2>1, <2>2 DEF MaxScroll, Lines
  <2>5. scroll' \in Nat /\ scroll' <= m
    BY <1>0, <2>3
  <2> QED
    BY <1>0, <2>1, <2>4, <2>5 DEF ScreenInv
<1>7. CASE UNCHANGED vars
  BY <1>7 DEF vars, encoding, answer, view, ScreenInv, MaxScroll, Lines
<1> QED
  BY <1>2, <1>3, <1>4, <1>5, <1>6, <1>7 DEF Next

LEMMA Screens == Spec => []ScreenInv
<1>1. Init => ScreenInv
  BY ScreenInit
<1>2. TextInv /\ TextInv' /\ ScreenInv /\ [Next]_vars => ScreenInv'
  BY ScreenStep
<1> QED
  BY <1>1, <1>2, TextInvariant, PTL DEF Spec

\* wrap loses, adds and moves no visible character of any answer, and makes no
\* line that is wider than the column.
THEOREM WrapsTheText == Spec => []WrapKeepsText
<1>1. TextInv => WrapKeepsText
  <2> SUFFICES ASSUME TextInv PROVE WrapKeepsText
    OBVIOUS
  <2>1. text \in Seq(Seq(Bytes))
    BY DEF TextInv
  <2>2. Wrap(text) \in Seq(Narrow(Seq(Bytes))) /\ Visible(FlattenSeq(Wrap(text))) = Visible(text)
    BY <2>1, SpaceIsChar, WrapKeeps
  <2>3. PICK w : w = Wrap(text)
    OBVIOUS
  <2>4. \A i \in DOMAIN w : w[i] \in Narrow(Seq(Bytes))
    <3>1. PICK N : N = Narrow(Seq(Bytes))
      OBVIOUS
    <3>2. w \in Seq(N)
      BY <2>2, <2>3, <3>1
    <3>3. \A i \in DOMAIN w : w[i] \in N
      BY ONLY <3>2
    <3> QED
      BY <3>1, <3>3
  <2>5. \A i \in DOMAIN w : Len(w[i]) <= Cols
    BY <2>4 DEF Narrow
  <2> QED
    BY <2>2, <2>3, <2>5 DEF WrapKeepsText
<1> QED
  BY <1>1, TextInvariant, PTL

\* The two halves of ScreenSteady.
LinesStay == pc = "generate" /\ pc' = "generate" => IsPrefix(Front(Wrap(text)), Wrap(text'))

KeysMove ==
    keys = 0 /\ keys' = 1 =>
        LET seen == Window(scroll) IN
        /\ scroll' < scroll /\ Lines \notin seen => Window(scroll') # seen
        /\ scroll' > scroll /\ 1 \notin seen => Window(scroll') # seen

\* A token only adds to the answer.
LEMMA AnswerGrows ==
    ASSUME TextInv, TextInv', NEW id, Emit(id)
    PROVE  \E u \in Seq(Seq(Bytes)) : text' = text \o u
<1>1. PICK b \in Seq(Bytes) : b = TokenBytes(id)
  BY BytesOfToken
<1>2. pc = "generate" /\ pc' = "generate" /\ stream' = stream \o b
  BY <1>1 DEF Emit
<1>3. /\ Streams(stream, pending, text) /\ stream \in Seq(Bytes) /\ pending \in Seq(Bytes)
      /\ Streams(stream', pending', text') /\ Settled(pending') /\ stream' \in Seq(Bytes)
  BY <1>2 DEF TextInv, Answering
<1>4. text' = CharsIn(stream')
  BY <1>3, StreamsAll
<1>5. CharsIn(stream \o b) = text \o CharsIn(pending \o b)
  BY <1>3 DEF Streams
<1>6. pending \o b \in Seq(Bytes)
  BY ONLY <1>3, b \in Seq(Bytes)
<1>7. CharsIn(pending \o b) \in Seq(Seq(Bytes))
  BY <1>6, PiecesType
<1> QED
  BY <1>2, <1>4, <1>5, <1>7

LEMMA LinesStep == TextInv /\ TextInv' /\ [Next]_vars => LinesStay
<1> SUFFICES ASSUME TextInv, TextInv', [Next]_vars, pc = "generate", pc' = "generate"
             PROVE  IsPrefix(Front(Wrap(text)), Wrap(text'))
  BY DEF LinesStay
<1>0. text \in Seq(Seq(Bytes)) /\ Space \in Seq(Bytes)
  BY SpaceIsChar DEF TextInv
<1>1. \E u \in Seq(Seq(Bytes)) : text' = text \o u
  <2>1. CASE \E id \in Sampled : Emit(id)
    BY <2>1, AnswerGrows
  <2>2. CASE UNCHANGED vars
    <3>1. text' = text \o <<>>
      BY <1>0, <2>2, ConcatEmptySeq DEF vars, answer
    <3>2. <<>> \in Seq(Seq(Bytes))
      OBVIOUS
    <3> QED
      BY <3>1, <3>2
  <2> QED
    BY <2>1, <2>2 DEF Next, NextChunk, MergeBest, EndChunk, Prefill, Stop, Up, Down, PageUp, PageDown, Key, Draw
<1>2. PICK u \in Seq(Seq(Bytes)) : text' = text \o u
  BY <1>1
<1>3. IsPrefix(Front(Wrap(text)), Wrap(text \o u))
  BY <1>0, WrapGrows
<1> QED
  BY <1>2, <1>3

LEMMA KeysStep == TextInv /\ ScreenInv /\ [Next]_vars => KeysMove
<1> SUFFICES ASSUME TextInv, ScreenInv, [Next]_vars, keys = 0, keys' = 1 PROVE KeysMove
  BY DEF KeysMove
<1>1. PICK change \in Int : scroll' = Sat(scroll + change)
  <2>1. CASE Up \/ Down \/ PageUp \/ PageDown
    <3>1. Page \in Int
      BY TextAssumption
    <3>2. 3 \in Int /\ -3 \in Int /\ -Page \in Int
      BY <3>1
    <3>3. Key(3) \/ Key(-3) \/ Key(Page) \/ Key(-Page)
      BY <2>1 DEF Up, Down, PageUp, PageDown
    <3>4. \E change \in Int : Key(change)
      BY <3>1, <3>2, <3>3
    <3> QED
      BY <3>4 DEF Key
  <2>2. CASE Draw
    BY <2>2 DEF Draw
  <2>3. CASE ~(Up \/ Down \/ PageUp \/ PageDown \/ Draw)
    <3>1. keys' = keys
      BY <2>3 DEF Next, NextChunk, MergeBest, EndChunk, Prefill, Emit, Stop, view, vars
    <3> QED
      BY <3>1
  <2> QED
    BY <2>1, <2>2, <2>3
<1>2. PICK l \in Nat \ {0}, m \in Nat : l = Lines /\ m = MaxScroll /\ m = Sat(l - Page)
  BY MaxScrollIs DEF TextInv, ScreenInv
<1>3. PICK n \in Nat, k \in Nat : n = scroll /\ k = scroll' /\ n <= m
  BY <1>1, <1>2 DEF ScreenInv, Sat
<1>4. Page \in Nat /\ Page >= 1
  BY TextAssumption
<1> DEFINE C(j) == IF j <= m THEN j ELSE m
           Low(j) == Sat(l - C(j) - Page)
<1>5. ASSUME NEW j \in Nat PROVE Window(j) = Low(j) + 1..l - C(j)
  <2>1. Clamped(j) = C(j) /\ C(j) \in Nat
    BY <1>2, AtMost DEF Clamped
  <2> QED
    BY <1>2, <2>1 DEF Window
<1>6. ASSUME k < n PROVE Window(k) # Window(n)
  <2>1. Window(k) = Low(k) + 1..l - k /\ Window(n) = Low(n) + 1..l - n /\ C(k) = k
    BY <1>3, <1>5, <1>6
  <2>2. k < l - Page
    BY <1>2, <1>3, <1>4, <1>6 DEF Sat
  <2>3. Low(k) + 1 <= l - k /\ Low(k) \in Int /\ ~(l - k <= l - n)
    BY <1>4, <1>6, <2>1, <2>2 DEF Sat
  <2>4. l - k \in Window(k) /\ l - k \notin Window(n)
    BY <2>1, <2>3
  <2> QED
    BY <2>4
<1>7. ASSUME k > n, 1 \notin Window(n) PROVE Window(k) # Window(n)
  <2>1. n < m
    BY <1>2, <1>3, <1>4, <1>5, <1>7 DEF Sat
  <2>2. l - n \in Window(n) /\ l - n \notin Window(k)
    BY <1>2, <1>3, <1>4, <1>5, <1>7, <2>1 DEF Sat
  <2> QED
    BY <2>2
<1> QED
  BY <1>3, <1>6, <1>7 DEF KeysMove

\* While an answer streams in the lines above its last one stay, and after a
\* redraw every key moves the window that can.
THEOREM ScreenStaysSteady == Spec => ScreenSteady
<1>1. TextInv /\ TextInv' /\ ScreenInv /\ [Next]_vars => [LinesStay /\ KeysMove]_vars
  BY LinesStep, KeysStep
<1>2. Spec => [][LinesStay /\ KeysMove]_vars
  BY <1>1, TextInvariant, Screens, PTL DEF Spec
<1>3. [LinesStay /\ KeysMove]_vars =>
        [/\ pc = "generate" /\ pc' = "generate" => IsPrefix(Front(Wrap(text)), Wrap(text'))
         /\ keys = 0 /\ keys' = 1 =>
              LET seen == Window(scroll) IN
              /\ scroll' < scroll /\ Lines \notin seen => Window(scroll') # seen
              /\ scroll' > scroll /\ 1 \notin seen => Window(scroll') # seen]_vars
  BY DEF LinesStay, KeysMove
<1> QED
  BY <1>2, <1>3, PTL DEF ScreenSteady
=============================================================================
