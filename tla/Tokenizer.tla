------------------------------ MODULE Tokenizer ------------------------------
(***************************************************************************)
(* From text to token ids and back (crates/nr-token), with the tables that *)
(* tools/nrconvert builds from the GGUF vocabulary.                        *)
(*                                                                         *)
(* A byte is a name; a character is the sequence of its UTF-8 bytes, so    *)
(* text is a sequence of sequences.  Of the bytes only what UTF-8 tells    *)
(* apart is kept (a continuation byte is below or above A0), of the        *)
(* characters the classes of the pre-tokenizer.  Token ids are positions   *)
(* in the vocabulary.                                                      *)
(***************************************************************************)
EXTENDS Integers, Sequences, FiniteSetsExt, SequencesExt

CONSTANTS
    Bytes,          \* all bytes
    Ascii,          \* the bytes that are characters by themselves
    Lead,           \* bytes that begin a longer one: its length and second bytes
    Letters, Numbers, Newlines, Blanks,     \* classes of characters
    Space, Quote,   \* two single characters
    Contractions,   \* what may follow the quote: s, t, re, ...
    MaxDigits,      \* 3 for llama3 and granite, 1 for qwen2
    Vocab,          \* the GGUF's tokens: bytes and control flag
    Merges          \* the GGUF's merges by rank, pairs of byte sequences

Continuation == {"lo", "hi"}

ASSUME TokenizerAssumption ==
    /\ MaxDigits \in {1, 3}
    /\ Blanks \subseteq Seq(Bytes)
    /\ Newlines \subseteq Blanks /\ Newlines # {} /\ Space \in Blanks \ Newlines
    /\ Quote \in Seq(Bytes) /\ Contractions \subseteq Seq(Seq(Bytes))
    /\ \A t, u \in Contractions : t # <<>> /\ (IsPrefix(t, u) => t = u)
    /\ Ascii \cup DOMAIN Lead \cup Continuation \subseteq Bytes
    /\ Ascii \cap DOMAIN Lead = {} /\ Continuation \cap (Ascii \cup DOMAIN Lead) = {}
    /\ \A l \in DOMAIN Lead : Lead[l].len \in 2..4 /\ Lead[l].second \subseteq Continuation
    /\ Vocab \in Seq([bytes : Seq(Bytes), control : BOOLEAN])

-----------------------------------------------------------------------------
(* UTF-8, as core::str::from_utf8 reads it *)

\* b is a character, or the beginning of one.
Begins(b) ==
    \/ Len(b) = 1 /\ b[1] \in Ascii
    \/ /\ b # <<>> /\ b[1] \in DOMAIN Lead /\ Len(b) <= Lead[b[1]].len
       /\ \A i \in 2..Len(b) : b[i] \in IF i = 2 THEN Lead[b[1]].second ELSE Continuation

IsChar(b) == Begins(b) /\ (b[1] \in Ascii \/ Len(b) = Lead[b[1]].len)

\* The length of the character at the beginning of b, 0 if there is none.
CharLen(b) == Max({0} \cup {n \in 1..Len(b) : n <= 4 /\ IsChar(SubSeq(b, 1, n))})

\* Mutant of FlushStep: a character that is not complete is dropped.
FlushStepEager(f) ==
    LET n == CharLen(f.pending) IN
    IF n > 0 THEN [pending |-> SubSeq(f.pending, n + 1, Len(f.pending)),
                   out     |-> Append(f.out, SubSeq(f.pending, 1, n))]
    ELSE IF f.pending = <<>> THEN f
    ELSE [pending |-> Tail(f.pending), out |-> f.out]

\* Once around flush_utf8's loop: a whole character goes out, an invalid first
\* byte is dropped, an incomplete character at the front waits for more.
FlushStep(f) ==
    LET n == CharLen(f.pending) IN
    IF n > 0 THEN [pending |-> SubSeq(f.pending, n + 1, Len(f.pending)),
                   out     |-> Append(f.out, SubSeq(f.pending, 1, n))]
    ELSE IF f.pending = <<>> \/ Begins(f.pending) THEN f
    ELSE [pending |-> Tail(f.pending), out |-> f.out]

\* flush_utf8: every round shortens pending, or is the last.
FlushUtf8(pending, out) ==
    LET flush[k \in 0..Len(pending)] ==
            IF k = 0 THEN [pending |-> pending, out |-> out] ELSE FlushStep(flush[k - 1])
    IN  flush[Len(pending)]

-----------------------------------------------------------------------------
(* pretok.rs: each alternative returns the length it matches, 0 for none *)

\* Where the run of characters in S that begins after position from ends.
RunEnd(s, from, S) == Max({n \in from..Len(s) : \A i \in from + 1..n : s[i] \in S})

\* As RunEnd, for characters outside S.
RunOutside(s, from, S) == Max({n \in from..Len(s) : \A i \in from + 1..n : s[i] \notin S})

Contraction(s) ==
    LET tails == {t \in Contractions : IsPrefix(<<Quote>> \o t, s)} IN
    IF tails = {} THEN 0 ELSE 1 + Len(CHOOSE t \in tails : TRUE)

Word(s) ==
    IF s[1] \in Letters THEN RunEnd(s, 0, Letters)
    ELSE IF s[1] \notin Newlines \cup Numbers /\ Len(s) > 1 /\ s[2] \in Letters
    THEN RunEnd(s, 1, Letters)
    ELSE 0

Number(s) == Min({MaxDigits, RunEnd(s, 0, Numbers)})

Punctuation(s) ==
    LET start == IF s[1] = Space THEN 1 ELSE 0
        end   == RunOutside(s, start, Blanks \cup Letters \cup Numbers)
    IN  IF end > start THEN RunEnd(s, end, Newlines) ELSE 0

\* Mutant of Whitespace: the blank before a word is not left to the word.
WhitespaceWhole(s) ==
    LET run == RunEnd(s, 0, Blanks)
        nls == {i \in 1..run : s[i] \in Newlines}
    IN  IF nls # {} THEN Max(nls) ELSE run

Whitespace(s) ==
    LET run == RunEnd(s, 0, Blanks)
        nls == {i \in 1..run : s[i] \in Newlines}
    IN  IF nls # {} THEN Max(nls)
        ELSE IF run < Len(s) /\ run > 1 THEN run - 1
        ELSE run

\* match_one: the first alternative that matches; a character that none of
\* them takes is a chunk of its own.
MatchOne(s) ==
    LET alternatives == <<Contraction(s), Word(s), Number(s), Punctuation(s), Whitespace(s), 1>>
    IN  alternatives[Min({i \in DOMAIN alternatives : alternatives[i] > 0})]

-----------------------------------------------------------------------------
(* The tables of tools/nrconvert/src/tokenizer.rs and their use in blob.rs *)

\* by_bytes: the tokens spelled b, control tokens left out; the first wins.
ByBytes(b) == {id \in DOMAIN Vocab : Vocab[id].bytes = b /\ ~Vocab[id].control}

\* The merges whose three tokens exist, sorted by left and right id.
Resolved ==
    LET ranks == {k \in DOMAIN Merges :
                    {} \notin {ByBytes(b) : b \in {Merges[k][1], Merges[k][2], Merges[k][1] \o Merges[k][2]}}}
        entry(k) == [left   |-> Min(ByBytes(Merges[k][1])),
                     right  |-> Min(ByBytes(Merges[k][2])),
                     result |-> Min(ByBytes(Merges[k][1] \o Merges[k][2])),
                     rank   |-> k]
    IN  SetToSortSeq({entry(k) : k \in ranks},
            LAMBDA e, f : e.left < f.left \/ (e.left = f.left /\ e.right < f.right))

\* Tokenizer::merge, a binary search over Resolved: half's b.lo and b.hi after
\* some rounds.  NoMerge if it fails.
NoMerge == [result |-> 0, rank |-> 0]

Middle(b) == Resolved[(b.lo + b.hi) \div 2 + 1]

Halve(left, right, b) ==
    LET e == Middle(b) IN
    IF b.lo >= b.hi \/ (e.left = left /\ e.right = right) THEN b
    ELSE IF e.left < left \/ (e.left = left /\ e.right < right)
    THEN [b EXCEPT !.lo = (b.lo + b.hi) \div 2 + 1]
    ELSE [b EXCEPT !.hi = (b.lo + b.hi) \div 2]

Merge(left, right) ==
    LET half[k \in 0..Len(Resolved)] ==
            IF k = 0 THEN [lo |-> 0, hi |-> Len(Resolved)] ELSE Halve(left, right, half[k - 1])
        b == half[Len(Resolved)]
    IN  IF b.lo < b.hi THEN [result |-> Middle(b).result, rank |-> Middle(b).rank] ELSE NoMerge

\* The pairs of ids that can be merged.
Pairs(ids) == {i \in 1..Len(ids) - 1 : Merge(ids[i], ids[i + 1]) # NoMerge}

\* Mutant of BestPair: of equal ranks the last is taken.
BestPairLast(ids) ==
    LET rank(i) == Merge(ids[i], ids[i + 1]).rank IN
    CHOOSE i \in Pairs(ids) : \A j \in Pairs(ids) : rank(i) < rank(j) \/ (rank(i) = rank(j) /\ i >= j)

\* The pair encode_chunk merges next: lowest rank, and the first of these.
BestPair(ids) ==
    LET rank(i) == Merge(ids[i], ids[i + 1]).rank IN
    CHOOSE i \in Pairs(ids) : \A j \in Pairs(ids) : rank(i) < rank(j) \/ (rank(i) = rank(j) /\ i <= j)

\* token_bytes; an id beyond the vocabulary has none.
TokenBytes(id) == IF id \in DOMAIN Vocab THEN Vocab[id].bytes ELSE <<>>

ByteToken(b) == Min(ByBytes(<<b>>))

Spelling(ids) == [i \in DOMAIN ids |-> TokenBytes(ids[i])]
=============================================================================
