-------------------------------- MODULE Text --------------------------------
(***************************************************************************)
(* What happens to text on its way through the appliance: a prompt is cut  *)
(* into chunks and encoded (Tokenizer::encode_text), the ids are prefilled *)
(* and forgotten, the sampled tokens come back as bytes that need not end  *)
(* with a character (flush_utf8 in generate), the answer is wrapped and    *)
(* shown in a window that the arrow keys move (nr-ui/chat.rs, chat_loop).  *)
(*                                                                         *)
(* Of the turns before the answer only the number of their lines matters.  *)
(***************************************************************************)
EXTENDS Tokenizer

CONSTANTS
    Prompts,        \* texts that may be asked
    Sampled,        \* ids the sampler may return; one may be out of range
    MaxTokens,      \* tokens of an answer
    Cols,           \* body_cols: columns of the answer, at least 8
    Page,           \* max_lines and page_lines: lines of the window
    Intro,          \* lines of the turns before the prompt
    KeysPerFrame    \* keys handled between two redraws

ASSUME TextAssumption ==
    /\ Prompts \subseteq Seq(Seq(Bytes))
    /\ {Cols, Page, MaxTokens, Intro, KeysPerFrame} \subseteq Nat
    /\ Cols >= 8 /\ Page >= 1

VARIABLES
    pc,
    prompt, rest,       \* the text to encode, and what Chunks has left of it
    chunk, ids,         \* the chunk in hand, and its tokens so far
    out,                \* the ids of the chunks before
    stream, pending,    \* bytes sampled so far (history); utf8_pending
    text, produced,     \* the answer, and the number of its tokens
    above,              \* lines of the turns before it
    scroll, keys        \* scroll; keys since the last redraw

encoding == <<prompt, rest, chunk, ids, out>>
answer   == <<stream, pending, text, produced>>
view     == <<above, scroll, keys>>
vars     == <<pc, encoding, answer, view>>

Init ==
    /\ pc = "chunks"
    /\ prompt \in Prompts /\ rest = prompt
    /\ chunk = <<>> /\ ids = <<>> /\ out = <<>>
    /\ stream = <<>> /\ pending = <<>> /\ text = <<>> /\ produced = 0
    /\ above = Intro /\ scroll = 0 /\ keys = 0

-----------------------------------------------------------------------------
(* Encoding the prompt *)

\* Chunks::next, and the byte tokens encode_chunk starts from.
NextChunk ==
    LET n == MatchOne(rest) IN
    /\ pc = "chunks" /\ rest # <<>>
    /\ chunk' = SubSeq(rest, 1, n)
    /\ rest' = SubSeq(rest, n + 1, Len(rest))
    /\ ids' = [i \in DOMAIN FlattenSeq(chunk') |-> ByteToken(FlattenSeq(chunk')[i])]
    /\ pc' = "merge"
    /\ UNCHANGED <<prompt, out, answer, view>>

\* One round of encode_chunk's loop.
MergeBest ==
    /\ pc = "merge" /\ Pairs(ids) # {}
    /\ \E i \in {BestPair(ids)} :
          ids' = RemoveAt([ids EXCEPT ![i] = Merge(ids[i], ids[i + 1]).result], i + 1)
    /\ UNCHANGED <<pc, prompt, rest, chunk, out, answer, view>>

EndChunk ==
    /\ pc = "merge" /\ Pairs(ids) = {}
    /\ out' = out \o ids
    /\ ids' = <<>> /\ chunk' = <<>>
    /\ pc' = "chunks"
    /\ UNCHANGED <<prompt, rest, answer, view>>

-----------------------------------------------------------------------------
(* Wrapping: wrap and push_word *)

\* The pieces of s between its separators, as str::split yields them.
AddChar(pieces, c, sep) ==
    IF c = sep THEN Append(pieces, <<>>) ELSE Append(Front(pieces), Append(Last(pieces), c))

Split(s, sep) ==
    LET pieces[k \in 0..Len(s)] ==
            IF k = 0 THEN <<<<>>>> ELSE AddChar(pieces[k - 1], s[k], sep)
    IN  pieces[Len(s)]

\* Mutant of PushWord: a long word keeps its first piece on the line only.
PushWordCut(lines, word) ==
    LET full == IF word = <<>> THEN 0 ELSE (Len(word) - 1) \div Cols IN
    [done |-> lines, line |-> SubSeq(word, full * Cols + 1, Len(word))]

\* push_word on an empty line: pieces of Cols characters, the rest stays.
PushWord(lines, word) ==
    LET full == IF word = <<>> THEN 0 ELSE (Len(word) - 1) \div Cols IN
    [done |-> lines \o [k \in 1..full |-> SubSeq(word, (k - 1) * Cols + 1, k * Cols)],
     line |-> SubSeq(word, full * Cols + 1, Len(word))]

\* Mutant of AddWord: a word too long for any line begins on this one.
AddWordBreaks(w, word) ==
    IF w.line = <<>> THEN PushWord(w.done, word)
    ELSE IF Len(w.line) + 1 + Len(word) <= Cols
    THEN [w EXCEPT !.line = @ \o <<Space>> \o word]
    ELSE IF Len(word) > Cols THEN PushWord(w.done, w.line \o <<Space>> \o word)
    ELSE PushWord(Append(w.done, w.line), word)

AddWord(w, word) ==
    IF w.line = <<>> THEN PushWord(w.done, word)
    ELSE IF Len(w.line) + 1 + Len(word) <= Cols
    THEN [w EXCEPT !.line = @ \o <<Space>> \o word]
    ELSE PushWord(Append(w.done, w.line), word)

\* The words of a paragraph: its finished lines, and the last one.
AddWords(words) ==
    LET added[k \in 0..Len(words)] ==
            IF k = 0 THEN [done |-> <<>>, line |-> <<>>] ELSE AddWord(added[k - 1], words[k])
    IN  added[Len(words)]

Paragraph(p) == LET w == AddWords(Split(p, Space)) IN Append(w.done, w.line)

\* wrap, with cols = Cols; NL is the newline character.
NL == CHOOSE c \in Newlines : TRUE

Wrap(s) == LET pieces == Split(s, NL) IN FlattenSeq([k \in DOMAIN pieces |-> Paragraph(pieces[k])])

-----------------------------------------------------------------------------
(* Generating *)

\* generate up to the first token: the ids go to prefill_chunk, the turn of
\* the user and an empty one for the model are on the screen, each after a
\* separator.
Prefill ==
    /\ pc = "chunks" /\ rest = <<>>
    /\ above' = Intro + 1 + Len(Wrap(prompt)) + 1
    /\ prompt' = <<>> /\ out' = <<>>
    /\ pc' = "generate"
    /\ UNCHANGED <<rest, chunk, ids, answer, scroll, keys>>

\* One round of generate's loop.  It redraws with scroll 0.
Emit(id) ==
    LET f == FlushUtf8(pending \o TokenBytes(id), text) IN
    /\ pc = "generate" /\ produced < MaxTokens
    /\ stream' = stream \o TokenBytes(id)
    /\ pending' = f.pending /\ text' = f.out
    /\ produced' = produced + 1
    /\ UNCHANGED <<pc, encoding, view>>

\* A stop token, the budget or ESC; utf8_pending is dropped.
NoOutput == <<Quote>>   \* stands for "(no output)"

Stop ==
    /\ pc = "generate"
    /\ pending' = <<>> /\ stream' = <<>>
    /\ text' = IF text = <<>> THEN NoOutput ELSE text
    /\ produced' = 0
    /\ pc' = "idle"
    /\ UNCHANGED <<encoding, view>>

-----------------------------------------------------------------------------
(* Scrolling *)

\* What is left after saturating_sub.
Sat(n) == IF n > 0 THEN n ELSE 0

Lines == above + Len(Wrap(text))

MaxScroll == Sat(Lines - Page)

Clamped(n) == Min({n, MaxScroll})

\* The lines on the screen, as scrollback cuts them out of all lines.
Window(n) == Sat(Lines - Clamped(n) - Page) + 1..Lines - Clamped(n)

Key(change) ==
    /\ pc = "idle" /\ keys < KeysPerFrame
    /\ keys' = keys + 1
    /\ scroll' = Sat(scroll + change)
    /\ UNCHANGED <<pc, encoding, answer, above>>

Up       == Key(3)
Down     == Key(-3)
PageUp   == Key(Page)
PageDown == Key(-Page)

\* The frame ends: draw_chat returns the clamped value, and it is kept.
Draw ==
    /\ pc = "idle" /\ keys > 0
    /\ keys' = 0 /\ scroll' = Clamped(scroll)
    /\ UNCHANGED <<pc, encoding, answer, above>>

Next ==
    \/ NextChunk \/ MergeBest \/ EndChunk \/ Prefill
    \/ (\E id \in Sampled : Emit(id)) \/ Stop
    \/ Up \/ Down \/ PageUp \/ PageDown \/ Draw

Spec == Init /\ [][Next]_vars

-----------------------------------------------------------------------------
(* Properties of the encoder *)

Contracted == {<<Quote>> \o t : t \in Contractions}

\* The seven alternatives of the pattern at the head of pretok.rs: the first
\* n characters of s match alternative k.
Matches(k, s, n) ==
    LET all(from, to, S) == \A i \in from..to : s[i] \in S
        other(c) == c \notin Blanks \cup Letters \cup Numbers
    IN CASE k = 1 -> SubSeq(s, 1, n) \in Contracted
         [] k = 2 -> \E p \in {0, 1} : /\ n > p /\ all(p + 1, n, Letters)
                                       /\ p = 1 => s[1] \notin Newlines \cup Letters \cup Numbers
         [] k = 3 -> n <= MaxDigits /\ all(1, n, Numbers)
         [] k = 4 -> \E p \in {0, 1}, m \in 1..n : /\ m > p /\ (p = 1 => s[1] = Space)
                                                   /\ \A i \in p + 1..m : other(s[i])
                                                   /\ all(m + 1, n, Newlines)
         [] k = 5 -> \E m \in 0..n - 1 : all(1, m, Blanks) /\ all(m + 1, n, Newlines)
         [] k = 6 -> all(1, n, Blanks) /\ (n = Len(s) \/ s[n + 1] \in Blanks)
         [] k = 7 -> all(1, n, Blanks)

PatternLength(s) ==
    LET lengths(k) == {n \in 1..Len(s) : Matches(k, s, n)} IN
    Max(lengths(Min({k \in 1..7 : lengths(k) # {}})))

\* The hand-written matcher takes what the pattern takes: the longest match
\* of the first alternative that matches at all, for every text and every
\* remainder of it.
MatcherIsPattern == rest # <<>> => MatchOne(rest) = PatternLength(rest)

\* Byte-pair encoding as it is defined: for each merge by rank, all its pairs
\* from left to right.
Known(m) == {} \notin {ByBytes(b) : b \in {m[1], m[2], m[1] \o m[2]}}

ApplyMerge(s, m) ==
    LET add(acc, x) == IF acc # <<>> /\ Last(acc) = m[1] /\ x = m[2]
                       THEN Append(Front(acc), m[1] \o m[2]) ELSE Append(acc, x)
    IN  FoldLeft(add, <<>>, s)

BytePairs(bytes) ==
    FoldLeft(ApplyMerge, [i \in DOMAIN bytes |-> <<bytes[i]>>], SelectSeq(Merges, Known))

\* "no special tokens are ever produced": a prompt that spells a control
\* token does not become one.
NoSpecials == \A i \in DOMAIN (out \o ids) : ~Vocab[(out \o ids)[i]].control

\* Merging one pair at a time, lowest rank first, with a table that is
\* searched by halving, ends where the definition ends; and no byte is lost,
\* added or moved between the prompt and the tokens of its chunks, nor any
\* control token formed.
EncodesByRank ==
    /\ NoSpecials
    /\ pc = "merge" /\ Pairs(ids) = {} => Spelling(ids) = BytePairs(FlattenSeq(chunk))
    /\ pc = "chunks" => FlattenSeq(Spelling(out)) \o FlattenSeq(rest) = FlattenSeq(prompt)

-----------------------------------------------------------------------------
(* Properties of the answer and the screen *)

\* Every place in the bytes sampled so far where a character stands.
CharsIn(bytes) ==
    LET char(i) == SubSeq(bytes, i, i - 1 + CharLen(SubSeq(bytes, i, Len(bytes)))) IN
    FlattenSeq([i \in DOMAIN bytes |-> IF char(i) = <<>> THEN <<>> ELSE <<char(i)>>])

\* The answer holds every character in the sampled bytes and nothing else,
\* however the bytes were cut into tokens and whatever is invalid between
\* them, and it holds it as soon as its last byte is there.
AnswerIsStream == pc = "generate" => text = CharsIn(stream)

Visible(s) == FlattenSeq([i \in DOMAIN s |-> IF s[i] \in {Space, NL} THEN <<>> ELSE <<s[i]>>])

\* A line is never wider than the column, and reading the lines one after
\* the other gives every visible character of the answer in its place.
WrapKeepsText ==
    LET w == Wrap(text) IN
    /\ \A i \in DOMAIN w : Len(w[i]) <= Cols
    /\ Visible(FlattenSeq(w)) = Visible(text)

\* While an answer streams in only its last line may change: what has been
\* shown above it stays as it was.  And a key is never dead: after a redraw the
\* next key down moves the window unless it shows the newest line, and the next
\* key up unless it shows the oldest, however often up was pressed before.
ScreenSteady ==
    [][/\ pc = "generate" /\ pc' = "generate" => IsPrefix(Front(Wrap(text)), Wrap(text'))
       /\ keys = 0 /\ keys' = 1 =>
            LET seen == Window(scroll) IN
            /\ scroll' < scroll /\ Lines \notin seen => Window(scroll') # seen
            /\ scroll' > scroll /\ 1 \notin seen => Window(scroll') # seen]_vars
=============================================================================
