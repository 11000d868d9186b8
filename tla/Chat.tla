-------------------------------- MODULE Chat --------------------------------
(***************************************************************************)
(* The chat loop of the appliance (chat_loop, handle_inbound_mcp's prompt  *)
(* tool and generate in crates/nr-boot/src/app.rs), the chat template it   *)
(* writes (crates/nr-token/src/template.rs) and the position of the KV     *)
(* cache it writes to (forward, prefill_chunk, reset and remaining of      *)
(* crates/nr-model/src/infer.rs).                                          *)
(*                                                                         *)
(* "ctx" is the sequence of tokens in the KV cache; its length is "pos".   *)
(* A header (start token, role, end token, newlines) is one token, the     *)
(* content of a message is a run of "x", the model's own output a run of   *)
(* "g".  The sampler is a free choice between an ordinary and a stop token.*)
(***************************************************************************)
EXTENDS Integers, Sequences, SequencesExt

CONSTANTS
    Template,       \* enum Template of the loaded tokenizer
    CtxLen,         \* CTX_LEN, 4096
    MaxGen,         \* MAX_GEN_TOKENS, 768
    Slack,          \* the 256 of the "out of context?" test
    ChunkLen,       \* ids.chunks(16)
    SystemLen,      \* tokens of the system prompt
    MaxPromptChars, \* MAX_PROMPT_CHARS, 8192
    TokensPerChar   \* a character is up to 4 bytes, a token at least one

ASSUME ChatAssumption ==
    /\ Template \in {"Llama3", "ChatMl", "Granite"}
    /\ CtxLen \in Nat /\ MaxGen \in Nat \ {0} /\ Slack \in Nat
    /\ MaxGen + Slack <= CtxLen
    /\ ChunkLen \in Nat \ {0}
    /\ SystemLen \in Nat \ {0} /\ MaxPromptChars \in Nat \ {0} /\ TokensPerChar \in Nat \ {0}

VARIABLES
    pc,         \* where the program is; "idle" is the key loop
    line, caret,\* length of inputline, and the caret in it
    ctx,        \* InferCtx: the tokens up to pos
    started,    \* conversation_started
    ids,        \* tokens of this turn still to prefill
    next,       \* the token sampled last
    produced,   \* tokens shown in this turn
    top, text,  \* role of the last turn shown, and the tokens in its text
    mcp,        \* whether the turn was asked for over MCP
    answer,     \* what the MCP client of the last turn got: role and length
    cut         \* history: a turn of this conversation was left without its end

vars == <<pc, line, caret, ctx, started, ids, next, produced, top, text, mcp, answer, cut>>

Roles     == {"system", "user", "assistant"}
Header(r) == [header |-> r]
Tokens    == {Header(r) : r \in Roles} \cup {[text |-> c] : c \in {"bos", "x", "g", "eot", "nl"}}
Token(c)  == [text |-> c]

-----------------------------------------------------------------------------
(* template.rs *)

TurnEnd == IF Template = "Llama3" THEN <<Token("eot")>> ELSE <<Token("eot"), Token("nl")>>

EncodeHeader(r) == <<Header(r)>>

\* Mutant of EncodeMessage: the end of the turn is left out.
EncodeUnended(r, k) == EncodeHeader(r) \o [i \in 1..k |-> Token("x")]

EncodeMessage(r, k) == EncodeHeader(r) \o [i \in 1..k |-> Token("x")] \o TurnEnd

ConversationStart ==
    (IF Template = "Llama3" THEN <<Token("bos")>> ELSE <<>>) \o EncodeMessage("system", SystemLen)

Min2(a, b) == IF a < b THEN a ELSE b

Remaining == CtxLen - Len(ctx)

Init ==
    /\ pc = "idle" /\ line = 0 /\ caret = 0
    /\ ctx = <<>> /\ started = FALSE /\ ids = <<>>
    /\ next = "none" /\ produced = 0
    /\ top = "system" /\ text = 1       \* intro_turn
    /\ mcp = FALSE /\ answer = <<"none", 0>>
    /\ cut = FALSE

-----------------------------------------------------------------------------
(* The key loop: the input line *)

Edit(l, c) ==
    /\ pc = "idle"
    /\ line' = l /\ caret' = c
    /\ UNCHANGED <<pc, ctx, started, ids, next, produced, top, text, mcp, answer, cut>>

KeyChar      == line < MaxPromptChars /\ Edit(line + 1, caret + 1)
KeyBackspace == caret > 0 /\ Edit(line - 1, caret - 1)
KeyDelete    == caret < line /\ Edit(line - 1, caret)
KeyLeft      == Edit(line, IF caret = 0 THEN 0 ELSE caret - 1)

KeyRight     == Edit(line, Min2(caret + 1, line))

\* Mutant of EnterClear: conversation_started survives.
EnterClearKeepsStarted ==
    /\ pc = "idle" /\ line > 0
    /\ line' = 0 /\ caret' = 0
    /\ ctx' = <<>>
    /\ top' = "system" /\ text' = 1
    /\ cut' = FALSE
    /\ UNCHANGED <<pc, started, ids, next, produced, mcp, answer>>

\* /clear: transcript and KV position start over, the model stays.
EnterClear ==
    /\ pc = "idle" /\ line > 0
    /\ line' = 0 /\ caret' = 0
    /\ ctx' = <<>> /\ started' = FALSE
    /\ top' = "system" /\ text' = 1
    /\ cut' = FALSE
    /\ UNCHANGED <<pc, ids, next, produced, mcp, answer>>

\* /bye powers the machine off.
EnterBye ==
    /\ pc = "idle" /\ line > 0
    /\ line' = 0 /\ caret' = 0
    /\ pc' = "off" /\ top' = "system" /\ text' = 1
    /\ UNCHANGED <<ctx, started, ids, next, produced, mcp, answer, cut>>

\* An empty line does nothing; the other commands only add a system turn.
EnterOther ==
    /\ pc = "idle"
    /\ line' = 0 /\ caret' = 0
    /\ \/ UNCHANGED <<top, text>>
       \/ line > 0 /\ top' = "system" /\ text' = 1
    /\ UNCHANGED <<pc, ctx, started, ids, next, produced, mcp, answer, cut>>

-----------------------------------------------------------------------------
(* generate *)

\* Mutant of Begin: the test reserves room for the output only.
BeginNoSlack(k) ==
    LET full  == Remaining < MaxGen
        fresh == full \/ ~started
    IN  /\ ctx' = IF full THEN <<>> ELSE ctx
        /\ cut' = IF full THEN FALSE ELSE cut
        /\ ids' = (IF fresh THEN ConversationStart ELSE <<>>)
                  \o EncodeMessage("user", k) \o EncodeHeader("assistant")
        /\ started' = TRUE
        /\ top' = "llama" /\ text' = 0
        /\ UNCHANGED <<next, produced>>
        /\ pc' = "prefill"
        /\ answer' = <<"none", 0>>

\* The head of generate for a prompt of k tokens: a conversation with too
\* little room left is dropped, then the turn's tokens are built.
Begin(k) ==
    LET full  == Remaining < MaxGen + Slack
        fresh == full \/ ~started
    IN  /\ ctx' = IF full THEN <<>> ELSE ctx
        /\ cut' = IF full THEN FALSE ELSE cut
        /\ ids' = (IF fresh THEN ConversationStart ELSE <<>>)
                  \o EncodeMessage("user", k) \o EncodeHeader("assistant")
        /\ started' = TRUE
        /\ top' = "llama" /\ text' = 0
        /\ UNCHANGED <<next, produced>>
        /\ pc' = "prefill"
        /\ answer' = <<"none", 0>>

\* Enter on a line of "line" characters, which the tokenizer turns into k
\* tokens.
EnterPrompt(k) ==
    /\ pc = "idle"
    /\ k \in 1..(line * TokensPerChar)
    /\ line' = 0 /\ caret' = 0
    /\ mcp' = FALSE
    /\ Begin(k)

\* tools/call nightrun_prompt, served between two polls of the keyboard.
McpPrompt(k) ==
    /\ pc = "idle"
    /\ k \in 1..(MaxPromptChars * TokensPerChar)
    /\ mcp' = TRUE
    /\ Begin(k)
    /\ UNCHANGED <<line, caret>>

\* A HostResponse to /mcp-list or /mcp-call: a system turn that shows it.
McpResponse ==
    /\ pc = "idle"
    /\ top' = "system" /\ text' = 1
    /\ UNCHANGED <<pc, line, caret, ctx, started, ids, next, produced, mcp, answer, cut>>

\* prefill_chunk and its assertion.
Prefill ==
    LET b == Min2(ChunkLen, Len(ids)) IN
    /\ pc = "prefill"
    /\ IF Len(ctx) + b > CtxLen
       THEN pc' = "panic" /\ UNCHANGED <<ctx, ids>>
       ELSE /\ ctx' = ctx \o SubSeq(ids, 1, b)
            /\ ids' = SubSeq(ids, b + 1, Len(ids))
            /\ pc' = "prefillkey"
    /\ UNCHANGED <<line, caret, started, next, produced, top, text, mcp, answer, cut>>

\* Mutant of PrefillKey: the loop does not notice that the ids are used up.
PrefillKeyEndless(k) ==
    /\ pc = "prefillkey"
    /\ IF k = "esc"
       THEN ids' = <<>> /\ cut' = (cut \/ ids # <<>>) /\ pc' = "sample"
       ELSE pc' = "prefill" /\ UNCHANGED <<ids, cut>>
    /\ UNCHANGED <<line, caret, ctx, started, next, produced, top, text, mcp, answer>>

\* One key is taken after every chunk: ESC leaves the loop, any other is lost.
PrefillKey(k) ==
    /\ pc = "prefillkey"
    /\ IF k = "esc"
       THEN /\ ids' = <<>>
            /\ cut' = (cut \/ ids # <<>>)
            /\ pc' = "sample"
       ELSE /\ pc' = IF ids = <<>> THEN "sample" ELSE "prefill"
            /\ UNCHANGED <<ids, cut>>
    /\ UNCHANGED <<line, caret, ctx, started, next, produced, top, text, mcp, answer>>

Sample(t) ==
    /\ pc = "sample"
    /\ next' = t
    /\ pc' = "test"
    /\ UNCHANGED <<line, caret, ctx, started, ids, produced, top, text, mcp, answer, cut>>

GoesOn == next # "stop" /\ produced < MaxGen /\ Remaining > 0

\* The loop's condition; its body shows the token first, or keeps its bytes
\* back while they end inside a character (flush_utf8).
Emit ==
    /\ pc = "test" /\ GoesOn
    /\ text' \in {text, text + 1}
    /\ produced' = produced + 1
    /\ pc' = "genkey"
    /\ UNCHANGED <<line, caret, ctx, started, ids, next, top, mcp, answer, cut>>

EndLoop ==
    /\ pc = "test" /\ ~GoesOn
    /\ pc' = "close"
    /\ cut' = (cut \/ next # "stop")
    /\ UNCHANGED <<line, caret, ctx, started, ids, next, produced, top, text, mcp, answer>>

GenKey(k) ==
    /\ pc = "genkey"
    /\ IF k = "esc"
       THEN pc' = "close" /\ cut' = TRUE
       ELSE pc' = "forward" /\ UNCHANGED cut
    /\ UNCHANGED <<line, caret, ctx, started, ids, next, produced, top, text, mcp, answer>>

\* forward and its assertion.
Forward ==
    /\ pc = "forward"
    /\ IF Len(ctx) >= CtxLen
       THEN pc' = "panic" /\ UNCHANGED ctx
       ELSE pc' = "sample" /\ ctx' = Append(ctx, Token("g"))
    /\ UNCHANGED <<line, caret, started, ids, next, produced, top, text, mcp, answer, cut>>

\* After the loop: the end-of-turn token, "(no output)", and the response of
\* an MCP prompt, whose text is that of the last turn.
Close ==
    /\ pc = "close"
    /\ ctx' = IF next = "stop" /\ Remaining > 0 THEN Append(ctx, Token("eot")) ELSE ctx
    /\ text' = IF text = 0 THEN 1 ELSE text
    /\ answer' = IF mcp THEN <<top, text'>> ELSE answer
    /\ pc' = "idle"
    /\ next' = "none" /\ produced' = 0 /\ mcp' = FALSE    \* locals
    /\ UNCHANGED <<line, caret, started, ids, top, cut>>

-----------------------------------------------------------------------------
Generate ==
    \/ Prefill \/ Emit \/ EndLoop \/ Forward \/ Close
    \/ \E k \in {"esc", "other"} : PrefillKey(k) \/ GenKey(k)
    \/ \E t \in {"token", "stop"} : Sample(t)

Next ==
    \/ KeyChar \/ KeyBackspace \/ KeyDelete \/ KeyLeft \/ KeyRight
    \/ EnterClear \/ EnterBye \/ EnterOther \/ McpResponse
    \/ \E k \in 1..(MaxPromptChars * TokensPerChar) : EnterPrompt(k) \/ McpPrompt(k)
    \/ Generate

Spec == Init /\ [][Next]_vars

\* generate runs on the one core until it returns; nobody has to type.
FairSpec == Spec /\ WF_vars(Generate)

-----------------------------------------------------------------------------
Generating == {"prefill", "prefillkey", "sample", "test", "genkey", "forward", "close"}

\* The tokens a turn may need besides the model's own fit what the "out of
\* context?" test of generate leaves free.
PromptsFit == Len(ConversationStart) + MaxPromptChars * TokensPerChar + 1 + Len(TurnEnd) + 1 <= MaxGen + Slack

\* The assertions of forward and prefill_chunk ("context window exhausted")
\* never fail: the window check at the head of generate leaves room for the
\* turn.  Nor does an index into the line: six handlers move the caret or
\* shorten the line, and it stays inside.
NoPanic == pc # "panic" /\ caret \in 0..line

\* conversation_started and the KV position agree whenever the loop waits for
\* input: a turn never goes into an empty context without its system prompt,
\* and a used context never gets a second one.
StartedIffContext == pc = "idle" => (started <=> ctx # <<>>)

IsHeader(t) == "header" \in DOMAIN t

\* A header stands at the beginning or after the end of a whole turn.
TurnsClosed ==
    \A i \in 2..Len(ctx) : IsHeader(ctx[i]) =>
        \/ ctx[i - 1] = Token("bos")
        \/ /\ i > Len(TurnEnd)
           /\ SubSeq(ctx, i - Len(TurnEnd), i - 1) = TurnEnd

\* "Keep the template consistent for the next turn" (generate): as long as no
\* turn was cut short by ESC or by the token budget, every turn in the context
\* ends the way encode_message ends one and the system prompt is in front.
TemplateConsistent ==
    ~cut => /\ TurnsClosed
            /\ pc = "idle" /\ started => IsPrefix(ConversationStart, ctx)

\* generate comes back to the key loop, whatever the sampler and the user do.
GenerateReturns == (pc \in Generating) ~> (pc = "idle")
=============================================================================
