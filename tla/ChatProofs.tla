----------------------------- MODULE ChatProofs -----------------------------
(***************************************************************************)
(* Proofs about the chat loop, for any size of the context window, of the  *)
(* chunks, of prompts and answers, and any order of keys, MCP prompts and  *)
(* sampled tokens.                                                         *)
(***************************************************************************)
EXTENDS Chat, SequenceTheorems, TLAPS

-----------------------------------------------------------------------------
(* The template *)

PromptLens == 1..(MaxPromptChars * TokensPerChar)

Run(k) == [i \in 1..k |-> Token("x")]

LEMMA TokenTypes ==
    /\ \A r \in Roles : Header(r) \in Tokens
    /\ \A c \in {"bos", "x", "g", "eot", "nl"} : Token(c) \in Tokens
    /\ TurnEnd \in Seq(Tokens) /\ Len(TurnEnd) \in Nat
<1>1. \A r \in Roles : Header(r) \in Tokens
  BY DEF Tokens
<1>2. \A c \in {"bos", "x", "g", "eot", "nl"} : Token(c) \in Tokens
  BY DEF Tokens, Token
<1>3. TurnEnd \in Seq(Tokens) /\ Len(TurnEnd) \in Nat
  BY <1>2 DEF TurnEnd
<1> QED
  BY <1>1, <1>2, <1>3

LEMMA RunType == \A k \in Nat : Run(k) \in Seq(Tokens) /\ Len(Run(k)) = k
BY TokenTypes DEF Run

\* A message is a header, its text and the end of the turn.
LEMMA MessageLen ==
    ASSUME NEW r \in Roles, NEW k \in Nat
    PROVE  /\ EncodeMessage(r, k) \in Seq(Tokens)
           /\ Len(EncodeMessage(r, k)) = 1 + k + Len(TurnEnd)
<1>1. <<Header(r)>> \in Seq(Tokens) /\ Len(<<Header(r)>>) = 1
  BY TokenTypes
<1>2. <<Header(r)>> \o Run(k) \in Seq(Tokens) /\ Len(<<Header(r)>> \o Run(k)) = 1 + k
  BY <1>1, RunType, ConcatProperties
<1>3. EncodeMessage(r, k) = (<<Header(r)>> \o Run(k)) \o TurnEnd
  BY DEF EncodeMessage, EncodeHeader, Run
<1> QED
  BY <1>2, <1>3, TokenTypes, ConcatProperties

LEMMA StartLen == ConversationStart \in Seq(Tokens) /\ Len(ConversationStart) \in Nat \ {0}
<1>1. EncodeMessage("system", SystemLen) \in Seq(Tokens) /\ Len(EncodeMessage("system", SystemLen)) \in Nat \ {0}
  <2>1. "system" \in Roles /\ SystemLen \in Nat
    BY ChatAssumption DEF Roles
  <2>2. /\ EncodeMessage("system", SystemLen) \in Seq(Tokens)
        /\ Len(EncodeMessage("system", SystemLen)) = 1 + SystemLen + Len(TurnEnd)
    BY <2>1, MessageLen
  <2>3. Len(TurnEnd) \in Nat
    BY TokenTypes
  <2> QED
    BY <2>1, <2>2, <2>3
<1>2. <<Token("bos")>> \in Seq(Tokens) /\ Len(<<Token("bos")>>) = 1 /\ <<>> \in Seq(Tokens) /\ Len(<<>>) = 0
  BY TokenTypes
<1> QED
  BY <1>1, <1>2, ConcatProperties DEF ConversationStart

\* What one turn puts into the context before the model speaks.
TurnIds(fresh, k) == (IF fresh THEN ConversationStart ELSE <<>>)
                     \o EncodeMessage("user", k) \o EncodeHeader("assistant")

LEMMA TurnLen ==
    ASSUME NEW fresh \in BOOLEAN, NEW k \in PromptLens
    PROVE  /\ TurnIds(fresh, k) \in Seq(Tokens) /\ Len(TurnIds(fresh, k)) \in Nat \ {0}
           /\ Len(TurnIds(fresh, k)) <= Len(ConversationStart) + 1 + k + Len(TurnEnd) + 1
<1> DEFINE start == IF fresh THEN ConversationStart ELSE <<>>
<1>1. start \in Seq(Tokens) /\ Len(start) \in Nat /\ Len(start) <= Len(ConversationStart)
  BY StartLen
<1>2. k \in Nat
  BY ChatAssumption DEF PromptLens
<1>3. /\ EncodeMessage("user", k) \in Seq(Tokens)
      /\ Len(EncodeMessage("user", k)) = 1 + k + Len(TurnEnd)
  BY <1>2, MessageLen DEF Roles
<1>4. EncodeHeader("assistant") \in Seq(Tokens) /\ Len(EncodeHeader("assistant")) = 1
  BY TokenTypes DEF EncodeHeader, Roles
<1>5. TurnIds(fresh, k) = (start \o EncodeMessage("user", k)) \o EncodeHeader("assistant")
  BY DEF TurnIds
<1>6. Len(TurnEnd) \in Nat /\ Len(ConversationStart) \in Nat
  BY TokenTypes, StartLen
<1> HIDE DEF start
<1>7. /\ start \o EncodeMessage("user", k) \in Seq(Tokens)
      /\ Len(start \o EncodeMessage("user", k)) = Len(start) + Len(EncodeMessage("user", k))
  BY <1>1, <1>3, ConcatProperties
<1>8. /\ TurnIds(fresh, k) \in Seq(Tokens)
      /\ Len(TurnIds(fresh, k)) = Len(start \o EncodeMessage("user", k)) + Len(EncodeHeader("assistant"))
  BY <1>4, <1>5, <1>7, ConcatProperties
<1>9. Len(TurnIds(fresh, k)) = (Len(start) + (1 + k + Len(TurnEnd))) + 1
  BY <1>3, <1>4, <1>7, <1>8, Zenon
<1> QED
  <2> DEFINE a == Len(start)  c == Len(TurnEnd)  d == Len(ConversationStart)  n == Len(TurnIds(fresh, k))
  <2>1. a \in Nat /\ a <= d /\ c \in Nat /\ d \in Nat /\ n = (a + (1 + k + c)) + 1
    BY <1>1, <1>6, <1>9, Zenon
  <2> HIDE DEF a, c, d, n
  <2>2. n \in Nat \ {0} /\ n <= d + 1 + k + c + 1
    BY <1>2, <2>1
  <2> QED
    BY <1>8, <2>2, Zenon DEF a, c, d, n

-----------------------------------------------------------------------------
(* Types *)

Places == {"idle", "off", "panic"} \cup Generating

ChatType ==
    /\ pc \in Places
    /\ line \in Nat /\ caret \in 0..line
    /\ ctx \in Seq(Tokens) /\ ids \in Seq(Tokens)
    /\ started \in BOOLEAN /\ cut \in BOOLEAN

LEMMA InitChat == Init => ChatType
<1>1. <<>> \in Seq(Tokens)
  OBVIOUS
<1>2. 0 \in Nat /\ 0 \in 0..0
  OBVIOUS
<1> QED
  BY <1>1, <1>2, Zenon DEF Init, ChatType, Places

\* What Begin does, in one place.
LEMMA BeginFacts ==
    ASSUME ChatType, NEW k \in PromptLens, Begin(k)
    PROVE  \E fresh \in BOOLEAN :
             /\ ids' = TurnIds(fresh, k)
             /\ fresh = (Remaining < MaxGen + Slack \/ ~started)
             /\ ctx' = IF Remaining < MaxGen + Slack THEN <<>> ELSE ctx
             /\ cut' = IF Remaining < MaxGen + Slack THEN FALSE ELSE cut
             /\ ctx' \in Seq(Tokens) /\ ids' \in Seq(Tokens)
             /\ started' = TRUE /\ cut' \in BOOLEAN /\ pc' = "prefill"
<1> DEFINE fresh == Remaining < MaxGen + Slack \/ ~started
<1>1. fresh \in BOOLEAN /\ ids' = TurnIds(fresh, k)
  BY DEF Begin, TurnIds
<1>2. ids' \in Seq(Tokens)
  BY <1>1, TurnLen
<1>3. /\ ctx' = IF Remaining < MaxGen + Slack THEN <<>> ELSE ctx
      /\ cut' = IF Remaining < MaxGen + Slack THEN FALSE ELSE cut
      /\ started' = TRUE /\ pc' = "prefill"
  BY DEF Begin
<1>4. ctx' \in Seq(Tokens) /\ cut' \in BOOLEAN
  <2>1. <<>> \in Seq(Tokens) /\ ctx \in Seq(Tokens) /\ cut \in BOOLEAN
    BY DEF ChatType
  <2> QED
    BY <1>3, <2>1, Zenon
<1> QED
  BY <1>1, <1>2, <1>3, <1>4, Zenon

LEMMA Regroup ==
    ASSUME NEW a \in Seq(Tokens), NEW b \in Seq(Tokens), NEW c \in Seq(Tokens)
    PROVE  (a \o b) \o c = a \o (b \o c)
BY ConcatAssociative

\* What a chunk of the prompt does: it moves from the ids to the context.
LEMMA PrefillFacts ==
    ASSUME ChatType, Prefill, pc' # "panic"
    PROVE  /\ ctx' \in Seq(Tokens) /\ ids' \in Seq(Tokens)
           /\ ctx' \o ids' = ctx \o ids
           /\ Len(ctx') + Len(ids') = Len(ctx) + Len(ids)
           /\ ids # <<>> => ctx' # <<>>
           /\ pc' = "prefillkey"
<1> DEFINE b == Min2(ChunkLen, Len(ids))
           s == SubSeq(ids, 1, b)
           t == SubSeq(ids, b + 1, Len(ids))
<1>1. Len(ids) \in Nat /\ b \in 0..Len(ids) /\ (ids # <<>> => b # 0)
      /\ ctx \in Seq(Tokens) /\ ids \in Seq(Tokens) /\ Len(ctx) \in Nat
  BY ChatAssumption, EmptySeq, LenProperties DEF Min2, ChatType
<1>2. ctx' = ctx \o s /\ ids' = t /\ pc' = "prefillkey"
  BY DEF Prefill
<1>3. s \in Seq(Tokens) /\ Len(s) = b /\ t \in Seq(Tokens) /\ Len(t) = Len(ids) - b
  <2>1. \A i \in 1..Len(ids) : ids[i] \in Tokens
    BY <1>1
  <2>2. s \in Seq(Tokens) /\ Len(s) = b
    BY <1>1, <2>1, SubSeqProperties
  <2>3. t \in Seq(Tokens) /\ Len(t) = Len(ids) - b
    BY <1>1, <2>1, SubSeqProperties
  <2> QED
    BY <2>2, <2>3
<1>4. s \o t = ids
  <2>1. SubSeq(ids, 1, b) \o SubSeq(ids, b + 1, Len(ids)) = SubSeq(ids, 1, Len(ids))
    <3>1. 1 \in 1..(Len(ids) + 1) /\ b \in (1 - 1)..Len(ids) /\ Len(ids) \in b..Len(ids)
      BY <1>1
    <3> HIDE DEF b
    <3> QED
      BY <1>1, <3>1, ConcatAdjacentSubSeq
  <2> QED
    BY <1>1, <2>1, SubSeqFull
<1> HIDE DEF b, s, t
<1>5. (ctx \o s) \o t = ctx \o ids
  <2>1. (ctx \o s) \o t = ctx \o (s \o t)
    BY <1>1, <1>3, Regroup, Zenon
  <2> QED
    BY <1>4, <2>1
<1>6. ctx \o s \in Seq(Tokens) /\ Len(ctx \o s) = Len(ctx) + b
  BY <1>1, <1>3, ConcatProperties
<1>7. ids # <<>> => ctx \o s # <<>>
  <2>1. ids # <<>> => Len(ctx \o s) # 0
    BY <1>1, <1>6
  <2> QED
    BY <2>1, EmptySeq
<1> QED
  <2>1. Len(ctx \o s) + Len(t) = Len(ctx) + Len(ids)
    BY <1>1, <1>3, <1>6
  <2> QED
    BY <1>2, <1>3, <1>5, <1>6, <1>7, <2>1, Zenon

LEMMA KeyType ==
    ASSUME ChatType, KeyChar \/ KeyBackspace \/ KeyDelete \/ KeyLeft \/ KeyRight
    PROVE  ChatType'
<1>1. line' \in Nat /\ caret' \in 0..line'
  BY DEF ChatType, KeyChar, KeyBackspace, KeyDelete, KeyLeft, KeyRight, Edit, Min2
<1>2. UNCHANGED <<pc, ctx, ids, started, cut>>
  BY Zenon DEF KeyChar, KeyBackspace, KeyDelete, KeyLeft, KeyRight, Edit
<1> QED
  BY <1>1, <1>2, Zenon DEF ChatType

LEMMA NextType == ChatType /\ [Next]_vars => ChatType'
<1> SUFFICES ASSUME ChatType, [Next]_vars PROVE ChatType'
  OBVIOUS
<1>1. CASE KeyChar \/ KeyBackspace \/ KeyDelete \/ KeyLeft \/ KeyRight
  BY <1>1, KeyType
<1>2. CASE EnterClear \/ EnterBye \/ EnterOther \/ McpResponse
  <2>1. <<>> \in Seq(Tokens) /\ 0 \in Nat /\ 0 \in 0..0
    OBVIOUS
  <2>2. CASE EnterClear
    BY <2>1, <2>2, Zenon DEF EnterClear, ChatType
  <2>3. CASE EnterBye
    BY <2>1, <2>3, Zenon DEF EnterBye, ChatType, Places
  <2>4. CASE EnterOther
    BY <2>1, <2>4, Zenon DEF EnterOther, ChatType
  <2>5. CASE McpResponse
    BY <2>5, Zenon DEF McpResponse, ChatType
  <2> QED
    BY <1>2, <2>2, <2>3, <2>4, <2>5
<1>3. ASSUME NEW k \in PromptLens, EnterPrompt(k) \/ McpPrompt(k) PROVE ChatType'
  <2>1. Begin(k) /\ line' \in Nat /\ caret' \in 0..line'
    BY <1>3 DEF EnterPrompt, McpPrompt, ChatType
  <2> QED
    BY <2>1, BeginFacts DEF ChatType, Places, Generating
<1>4. CASE Prefill
  <2>1. CASE pc' = "panic"
    BY <1>4, <2>1 DEF Prefill, ChatType, Places
  <2>2. CASE pc' # "panic"
    BY <1>4, <2>2, PrefillFacts DEF Prefill, ChatType, Places, Generating
  <2> QED
    BY <2>1, <2>2
<1>5. CASE Emit \/ EndLoop \/ \E t \in {"token", "stop"} : Sample(t)
  BY <1>5 DEF Emit, EndLoop, Sample, ChatType, Places, Generating
<1>6. CASE \E k \in {"esc", "other"} : PrefillKey(k) \/ GenKey(k)
  <2>1. /\ pc' \in {"prefill", "sample", "close", "forward"}
        /\ ids' = ids \/ ids' = <<>>
        /\ cut' \in BOOLEAN
        /\ UNCHANGED <<line, caret, ctx, started>>
    BY <1>6, Zenon DEF PrefillKey, GenKey, ChatType
  <2>2. <<>> \in Seq(Tokens) /\ pc' \in Places
    BY <2>1 DEF Places, Generating
  <2> QED
    BY <2>1, <2>2, Zenon DEF ChatType
<1>7. CASE Forward \/ Close
  <2>1. ctx' \in Seq(Tokens)
    <3>1. ctx' = ctx \/ ctx' = Append(ctx, Token("g")) \/ ctx' = Append(ctx, Token("eot"))
      BY <1>7, Zenon DEF Forward, Close
    <3>2. ctx \in Seq(Tokens) /\ Token("g") \in Tokens /\ Token("eot") \in Tokens
      BY TokenTypes DEF ChatType
    <3>3. Append(ctx, Token("g")) \in Seq(Tokens) /\ Append(ctx, Token("eot")) \in Seq(Tokens)
      BY <3>2, AppendProperties
    <3> QED
      BY <3>1, <3>2, <3>3, Zenon
  <2> QED
    BY <1>7, <2>1 DEF Forward, Close, ChatType, Places, Generating
<1>8. CASE UNCHANGED vars
  BY <1>8 DEF vars, ChatType
<1> QED
  BY <1>1, <1>2, <1>3, <1>4, <1>5, <1>6, <1>7, <1>8 DEF Next, Generate, PromptLens

-----------------------------------------------------------------------------
(* The context window *)

\* What is left of a turn to prefill has its place, and so has a token that
\* was shown.
WindowInv ==
    /\ ChatType
    /\ pc # "panic"
    /\ pc \in {"prefill", "prefillkey"} => Len(ctx) + Len(ids) <= CtxLen
    /\ pc \in {"genkey", "forward"} => Len(ctx) < CtxLen

\* A turn that begins is no longer than what the "out of context?" test keeps
\* free; the system prompt counts when the turn starts a conversation.
TurnFits == pc = "idle" /\ pc' = "prefill" => Len(ids') <= MaxGen + Slack

LEMMA NextWindow ==
    ASSUME WindowInv, [Next]_vars, [TurnFits]_vars
    PROVE  WindowInv'
<1>0. ChatType' /\ ChatType /\ CtxLen \in Nat /\ Len(ctx) \in Nat /\ Len(ids) \in Nat
  BY NextType, ChatAssumption, LenProperties DEF WindowInv, ChatType
<1>1. CASE KeyChar \/ KeyBackspace \/ KeyDelete \/ KeyLeft \/ KeyRight
  BY <1>0, <1>1 DEF KeyChar, KeyBackspace, KeyDelete, KeyLeft, KeyRight, Edit, WindowInv
<1>2. CASE EnterClear \/ EnterBye \/ EnterOther \/ McpResponse
  BY <1>0, <1>2 DEF EnterClear, EnterBye, EnterOther, McpResponse, WindowInv
<1>3. ASSUME NEW k \in PromptLens, EnterPrompt(k) \/ McpPrompt(k) PROVE WindowInv'
  <2>1. PICK fresh \in BOOLEAN :
          /\ ids' = TurnIds(fresh, k) /\ pc' = "prefill"
          /\ ctx' = IF Remaining < MaxGen + Slack THEN <<>> ELSE ctx
    BY <1>0, <1>3, BeginFacts DEF EnterPrompt, McpPrompt
  <2>2. Len(ids') \in Nat /\ Len(ids') <= MaxGen + Slack
    <3>1. Len(ids') \in Nat
      BY <2>1, TurnLen
    <3>2. pc = "idle" /\ pc' = "prefill"
      BY <1>3, <2>1, Zenon DEF EnterPrompt, McpPrompt
    <3>3. TurnFits
      BY <3>2 DEF vars
    <3> QED
      BY <3>1, <3>2, <3>3 DEF TurnFits
  <2>3. Len(ctx') + Len(ids') <= CtxLen
    <3>1. CASE Remaining < MaxGen + Slack
      <4>1. Len(ctx') = 0
        BY <2>1, <3>1
      <4> QED
        BY <1>0, <2>2, <4>1, ChatAssumption
    <3>2. CASE ~(Remaining < MaxGen + Slack)
      <4>1. ctx' = ctx
        BY <2>1, <3>2
      <4> QED
        BY <1>0, <2>2, <3>2, <4>1, ChatAssumption DEF Remaining
    <3> QED
      BY <3>1, <3>2
  <2> QED
    BY <1>0, <2>1, <2>3 DEF WindowInv
<1>4. CASE Prefill
  <2>1. pc' # "panic"
    <3>1. Min2(ChunkLen, Len(ids)) <= Len(ids) /\ Min2(ChunkLen, Len(ids)) \in Nat
      BY <1>0, ChatAssumption DEF Min2
    <3>2. Len(ctx) + Len(ids) <= CtxLen
      BY <1>4 DEF Prefill, WindowInv
    <3> QED
      BY <1>0, <1>4, <3>1, <3>2 DEF Prefill
  <2>2. Len(ctx') + Len(ids') = Len(ctx) + Len(ids) /\ pc' = "prefillkey"
    BY <1>0, <1>4, <2>1, PrefillFacts
  <2> QED
    BY <1>0, <1>4, <2>2 DEF Prefill, WindowInv
<1>5. CASE \E k \in {"esc", "other"} : PrefillKey(k) \/ GenKey(k)
  BY <1>0, <1>5 DEF PrefillKey, GenKey, WindowInv
<1>6. CASE EndLoop \/ \E t \in {"token", "stop"} : Sample(t)
  BY <1>0, <1>6 DEF EndLoop, Sample, WindowInv
<1>7. CASE Emit
  BY <1>0, <1>7 DEF Emit, GoesOn, Remaining, WindowInv
<1>8. CASE Forward \/ Close
  BY <1>0, <1>8 DEF Forward, Close, WindowInv
<1>9. CASE UNCHANGED vars
  BY <1>0, <1>9 DEF vars, WindowInv
<1> QED
  BY <1>1, <1>2, <1>3, <1>4, <1>5, <1>6, <1>7, <1>8, <1>9 DEF Next, Generate, PromptLens

\* As long as every turn that is begun fits what the test at the head of
\* generate keeps free, no assertion on the context window fails and the caret
\* stays in the line.  Nothing is assumed of the constants: the turns before
\* may have filled the window as far as they like, and what prompts the program
\* lets through is another matter.
THEOREM NeverPanics == Spec /\ [][TurnFits]_vars => []NoPanic
<1>1. Init => WindowInv
  BY InitChat DEF Init, WindowInv
<1>2. WindowInv /\ [Next]_vars /\ [TurnFits]_vars => WindowInv'
  BY NextWindow
<1>3. WindowInv => NoPanic
  BY DEF WindowInv, ChatType, NoPanic
<1> QED
  BY <1>1, <1>2, <1>3, PTL DEF Spec

\* Without that condition on turns: only a turn whose own tokens do not fit
\* the window can stop the machine, in prefill_chunk; forward never does,
\* however long the answer.
OnlyPromptsOverrun == pc = "panic" => Len(ctx) + Len(ids) > CtxLen

OverrunInv ==
    /\ ChatType
    /\ OnlyPromptsOverrun
    /\ pc \in {"genkey", "forward"} => Len(ctx) < CtxLen

\* The assertion of forward never fails: the loop's test of "remaining" holds
\* until the token is forwarded, so the answer never overruns the window.
THEOREM AnswersFit == Spec => []OnlyPromptsOverrun
<1>1. Init => OverrunInv
  BY InitChat DEF Init, OverrunInv, OnlyPromptsOverrun
<1>2. ASSUME OverrunInv, [Next]_vars PROVE OverrunInv'
  <2> USE DEF OnlyPromptsOverrun
  <2>0. ChatType' /\ ChatType /\ CtxLen \in Nat /\ Len(ctx) \in Nat /\ Len(ids) \in Nat
    BY <1>2, NextType, ChatAssumption, LenProperties DEF OverrunInv, ChatType
  <2>1. CASE KeyChar \/ KeyBackspace \/ KeyDelete \/ KeyLeft \/ KeyRight
    BY <2>0, <2>1 DEF KeyChar, KeyBackspace, KeyDelete, KeyLeft, KeyRight, Edit, OverrunInv
  <2>2. CASE EnterClear \/ EnterBye \/ EnterOther \/ McpResponse
    BY <2>0, <2>2 DEF EnterClear, EnterBye, EnterOther, McpResponse, OverrunInv
  <2>3. ASSUME NEW k \in PromptLens, EnterPrompt(k) \/ McpPrompt(k) PROVE OverrunInv'
    <3>1. pc' = "prefill"
      BY <2>3 DEF EnterPrompt, McpPrompt, Begin
    <3> QED
      BY <2>0, <3>1 DEF OverrunInv
  <2>4. CASE Prefill
    <3>1. Min2(ChunkLen, Len(ids)) <= Len(ids) /\ Min2(ChunkLen, Len(ids)) \in Nat
      BY <2>0, ChatAssumption DEF Min2
    <3>2. pc' \in {"panic", "prefillkey"}
      BY <2>4 DEF Prefill
    <3>3. pc' = "panic" => Len(ctx') + Len(ids') > CtxLen
      BY <2>0, <2>4, <3>1 DEF Prefill
    <3> QED
      BY <2>0, <3>2, <3>3 DEF OverrunInv
  <2>5. CASE \E k \in {"esc", "other"} : PrefillKey(k) \/ GenKey(k)
    BY <1>2, <2>0, <2>5 DEF PrefillKey, GenKey, OverrunInv
  <2>6. CASE EndLoop \/ \E t \in {"token", "stop"} : Sample(t)
    BY <2>0, <2>6 DEF EndLoop, Sample, OverrunInv
  <2>7. CASE Emit
    BY <2>0, <2>7 DEF Emit, GoesOn, Remaining, OverrunInv
  <2>8. CASE Forward \/ Close
    BY <1>2, <2>0, <2>8 DEF Forward, Close, OverrunInv
  <2>9. CASE UNCHANGED vars
    BY <1>2, <2>0, <2>9 DEF vars, OverrunInv
  <2> QED
    BY <1>2, <2>1, <2>2, <2>3, <2>4, <2>5, <2>6, <2>7, <2>8, <2>9 DEF Next, Generate, PromptLens
<1>3. OverrunInv => OnlyPromptsOverrun
  BY DEF OverrunInv
<1> QED
  BY <1>1, <1>2, <1>3, PTL DEF Spec

-----------------------------------------------------------------------------
(* conversation_started *)

\* While generate runs the conversation is started; its first chunk is not
\* empty, and after it the context is not.
StartedInv ==
    /\ ChatType
    /\ pc \in Generating => started
    /\ pc = "prefill" => ids # <<>>
    /\ pc \in Generating \ {"prefill"} => ctx # <<>>
    /\ StartedIffContext

LEMMA InitStarted == Init => StartedInv
BY InitChat DEF Init, StartedInv, StartedIffContext, Generating

LEMMA NextStarted == StartedInv /\ [Next]_vars => StartedInv'
<1> SUFFICES ASSUME StartedInv, [Next]_vars PROVE StartedInv'
  OBVIOUS
<1> USE DEF StartedIffContext
<1>0. ChatType' /\ ChatType
  BY NextType DEF StartedInv
<1>1. CASE KeyChar \/ KeyBackspace \/ KeyDelete \/ KeyLeft \/ KeyRight
  BY <1>0, <1>1 DEF KeyChar, KeyBackspace, KeyDelete, KeyLeft, KeyRight, Edit, StartedInv
<1>2. CASE EnterClear \/ EnterBye \/ EnterOther \/ McpResponse
  BY <1>0, <1>2 DEF EnterClear, EnterBye, EnterOther, McpResponse, StartedInv, Generating
<1>3. ASSUME NEW k \in PromptLens, EnterPrompt(k) \/ McpPrompt(k) PROVE StartedInv'
  <2>1. PICK fresh \in BOOLEAN : ids' = TurnIds(fresh, k) /\ pc' = "prefill" /\ started' = TRUE
    BY <1>0, <1>3, BeginFacts DEF EnterPrompt, McpPrompt
  <2>2. ids' # <<>>
    <3>1. Len(ids') # 0
      BY <2>1, TurnLen
    <3> QED
      BY <3>1
  <2> QED
    BY <1>0, <2>1, <2>2 DEF StartedInv, Generating
<1>4. CASE Prefill
  <2>1. CASE pc' = "panic"
    BY <1>0, <2>1 DEF StartedInv, Generating
  <2>2. CASE pc' # "panic"
    <3>1. ids # <<>> /\ started /\ UNCHANGED started
      BY <1>4 DEF Prefill, StartedInv, Generating
    <3>2. pc' = "prefillkey" /\ ctx' # <<>>
      BY <1>0, <1>4, <2>2, <3>1, PrefillFacts
    <3> QED
      BY <1>0, <3>1, <3>2 DEF StartedInv
  <2> QED
    BY <2>1, <2>2
<1>5. CASE \E k \in {"esc", "other"} : PrefillKey(k) \/ GenKey(k)
  BY <1>0, <1>5 DEF PrefillKey, GenKey, StartedInv, Generating
<1>6. CASE Emit \/ EndLoop \/ \E t \in {"token", "stop"} : Sample(t)
  BY <1>0, <1>6 DEF Emit, EndLoop, Sample, StartedInv, Generating
<1>7. CASE Forward \/ Close
  <2>1. ctx # <<>> /\ started /\ UNCHANGED started
    BY <1>7 DEF Forward, Close, StartedInv, Generating
  <2>2. ctx' # <<>>
    BY <1>0, <1>7, <2>1, AppendProperties, TokenTypes DEF Forward, Close, ChatType
  <2> QED
    BY <1>0, <1>7, <2>1, <2>2 DEF Forward, Close, StartedInv, Generating
<1>8. CASE UNCHANGED vars
  BY <1>0, <1>8 DEF vars, StartedInv
<1> QED
  BY <1>1, <1>2, <1>3, <1>4, <1>5, <1>6, <1>7, <1>8 DEF Next, Generate, PromptLens

\* conversation_started agrees with the KV position whenever the loop waits,
\* after any sequence of turns, ESC, /clear and conversations dropped.
THEOREM StartedMeansContext == Spec => []StartedIffContext
<1>1. StartedInv => StartedIffContext
  BY DEF StartedInv
<1> QED
  BY <1>1, InitStarted, NextStarted, PTL DEF Spec
-----------------------------------------------------------------------------
(* The template in the context, for the Llama 3 family *)

\* A header comes first, or after the beginning or the end of a turn.
Opens(t) == t \in {Token("bos"), Token("eot")}
Closed(s) == \A i \in 2..Len(s) : IsHeader(s[i]) => Opens(s[i - 1])

\* The system prompt is in front.
Starts(s) == \E u \in Seq(Tokens) : s = ConversationStart \o u

LEMMA TextIsNoHeader == \A c \in {"bos", "x", "g", "eot", "nl"} : ~IsHeader(Token(c))
BY DEF IsHeader, Token

\* Two runs of tokens join where the first ends a turn.
LEMMA JoinClosed ==
    ASSUME NEW a \in Seq(Tokens), NEW b \in Seq(Tokens), Closed(a), Closed(b),
           a = <<>> \/ b = <<>> \/ ~IsHeader(b[1]) \/ Opens(a[Len(a)])
    PROVE  Closed(a \o b)
<1>1. Len(a) \in Nat /\ Len(b) \in Nat
  BY LenProperties
<1>2. Len(a \o b) = Len(a) + Len(b)
  BY ConcatProperties
<1>3. \A i \in 1..(Len(a) + Len(b)) : (a \o b)[i] = IF i <= Len(a) THEN a[i] ELSE b[i - Len(a)]
  BY ConcatProperties
<1>4. SUFFICES ASSUME NEW i \in 2..(Len(a) + Len(b)), IsHeader((a \o b)[i])
               PROVE  Opens((a \o b)[i - 1])
  BY <1>2 DEF Closed
<1>5. i \in Nat /\ i - 1 \in 1..(Len(a) + Len(b)) /\ i \in 1..(Len(a) + Len(b))
  BY <1>1
<1>6. CASE i <= Len(a)
  <2>1. (a \o b)[i] = a[i] /\ (a \o b)[i - 1] = a[i - 1] /\ i \in 2..Len(a)
    BY <1>1, <1>3, <1>5, <1>6
  <2> QED
    BY <1>4, <2>1 DEF Closed
<1>7. CASE i = Len(a) + 1
  <2>1. (a \o b)[i] = b[1] /\ (a \o b)[i - 1] = a[Len(a)]
    BY <1>1, <1>3, <1>5, <1>7
  <2>2. Len(a) # 0 /\ Len(b) # 0
    BY <1>1, <1>5, <1>7
  <2>3. a # <<>> /\ b # <<>>
    BY <2>2, EmptySeq
  <2> QED
    BY <1>4, <2>1, <2>3
<1>8. CASE i > Len(a) + 1
  <2>1. /\ (a \o b)[i] = b[i - Len(a)] /\ (a \o b)[i - 1] = b[(i - Len(a)) - 1]
        /\ i - Len(a) \in 2..Len(b)
    BY <1>1, <1>3, <1>5, <1>8
  <2> QED
    BY <1>4, <2>1 DEF Closed
<1> QED
  BY <1>1, <1>5, <1>6, <1>7, <1>8

\* Whatever begins with a closed run is closed up to there.
LEMMA ClosedFront ==
    ASSUME NEW a \in Seq(Tokens), NEW b \in Seq(Tokens), Closed(a \o b)
    PROVE  Closed(a)
<1>1. Len(a) \in Nat /\ Len(b) \in Nat
  BY LenProperties
<1>2. Len(a \o b) = Len(a) + Len(b)
  BY ConcatProperties
<1>3. \A i \in 1..Len(a) : (a \o b)[i] = a[i]
  BY <1>1, ConcatProperties
<1>4. SUFFICES ASSUME NEW i \in 2..Len(a), IsHeader(a[i]) PROVE Opens(a[i - 1])
  BY DEF Closed
<1>5. i \in 2..Len(a \o b) /\ (a \o b)[i] = a[i] /\ (a \o b)[i - 1] = a[i - 1]
  BY <1>1, <1>2, <1>3
<1> QED
  BY <1>4, <1>5 DEF Closed

LEMMA OneClosed == ASSUME NEW t \in Tokens PROVE Closed(<<t>>) /\ <<t>> \in Seq(Tokens) /\ <<t>>[1] = t /\ Len(<<t>>) = 1
BY DEF Closed

\* A whole message of encode_message is closed, and ends its turn.
LEMMA MessageClosed ==
    ASSUME Template = "Llama3", NEW r \in Roles, NEW k \in Nat
    PROVE  /\ Closed(EncodeMessage(r, k))
           /\ Opens(EncodeMessage(r, k)[Len(EncodeMessage(r, k))])
<1>1. <<Header(r)>> \in Seq(Tokens) /\ Len(<<Header(r)>>) = 1 /\ Closed(<<Header(r)>>)
  BY TokenTypes, OneClosed
<1>2. Run(k) \in Seq(Tokens) /\ Len(Run(k)) = k /\ \A i \in 1..k : Run(k)[i] = Token("x")
  BY RunType DEF Run
<1>3. Closed(Run(k)) /\ (Run(k) = <<>> \/ ~IsHeader(Run(k)[1]))
  <2>1. \A i \in 1..k : ~IsHeader(Run(k)[i])
    BY <1>2, TextIsNoHeader
  <2>2. Run(k) # <<>> => 1 \in 1..k
    BY <1>2, EmptySeq
  <2>3. \A i \in 2..k : i \in 1..k
    OBVIOUS
  <2> QED
    BY <1>2, <2>1, <2>2, <2>3 DEF Closed
<1>4. /\ <<Header(r)>> \o Run(k) \in Seq(Tokens) /\ Closed(<<Header(r)>> \o Run(k))
  BY <1>1, <1>2, <1>3, JoinClosed, ConcatProperties
<1>5. /\ TurnEnd = <<Token("eot")>> /\ TurnEnd \in Seq(Tokens) /\ Closed(TurnEnd)
      /\ ~IsHeader(TurnEnd[1])
  BY TokenTypes, OneClosed, TextIsNoHeader DEF TurnEnd
<1>6. EncodeMessage(r, k) = (<<Header(r)>> \o Run(k)) \o TurnEnd
  BY DEF EncodeMessage, EncodeHeader, Run
<1>7. Closed(EncodeMessage(r, k))
  BY <1>4, <1>5, <1>6, JoinClosed
<1>8. EncodeMessage(r, k)[Len(EncodeMessage(r, k))] = Token("eot")
  <2> DEFINE front == <<Header(r)>> \o Run(k)
  <2>1. front \in Seq(Tokens) /\ Len(front) \in Nat
    BY <1>4, LenProperties
  <2>2. <<Token("eot")>>[1] = Token("eot") /\ Len(<<Token("eot")>>) = 1
    OBVIOUS
  <2>3. Len(front \o TurnEnd) = Len(front) + 1
    BY <1>5, <2>1, <2>2, ConcatProperties
  <2>4. \A i \in 1..(Len(front) + Len(TurnEnd)) :
          (front \o TurnEnd)[i] = IF i <= Len(front) THEN front[i] ELSE TurnEnd[i - Len(front)]
    BY <1>5, <2>1, ConcatProperties
  <2> HIDE DEF front
  <2>5. (front \o TurnEnd)[Len(front) + 1] = TurnEnd[1]
    BY <1>5, <2>1, <2>2, <2>4
  <2> QED
    BY <1>5, <1>6, <2>2, <2>3, <2>5 DEF front
<1> QED
  BY <1>7, <1>8 DEF Opens

\* The system prompt is closed, ends a turn and is its own beginning.
LEMMA StartClosed ==
    ASSUME Template = "Llama3"
    PROVE  /\ Closed(ConversationStart)
           /\ Opens(ConversationStart[Len(ConversationStart)])
<1> DEFINE m == EncodeMessage("system", SystemLen)
<1>1. "system" \in Roles /\ SystemLen \in Nat
  BY ChatAssumption DEF Roles
<1>2. m \in Seq(Tokens) /\ Closed(m) /\ Opens(m[Len(m)]) /\ Len(m) \in Nat \ {0}
  <2>1. m \in Seq(Tokens) /\ Len(m) = 1 + SystemLen + Len(TurnEnd)
    BY <1>1, MessageLen
  <2>2. Closed(m) /\ Opens(m[Len(m)])
    BY <1>1, MessageClosed
  <2>3. Len(TurnEnd) \in Nat
    BY TokenTypes
  <2> HIDE DEF m
  <2> QED
    BY <1>1, <2>1, <2>2, <2>3
<1>3. ConversationStart = <<Token("bos")>> \o m
  BY DEF ConversationStart
<1> HIDE DEF m
<1>4. /\ <<Token("bos")>> \in Seq(Tokens) /\ Closed(<<Token("bos")>>)
      /\ Len(<<Token("bos")>>) = 1 /\ <<Token("bos")>>[1] = Token("bos")
  BY TokenTypes, OneClosed
<1>5. Closed(ConversationStart)
  <2>1. Opens(<<Token("bos")>>[Len(<<Token("bos")>>)])
    BY <1>4 DEF Opens
  <2> QED
    BY <1>2, <1>3, <1>4, <2>1, JoinClosed, Zenon
<1>6. ConversationStart[Len(ConversationStart)] = m[Len(m)]
  <2>1. Len(<<Token("bos")>> \o m) = 1 + Len(m)
    BY <1>2, <1>4, ConcatProperties
  <2>2. \A i \in 1..(1 + Len(m)) :
          (<<Token("bos")>> \o m)[i] = IF i <= 1 THEN <<Token("bos")>>[i] ELSE m[i - 1]
    BY <1>2, <1>4, ConcatProperties
  <2>3. 1 + Len(m) \in 1..(1 + Len(m)) /\ ~(1 + Len(m) <= 1) /\ (1 + Len(m)) - 1 = Len(m)
    BY <1>2
  <2> QED
    BY <1>3, <2>1, <2>2, <2>3, Zenon
<1> QED
  BY <1>2, <1>5, <1>6

\* The tokens of a turn are closed, and begin with the system prompt when the
\* conversation does.
LEMMA TurnClosed ==
    ASSUME Template = "Llama3", NEW k \in PromptLens
    PROVE  /\ \A fresh \in BOOLEAN : Closed(TurnIds(fresh, k))
           /\ Starts(TurnIds(TRUE, k))
<1> DEFINE m == EncodeMessage("user", k)
           h == EncodeHeader("assistant")
<1>1. k \in Nat /\ "user" \in Roles /\ "assistant" \in Roles
  BY ChatAssumption DEF PromptLens, Roles
<1>2. m \in Seq(Tokens) /\ Closed(m) /\ Opens(m[Len(m)])
  BY <1>1, MessageLen, MessageClosed
<1>3. h \in Seq(Tokens) /\ Closed(h)
  BY <1>1, TokenTypes, OneClosed DEF EncodeHeader
<1>4. ConversationStart \in Seq(Tokens)
  BY StartLen
<1>5. /\ TurnIds(TRUE, k) = (ConversationStart \o m) \o h
      /\ TurnIds(FALSE, k) = (<<>> \o m) \o h
  BY DEF TurnIds
<1> HIDE DEF m, h
<1>6. m \o h \in Seq(Tokens) /\ Closed(m \o h)
  BY <1>2, <1>3, JoinClosed, ConcatProperties
<1>7. TurnIds(TRUE, k) = ConversationStart \o (m \o h)
  BY <1>2, <1>3, <1>4, <1>5, Regroup, Zenon
<1>8. TurnIds(FALSE, k) = m \o h
  <2>1. <<>> \o m = m
    BY <1>2
  <2> QED
    BY <1>5, <2>1
<1>9. Closed(TurnIds(TRUE, k))
  BY <1>4, <1>6, <1>7, JoinClosed, StartClosed
<1>10. \A fresh \in BOOLEAN : Closed(TurnIds(fresh, k))
  BY <1>6, <1>8, <1>9
<1>11. Starts(TurnIds(TRUE, k))
  BY <1>6, <1>7 DEF Starts
<1> QED
  BY <1>10, <1>11

\* The context and what this turn still has to prefill, taken together, follow
\* the template until a turn is cut short; between two turns the last one has
\* its end, or there is no room left and the next one starts over.
TemplateInv ==
    /\ StartedInv
    /\ pc \notin {"prefill", "prefillkey", "panic"} => ids = <<>>
    /\ ~cut => Closed(ctx \o ids)
    /\ ~cut /\ started => Starts(ctx \o ids)
    /\ pc = "close" /\ ~cut => next = "stop"
    /\ pc = "idle" /\ started /\ ~cut => ~(Remaining > 0) \/ Opens(ctx[Len(ctx)])

LEMMA AppendOne == ASSUME NEW s \in Seq(Tokens), NEW t \in Tokens
                   PROVE  Append(s, t) = s \o <<t>> /\ Append(s, t) \o <<>> = Append(s, t) /\ s \o <<>> = s
<1>1. <<t>> \in Seq(Tokens) /\ Len(<<t>>) = 1
  OBVIOUS
<1>2. Append(s, t) = s \o <<t>>
  OBVIOUS
<1>3. Append(s, t) \o <<>> = Append(s, t)
  OBVIOUS
<1> QED
  BY <1>2, <1>3

\* One more token of an answer keeps the template.
LEMMA Extended ==
    ASSUME NEW s \in Seq(Tokens), NEW c \in {"g", "eot"}
    PROVE  /\ Closed(s \o <<>>) => Closed(Append(s, Token(c)) \o <<>>)
           /\ Starts(s \o <<>>) => Starts(Append(s, Token(c)) \o <<>>)
           /\ Append(s, Token(c))[Len(Append(s, Token(c)))] = Token(c)
<1>1. Token(c) \in Tokens /\ ~IsHeader(Token(c))
  BY TokenTypes, TextIsNoHeader
<1>2. /\ <<Token(c)>> \in Seq(Tokens) /\ Closed(<<Token(c)>>) /\ <<Token(c)>>[1] = Token(c)
  BY <1>1, OneClosed
<1>3. Append(s, Token(c)) = s \o <<Token(c)>> /\ Append(s, Token(c)) \o <<>> = Append(s, Token(c)) /\ s \o <<>> = s
  BY <1>1, AppendOne
<1>4. Closed(s) => Closed(s \o <<Token(c)>>)
  BY <1>1, <1>2, JoinClosed
<1>5. ASSUME Starts(s) PROVE Starts(s \o <<Token(c)>>)
  <2>1. PICK u \in Seq(Tokens) : s = ConversationStart \o u
    BY <1>5 DEF Starts
  <2>2. u \o <<Token(c)>> \in Seq(Tokens)
    BY <1>2, ConcatProperties
  <2>3. s \o <<Token(c)>> = ConversationStart \o (u \o <<Token(c)>>)
    BY <1>2, <2>1, StartLen, Regroup, Zenon
  <2> QED
    BY <2>2, <2>3 DEF Starts
<1>6. Append(s, Token(c))[Len(Append(s, Token(c)))] = Token(c)
  BY <1>1, AppendProperties
<1> QED
  BY <1>3, <1>4, <1>5, <1>6

LEMMA EmptyClosed == <<>> \o <<>> = <<>> /\ Closed(<<>>)
BY DEF Closed

\* A turn that begins goes behind a whole one, or into an empty context.
LEMMA BeginTemplate ==
    ASSUME Template = "Llama3", TemplateInv, pc = "idle", NEW k \in PromptLens, Begin(k), StartedInv'
    PROVE  TemplateInv'
<1>0. ChatType /\ ids = <<>> /\ ctx \in Seq(Tokens) /\ StartedIffContext /\ started \in BOOLEAN
  BY DEF TemplateInv, StartedInv, ChatType
<1>1. PICK fresh \in BOOLEAN :
        /\ ids' = TurnIds(fresh, k)
        /\ fresh = (Remaining < MaxGen + Slack \/ ~started)
        /\ ctx' = IF Remaining < MaxGen + Slack THEN <<>> ELSE ctx
        /\ cut' = IF Remaining < MaxGen + Slack THEN FALSE ELSE cut
        /\ ctx' \in Seq(Tokens) /\ ids' \in Seq(Tokens)
        /\ started' = TRUE /\ cut' \in BOOLEAN /\ pc' = "prefill"
  BY <1>0, BeginFacts, Zenon
<1>2. Closed(TurnIds(fresh, k)) /\ Starts(TurnIds(TRUE, k))
  BY TurnClosed
<1>3. CASE fresh = TRUE
  <2>1. ctx' = <<>>
    BY <1>0, <1>1, <1>3 DEF StartedIffContext
  <2>2. ctx' \o ids' = TurnIds(TRUE, k)
    <3>1. ids' \in Seq(Tokens) /\ ids' = TurnIds(TRUE, k)
      BY <1>1, <1>3
    <3>2. <<>> \o ids' = ids'
      BY <3>1
    <3> QED
      BY <2>1, <3>1, <3>2
  <2> QED
    BY <1>1, <1>2, <1>3, <2>2 DEF TemplateInv
<1>4. CASE fresh = FALSE
  <2>1. ctx' = ctx /\ cut' = cut /\ started /\ ~(Remaining < MaxGen + Slack)
    BY <1>0, <1>1, <1>4
  <2>2. SUFFICES ASSUME ~cut PROVE Closed(ctx' \o ids') /\ Starts(ctx' \o ids')
    BY <1>1, <2>1 DEF TemplateInv
  <2>3. Remaining > 0
    <3>1. Len(ctx) \in Nat
      BY <1>0, LenProperties
    <3> QED
      BY <2>1, <3>1, ChatAssumption DEF Remaining
  <2>4. ctx \o ids = ctx
    BY <1>0
  <2>5. Closed(ctx) /\ Starts(ctx) /\ Opens(ctx[Len(ctx)])
    BY <2>1, <2>2, <2>3, <2>4 DEF TemplateInv
  <2>6. Closed(ctx' \o ids')
    BY <1>0, <1>1, <1>2, <2>1, <2>5, JoinClosed, Zenon
  <2>7. Starts(ctx' \o ids')
    <3>1. PICK u \in Seq(Tokens) : ctx = ConversationStart \o u
      BY <2>5 DEF Starts
    <3>2. u \o ids' \in Seq(Tokens)
      BY <1>1, ConcatProperties
    <3>3. (ConversationStart \o u) \o ids' = ConversationStart \o (u \o ids')
      BY <1>1, StartLen, Regroup
    <3>4. ctx' \o ids' = ConversationStart \o (u \o ids')
      BY <2>1, <3>1, <3>3, Zenon
    <3> QED
      BY <3>2, <3>4 DEF Starts
  <2> QED
    BY <2>6, <2>7
<1> QED
  BY <1>3, <1>4

LEMMA NextTemplate ==
    ASSUME Template = "Llama3", TemplateInv, [Next]_vars
    PROVE  TemplateInv'
<1>0. StartedInv' /\ StartedInv /\ ChatType /\ ChatType' /\ ctx \in Seq(Tokens)
  BY NextStarted DEF TemplateInv, StartedInv, ChatType
<1>1. CASE KeyChar \/ KeyBackspace \/ KeyDelete \/ KeyLeft \/ KeyRight \/ EnterOther \/ McpResponse
  <2>1. UNCHANGED <<pc, ctx, started, ids, next, cut>>
    BY <1>1, Zenon DEF KeyChar, KeyBackspace, KeyDelete, KeyLeft, KeyRight, Edit, EnterOther, McpResponse
  <2> QED
    BY <1>0, <2>1 DEF TemplateInv, Remaining
<1>2. CASE EnterClear
  <2>1. ctx' = <<>> /\ ids = <<>> /\ UNCHANGED ids /\ started' = FALSE /\ pc' = "idle"
    BY <1>2 DEF EnterClear, TemplateInv
  <2> QED
    BY <1>0, <2>1, EmptyClosed DEF TemplateInv
<1>3. CASE EnterBye
  BY <1>0, <1>3 DEF EnterBye, TemplateInv
<1>4. ASSUME NEW k \in PromptLens, EnterPrompt(k) \/ McpPrompt(k) PROVE TemplateInv'
  BY <1>0, <1>4, BeginTemplate DEF EnterPrompt, McpPrompt
<1>5. CASE Prefill
  <2>1. ctx' \o ids' = ctx \o ids /\ pc' \in {"panic", "prefillkey"}
    BY <1>0, <1>5, PrefillFacts DEF Prefill
  <2>2. UNCHANGED <<started, next, cut>>
    BY <1>5 DEF Prefill
  <2> QED
    BY <1>0, <2>1, <2>2 DEF TemplateInv
<1>6. ASSUME NEW k \in {"esc", "other"}, PrefillKey(k) PROVE TemplateInv'
  <2>1. /\ UNCHANGED <<ctx, started, next>>
        /\ ~cut' => ~cut /\ ids' = ids
        /\ pc' \in {"sample", "prefill"} /\ (pc' = "sample" => ids' = <<>>)
    BY <1>6 DEF PrefillKey
  <2> QED
    BY <1>0, <2>1 DEF TemplateInv
<1>7. ASSUME NEW k \in {"esc", "other"}, GenKey(k) PROVE TemplateInv'
  BY <1>0, <1>7 DEF GenKey, TemplateInv
<1>8. ASSUME NEW t \in {"token", "stop"}, Sample(t) PROVE TemplateInv'
  BY <1>0, <1>8 DEF Sample, TemplateInv
<1>9. CASE Emit
  BY <1>0, <1>9 DEF Emit, TemplateInv
<1>10. CASE EndLoop
  BY <1>0, <1>10 DEF EndLoop, TemplateInv
<1>11. CASE Forward
  <2>1. /\ ids = <<>> /\ UNCHANGED <<ids, started, next, cut>> /\ pc' \in {"panic", "sample"}
        /\ ctx' = ctx \/ ctx' = Append(ctx, Token("g"))
    BY <1>11 DEF Forward, TemplateInv
  <2> QED
    BY <1>0, <2>1, Extended DEF TemplateInv
<1>12. CASE Close
  <2>1. ids = <<>> /\ UNCHANGED <<ids, started, cut>> /\ pc' = "idle"
    BY <1>12 DEF Close, TemplateInv
  <2>2. CASE next = "stop" /\ Remaining > 0
    <3>1. ctx' = Append(ctx, Token("eot"))
      BY <1>12, <2>2 DEF Close
    <3>2. Opens(ctx'[Len(ctx')])
      BY <1>0, <3>1, Extended DEF Opens
    <3> QED
      BY <1>0, <2>1, <3>1, <3>2, Extended DEF TemplateInv
  <2>3. CASE ~(next = "stop" /\ Remaining > 0)
    <3>1. ctx' = ctx /\ (~cut => ~(Remaining > 0))
      BY <1>12, <2>3 DEF Close, TemplateInv
    <3> QED
      BY <1>0, <2>1, <3>1 DEF TemplateInv, Remaining
  <2> QED
    BY <2>2, <2>3
<1>13. CASE UNCHANGED vars
  BY <1>0, <1>13 DEF vars, TemplateInv, Remaining
<1> QED
  BY <1>1, <1>2, <1>3, <1>4, <1>5, <1>6, <1>7, <1>8, <1>9, <1>10, <1>11, <1>12, <1>13
  DEF Next, Generate, PromptLens

LEMMA Single ==
    ASSUME NEW s \in Seq(Tokens), NEW t \in Tokens, Len(s) = 1, s[1] = t
    PROVE  s = <<t>>
<1>1. <<t>> \in Seq(Tokens) /\ Len(<<t>>) = 1 /\ <<t>>[1] = t
  BY OneClosed
<1>2. \A i \in 1..1 : s[i] = <<t>>[i]
  <2>1. \A i \in 1..1 : i = 1
    OBVIOUS
  <2> QED
    BY <1>1, <2>1, Zenon
<1>3. Len(s) = Len(<<t>>) /\ \A i \in 1..Len(s) : s[i] = <<t>>[i]
  BY <1>1, <1>2, Zenon
<1> QED
  BY <1>1, <1>3, SeqEqual, Zenon

\* What the invariant says of the context itself.
LEMMA TemplateImplies == Template = "Llama3" /\ TemplateInv => TemplateConsistent
<1> SUFFICES ASSUME Template = "Llama3", TemplateInv, ~cut
             PROVE  TurnsClosed /\ (pc = "idle" /\ started => IsPrefix(ConversationStart, ctx))
  BY DEF TemplateConsistent
<1>0. ctx \in Seq(Tokens) /\ ids \in Seq(Tokens) /\ Len(ctx) \in Nat
  BY LenProperties DEF TemplateInv, StartedInv, ChatType
<1>1. TurnsClosed
  <2>1. Closed(ctx)
    BY <1>0, ClosedFront DEF TemplateInv
  <2>2. TurnEnd = <<Token("eot")>> /\ Len(TurnEnd) = 1
    BY DEF TurnEnd
  <2> SUFFICES ASSUME NEW i \in 2..Len(ctx), IsHeader(ctx[i]), ctx[i - 1] # Token("bos")
               PROVE  i > 1 /\ SubSeq(ctx, i - 1, i - 1) = <<Token("eot")>>
    BY <2>2 DEF TurnsClosed
  <2>3. ctx[i - 1] = Token("eot")
    BY <2>1 DEF Closed, Opens
  <2>4. i - 1 \in 1..Len(ctx) /\ i > 1
    BY <1>0
  <2>5. SubSeq(ctx, i - 1, i - 1) = <<ctx[i - 1]>>
    <3>1. ctx[i - 1] \in Tokens /\ i - 1 \in Int
      BY <1>0, <2>4, ElementOfSeq
    <3> DEFINE j == i - 1
    <3>2. j \in Int /\ (\A m \in j..j : ctx[m] \in Tokens) /\ j <= j /\ j - j + 1 = 1 /\ j + 1 - 1 = j
      BY <3>1
    <3> HIDE DEF j
    <3>3. /\ SubSeq(ctx, j, j) \in Seq(Tokens)
          /\ Len(SubSeq(ctx, j, j)) = IF j <= j THEN j - j + 1 ELSE 0
          /\ \A m \in 1..(j - j + 1) : SubSeq(ctx, j, j)[m] = ctx[j + m - 1]
      BY <3>2, SubSeqProperties
    <3>4. Len(SubSeq(ctx, j, j)) = 1 /\ SubSeq(ctx, j, j)[1] = ctx[j] /\ ctx[j] \in Tokens
      BY <3>2, <3>3
    <3>5. SubSeq(ctx, j, j) = <<ctx[j]>>
      BY <3>3, <3>4, Single, Zenon
    <3> QED
      BY <3>5 DEF j
  <2> QED
    BY <2>3, <2>4, <2>5
<1>2. ASSUME pc = "idle", started PROVE IsPrefix(ConversationStart, ctx)
  <2>1. ctx \o ids = ctx /\ Starts(ctx \o ids)
    BY <1>0, <1>2 DEF TemplateInv
  <2>2. PICK u \in Seq(Tokens) : ctx = ConversationStart \o u
    BY <2>1 DEF Starts
  <2> DEFINE c == ConversationStart  n == Len(ConversationStart)
  <2>3. c \in Seq(Tokens) /\ n \in Nat /\ Len(u) \in Nat
    BY StartLen, LenProperties
  <2>4. Len(ctx) = n + Len(u)
    BY <2>2, <2>3, ConcatProperties
  <2>5. \A i \in 1..n : ctx[i] = c[i]
    BY <2>2, <2>3, ConcatProperties
  <2>6. SubSeq(c, 1, n) = SubSeq(ctx, 1, n)
    BY <1>0, <2>3, <2>4, <2>5
  <2> QED
    BY <2>3, <2>4, <2>6 DEF IsPrefix
<1> QED
  BY <1>1, <1>2

\* With the Llama 3 template every conversation whose turns end by a stop token
\* keeps the form encode_conversation_start and encode_message give it, through
\* any number of turns, dropped conversations and full windows.
THEOREM TemplateKept == ASSUME Template = "Llama3" PROVE Spec => []TemplateConsistent
<1>1. Init => TemplateInv
  <2>1. Init => ctx = <<>> /\ ids = <<>> /\ ~started /\ pc = "idle"
    BY DEF Init
  <2> QED
    BY <2>1, InitStarted, EmptyClosed DEF TemplateInv
<1>2. TemplateInv /\ [Next]_vars => TemplateInv'
  BY NextTemplate
<1>3. TemplateInv => TemplateConsistent
  BY TemplateImplies
<1> QED
  BY <1>1, <1>2, <1>3, PTL DEF Spec
=============================================================================
