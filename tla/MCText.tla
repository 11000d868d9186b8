------------------------------- MODULE MCText -------------------------------
(* Text for TLC: nine characters of all classes, prompts of up to four of     *)
(* them, a vocabulary with overlapping merges and a control token that can be *)
(* typed, and tokens that cut characters anywhere.                            *)
EXTENDS Text, TLC

B(b) == <<b>>
EAcute == <<"C3", "hi">>

MCAscii == {"s", "l", "7", "'", ".", " ", "tab", "nl"}
MCBytes == MCAscii \cup {"C3", "E0", "F1", "lo", "hi", "FF"}
MCLead  == [C3 |-> [len |-> 2, second |-> {"lo", "hi"}],
            E0 |-> [len |-> 3, second |-> {"hi"}],
            F1 |-> [len |-> 4, second |-> {"lo", "hi"}]]

MCLetters      == {B("s"), B("l"), EAcute}
MCNumbers      == {B("7")}
MCNewlines     == {B("nl")}
MCBlanks       == {B(" "), B("tab"), B("nl")}
MCSpace        == B(" ")
MCQuote        == B("'")
MCContractions == {<<B("s")>>, <<B("l"), B("l")>>}
MCChars        == MCLetters \cup MCNumbers \cup MCBlanks \cup {MCQuote, B(".")}
MCPrompts      == UNION {[1..n -> MCChars] : n \in 1..4}

Plain(b)   == [bytes |-> b, control |-> FALSE]
Special(b) == [bytes |-> b, control |-> TRUE]

MCVocab ==
    <<Special(<<".", ".">>), Plain(B("s")), Plain(B("l")), Plain(B("7")), Plain(B("'")), Plain(B(".")),
      Plain(B(" ")), Plain(B("tab")), Plain(B("nl")), Plain(B("C3")), Plain(B("E0")), Plain(B("F1")),
      Plain(B("lo")), Plain(B("hi")), Plain(B("FF")), Plain(<<"l", "l">>), Plain(<<"s", "l">>),
      Plain(<<"l", "l", "s">>), Plain(<<" ", "s">>), Plain(EAcute), Plain(<<"l", "l", "l", "l", "l">>)>>

MCMerges ==
    << <<B("l"), B("l")>>, <<B("."), B(".")>>, <<B("s"), B("l")>>, <<<<"l", "l">>, B("s")>>,
       <<B(" "), B("s")>>, <<B("C3"), B("hi")>> >>

\* lllll, sl, space, newline, C3, E0, F1, lo, hi and an id out of range
MCSampled == {21, 17, 7, 9, 10, 11, 12, 13, 14, 22}
=============================================================================
