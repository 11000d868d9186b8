-------------------------------- MODULE Link --------------------------------
(***************************************************************************)
(* What the datagram framing of nr-mcp promises the two ends of the        *)
(* bridge: messages may be lost, duplicated and reordered, and a damaged   *)
(* header may give one another kind and id, but the body that comes out    *)
(* is, whole, one that was put in.                                         *)
(***************************************************************************)
CONSTANT Messages

VARIABLES
    sent,   \* every message handed to the link
    altered,\* the messages damaged headers speak of
    out     \* the message the last datagram completed, or none

NoMessage == [tag |-> "none"]
Got(m)    == [tag |-> "message", message |-> m]

Init == sent = {} /\ altered = {} /\ out = NoMessage

Send(m) ==
    /\ sent' = sent \cup {m}
    /\ out' = NoMessage
    /\ UNCHANGED altered

Alter(m) ==
    /\ out' = NoMessage
    /\ UNCHANGED sent
    /\ altered' = altered \cup {m}

Deliver(m) ==
    /\ out' = Got(m)
    /\ m \in sent \/ (m \in altered /\ \E q \in sent : q.body = m.body)
    /\ UNCHANGED <<sent, altered>>

Nothing ==
    /\ out' = NoMessage
    /\ UNCHANGED <<sent, altered>>

Next == Nothing \/ \E m \in Messages : Send(m) \/ Alter(m) \/ Deliver(m)

Spec == Init /\ [][Next]_<<sent, altered, out>>
=============================================================================
