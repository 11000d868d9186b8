-------------------------------- MODULE Nrmp --------------------------------
(***************************************************************************)
(* NRMP, the datagram framing between the gateway and a NightRun device    *)
(* (crates/nr-mcp/src/lib.rs): a sender that fragments messages, a UDP     *)
(* network that loses, duplicates, reorders and may damage datagrams, and  *)
(* the Reassembler, which holds one incomplete message.                    *)
(*                                                                         *)
(* A body is the sequence of its fragments' payloads, so lengths are       *)
(* counted in fragments.  The network is the set of datagrams ever sent:   *)
(* any of them may arrive at any time, any number of times or never.       *)
(***************************************************************************)
EXTENDS Integers, Sequences, FiniteSets

CONSTANTS
    Kinds,      \* values of enum Kind
    HostRequest,\* the Kind a new Reassembler holds
    Ids,        \* message ids in use
    Payloads,   \* what one fragment can carry
    Zeros,      \* a payload of zero bytes
    SendMax,    \* fragments the sender may produce (64 in fragment_count)
    RecvMax,    \* fragments that fit the receiver's buffer (its const MAX)
    Crc,        \* CRC-32 of a body
    BadCrc,     \* a checksum field changed on its way
    MaxSent,    \* bound on the messages sent
    MaxDamaged  \* bound on the damaged datagrams

Bodies == UNION {[1..k -> Payloads] : k \in 1..SendMax}

\* The CRC is taken to tell the bodies apart, and a changed checksum to be that
\* of no body: nothing in this protocol detects a CRC collision.
ASSUME NrmpAssumption ==
    /\ HostRequest \in Kinds
    /\ Ids \subseteq Nat
    /\ Zeros \in Payloads
    /\ SendMax \in Nat \ {0}
    /\ RecvMax \in Nat \ {0}
    /\ MaxSent \in Nat /\ MaxDamaged \in Nat /\ BadCrc \in Nat
    /\ \A b \in Bodies : Crc[b] # BadCrc
    /\ Crc \in [Bodies -> Nat]
    /\ \A b, c \in Bodies : Crc[b] = Crc[c] => b = c

Messages == [kind : Kinds, id : Ids, body : Bodies]

\* The part of the header that all fragments of a message share.
KeyOf(m) == [kind |-> m.kind, id |-> m.id, count |-> Len(m.body), crc |-> Crc[m.body]]
Keys     == [kind : Kinds, id : Nat, count : 0..SendMax, crc : Nat]

\* encode_fragment
Fragment(m, i) == [key |-> KeyOf(m), index |-> i, payload |-> m.body[i]]

VARIABLES
    sent,       \* history: the messages handed to the sender
    network,    \* the datagrams in the network
    damaged,    \* history: what datagrams changed on their way arrive as
    active, key, received, buffer,      \* struct Reassembler
    out         \* what the last push returned

nrmpvars == <<sent, network, damaged, active, key, received, buffer, out>>

NoMessage == [tag |-> "none"]
Error(e)  == [tag |-> "error", error |-> e]
Got(m)    == [tag |-> "message", message |-> m]

\* Default::default
NrmpInit ==
    /\ sent = {} /\ network = {} /\ damaged = {}
    /\ active = FALSE /\ received = {}
    /\ key = [kind |-> HostRequest, id |-> 0, count |-> 0, crc |-> 0]
    /\ buffer = [i \in 1..RecvMax |-> Zeros]
    /\ out = NoMessage

\* The sender's loop over encode_fragment.
Send(m) ==
    /\ Cardinality(sent) < MaxSent
    /\ sent' = sent \cup {m}
    /\ network' = network \cup {Fragment(m, i) : i \in 1..Len(m.body)}
    /\ out' = NoMessage
    /\ UNCHANGED <<damaged, active, key, received, buffer>>

\* What a datagram can become on its way and still pass parse_fragment: kind,
\* message_id and the payload may read anything, and so may index and count
\* among themselves.  A total_len that changes alone acts like a changed
\* checksum: nothing sent completes the message it starts.
Damages ==
    {g \in [key     : [kind : Kinds, id : Ids, count : 1..SendMax,
                       crc : {f.key.crc : f \in network} \cup {BadCrc}],
            index   : 1..SendMax,
            payload : Payloads] : g.index <= g.key.count}

Damage(g) ==
    /\ network # {}
    /\ Cardinality(damaged) < MaxDamaged
    /\ damaged' = damaged \cup {g}
    /\ network' = network \cup {g}
    /\ out' = NoMessage
    /\ UNCHANGED <<sent, active, key, received, buffer>>

\* Mutant of Complete: the checksum is not compared.
CompleteUnchecked(k, b) == Got([kind |-> k.kind, id |-> k.id, body |-> [i \in 1..k.count |-> b[i]]])

\* The CRC check of a buffer whose every fragment has been received.
Complete(k, b) ==
    LET body == [i \in 1..k.count |-> b[i]] IN
    IF Crc[body] # k.crc
    THEN Error("ChecksumMismatch")
    ELSE Got([kind |-> k.kind, id |-> k.id, body |-> body])

\* Mutant of SameMessage: only the id is compared.
SameId(f) == active /\ key.id = f.key.id

SameMessage(f) == active /\ key = f.key

\* Reassembler::push of a datagram that parse_fragment accepts.
Push(f) ==
    /\ f \in network
    /\ UNCHANGED <<sent, network, damaged>>
    /\ IF f.key.count > RecvMax
       THEN out' = Error("MessageTooLarge") /\ UNCHANGED <<active, key, received, buffer>>
       ELSE /\ key' = IF SameMessage(f) THEN key ELSE f.key
            /\ buffer' = [buffer EXCEPT ![f.index] = f.payload]
            /\ received' = (IF SameMessage(f) THEN received ELSE {}) \cup {f.index}
            /\ IF received' # 1..key'.count
               THEN active' = TRUE /\ out' = NoMessage
               ELSE active' = FALSE /\ out' = Complete(key', buffer')

\* Reassembler::push of a datagram that parse_fragment refuses: another
\* protocol's, or one whose damaged header does not add up.
PushInvalid ==
    /\ out' = Error("InvalidFragment")
    /\ UNCHANGED <<sent, network, damaged, active, key, received, buffer>>

NrmpNext ==
    \/ \E m \in Messages : Send(m)
    \/ \E g \in Damages : Damage(g)
    \/ \E f \in network : Push(f)
    \/ PushInvalid

NrmpSpec == NrmpInit /\ [][NrmpNext]_nrmpvars

-----------------------------------------------------------------------------
Headers   == [kind : Kinds, id : Ids, count : 1..SendMax, crc : Nat]
Datagrams == [key : Headers, index : 1..SendMax, payload : Payloads]

\* The types of the Reassembler's fields and of the datagrams: in particular
\* an index fits the mask and count never exceeds what fragment_count allows.
NrmpTypes ==
    /\ sent \subseteq Messages
    /\ network \subseteq Datagrams
    /\ damaged \subseteq network
    /\ active \in BOOLEAN
    /\ key \in Keys
    /\ received \subseteq 1..SendMax
    /\ buffer \in [1..RecvMax -> Payloads]
    /\ out \in {NoMessage} \cup {Error(e) : e \in {"MessageTooLarge", "ChecksumMismatch", "InvalidFragment"}}
               \cup {Got(m) : m \in Messages}

\* The header of g is one of the message m.
Names(g, m) == g.key.id = m.id /\ g.key.kind = m.kind /\ g.key.crc = Crc[m.body]

\* What Reassembler::push returns has the body of a message that was sent, and
\* its kind and id too unless a datagram arrived that names others: the CRC
\* covers the body only.  Fragments of different messages are never put
\* together, also when ids are reused and the network damages datagrams.
Integrity ==
    out.tag = "message" =>
        \/ out.message \in sent
        \/ /\ \E m \in sent : m.body = out.message.body
           /\ \E g \in damaged : Names(g, out.message)

\* As long as the network leaves datagrams alone, push never reports
\* ChecksumMismatch: no interleaving of duplicated, reordered or lost
\* fragments spoils a message that becomes complete.
NoFalseMismatch == damaged = {} => out # Error("ChecksumMismatch")

\* The header k is that of a message sent, or of a damaged datagram whose
\* checksum is still that of a message sent, or is wrong.
FromSender(k) ==
    \/ \E m \in sent : KeyOf(m) = k
    \/ /\ \E g \in damaged : g.key = k
       /\ k.crc = BadCrc \/ \E m \in sent : k.crc = Crc[m.body]

\* A message under assembly has such a header, and is incomplete: the bit mask
\* never fills up without the message being handed over or refused.
AssemblesSent ==
    active => /\ FromSender(key)
              /\ received \subseteq 1..key.count
              /\ received # 1..key.count

ALink == INSTANCE Link WITH
    out     <- IF out.tag = "message" THEN out ELSE NoMessage,
    altered <- {m \in Messages : \E g \in damaged : Names(g, m)}

\* To the two ends the framing is a link that may lose, duplicate and reorder
\* messages and misread their kind and id, but not alter or invent a body.
ImplementsLink == ALink!Spec
=============================================================================
