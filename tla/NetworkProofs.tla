---------------------------- MODULE NetworkProofs ---------------------------
(***************************************************************************)
(* Proofs about the two layers a message takes to and from the appliance:  *)
(* the framing (Nrmp), for any messages, fragment limits and number of     *)
(* sends, over a network that loses, duplicates, reorders and damages; and *)
(* the stack with its adapter (NetAdapter), for a LAN of any size, any     *)
(* frames on it, messages of any number of fragments and any capacity of   *)
(* the neighbour cache.                                                    *)
(***************************************************************************)
EXTENDS Nrmp, NetAdapter, SequenceTheorems, TLAPS

-----------------------------------------------------------------------------
(* The framing: the datagrams in the network *)

\* The datagram f is one of the fragments of the message m.
FragmentOf(f, m) ==
    /\ f.key = KeyOf(m)
    /\ f.index \in 1..Len(m.body)
    /\ f.payload = m.body[f.index]

\* Every datagram in the network has a header FromSender accounts for, and on
\* an undamaged network it is a fragment of a message that was sent.
WireInv ==
    \A f \in network :
        /\ f.index \in 1..f.key.count
        /\ FromSender(f.key)
        /\ damaged = {} => \E m \in sent : FragmentOf(f, m)

\* The fragments received are those of the message m.
AssemblyOf(m) == key = KeyOf(m) /\ \A i \in received : buffer[i] = m.body[i]

AssemblyInv ==
    active => /\ key \in Headers
              /\ FromSender(key)
              /\ key.count <= RecvMax
              /\ received \subseteq 1..key.count
              /\ received # 1..key.count
              /\ damaged = {} => \E m \in sent : AssemblyOf(m)

NrmpInv == NrmpTypes /\ WireInv /\ AssemblyInv /\ Integrity /\ NoFalseMismatch

-----------------------------------------------------------------------------
LEMMA BodyLen ==
    \A b \in Bodies : Len(b) \in 1..SendMax /\ b \in [1..Len(b) -> Payloads]
<1> TAKE b \in Bodies
<1>1. PICK k \in 1..SendMax : b \in [1..k -> Payloads]
  BY DEF Bodies
<1>2. Len(b) = k
  BY <1>1, NrmpAssumption
<1>3. QED
  BY <1>1, <1>2

LEMMA KeyType ==
    \A m \in Messages :
        KeyOf(m) \in Keys /\ KeyOf(m).count = Len(m.body) /\ Len(m.body) \in 1..SendMax
<1> TAKE m \in Messages
<1>1. m.kind \in Kinds /\ m.id \in Nat /\ m.body \in Bodies
  BY NrmpAssumption DEF Messages
<1>2. Len(m.body) \in 1..SendMax /\ Len(m.body) \in 0..SendMax /\ Crc[m.body] \in Nat
  BY <1>1, BodyLen, NrmpAssumption
<1>3. QED
  BY <1>1, <1>2 DEF KeyOf, Keys

\* The shared header determines the message, because the CRC does the body.
LEMMA KeyUnique ==
    \A m, q \in Messages : KeyOf(m) = KeyOf(q) => m = q
BY NrmpAssumption DEF Messages, KeyOf

LEMMA NamesUnique ==
    \A g : \A m, q \in Messages : Names(g, m) /\ Names(g, q) => m = q
<1> TAKE g
<1> TAKE m, q \in Messages
<1> HAVE Names(g, m) /\ Names(g, q)
<1>1. m.kind = q.kind /\ m.id = q.id /\ Crc[m.body] = Crc[q.body]
  BY DEF Names
<1>2. m.body = q.body
  BY <1>1, NrmpAssumption DEF Messages
<1>3. QED
  BY <1>1, <1>2 DEF Messages

\* A complete buffer gives a checksum error or the message its header names,
\* and the message itself if its header and fragments are those of one.
LEMMA CompleteIsNamed ==
    ASSUME NEW k \in Headers, k.count <= RecvMax, NEW b \in [1..RecvMax -> Payloads]
    PROVE  \/ Complete(k, b) = Error("ChecksumMismatch")
           \/ \E m \in Messages :
                 /\ Complete(k, b) = Got(m)
                 /\ m.kind = k.kind /\ m.id = k.id /\ Crc[m.body] = k.crc
<1> DEFINE body == [i \in 1..k.count |-> b[i]]
           m == [kind |-> k.kind, id |-> k.id, body |-> body]
<1>1. k.kind \in Kinds /\ k.id \in Ids /\ k.count \in 1..SendMax
  BY DEF Headers
<1>2. body \in [1..k.count -> Payloads]
  BY <1>1, NrmpAssumption
<1>3. body \in Bodies
  BY <1>1, <1>2 DEF Bodies
<1>4. m \in Messages
  BY <1>1, <1>3 DEF Messages
<1>5. Complete(k, b) = IF Crc[body] # k.crc THEN Error("ChecksumMismatch") ELSE Got(m)
  BY DEF Complete
<1>6. QED
  BY <1>4, <1>5

LEMMA CompleteIsSent ==
    ASSUME NEW m \in Messages, NEW b, \A i \in 1..Len(m.body) : b[i] = m.body[i]
    PROVE  Complete(KeyOf(m), b) = Got(m)
<1>1. m.body \in [1..Len(m.body) -> Payloads]
  BY BodyLen DEF Messages
<1>2. [i \in 1..Len(m.body) |-> b[i]] = m.body
  BY <1>1
<1>3. m = [kind |-> m.kind, id |-> m.id, body |-> m.body]
  BY DEF Messages
<1>4. QED
  BY <1>2, <1>3 DEF Complete, KeyOf

\* What a header FromSender accounts for names has a body that was sent.
LEMMA NamedIsSent ==
    ASSUME NrmpTypes, NEW k, FromSender(k), NEW m \in Messages,
           m.kind = k.kind, m.id = k.id, Crc[m.body] = k.crc
    PROVE  \/ m \in sent
           \/ /\ \E q \in sent : q.body = m.body
              /\ \E g \in damaged : Names(g, m)
<1>1. m.body \in Bodies /\ Crc[m.body] # BadCrc /\ \A q \in sent : q \in Messages /\ q.body \in Bodies
  BY NrmpAssumption DEF NrmpTypes, Messages
<1>2. ASSUME NEW q \in sent, Crc[q.body] = Crc[m.body] PROVE q.body = m.body
  BY <1>1, <1>2, NrmpAssumption
<1>3. CASE \E q \in sent : KeyOf(q) = k
  <2>1. PICK q \in sent : KeyOf(q) = k
    BY <1>3
  <2>2. q.kind = m.kind /\ q.id = m.id /\ Crc[q.body] = Crc[m.body]
    BY <2>1 DEF KeyOf
  <2>3. q.body = m.body
    BY <1>2, <2>2
  <2>4. q = m
    BY <1>1, <2>2, <2>3 DEF Messages
  <2>5. QED
    BY <2>4
<1>4. CASE ~\E q \in sent : KeyOf(q) = k
  <2>1. PICK g \in damaged : g.key = k
    BY <1>4 DEF FromSender
  <2>2. PICK q \in sent : k.crc = Crc[q.body]
    BY <1>1, <1>4 DEF FromSender
  <2>3. q.body = m.body
    BY <1>2, <2>2
  <2>4. QED
    BY <2>1, <2>3 DEF Names
<1>5. QED
  BY <1>3, <1>4

\* More messages sent and more damage only add to what FromSender accounts for.
LEMMA FromSenderGrows ==
    ASSUME sent \subseteq sent', damaged \subseteq damaged', NEW k, FromSender(k)
    PROVE  FromSender(k)'
BY DEF FromSender

LEMMA IntegrityGrows ==
    ASSUME sent \subseteq sent', damaged \subseteq damaged', out' = out, Integrity
    PROVE  Integrity'
BY DEF Integrity

-----------------------------------------------------------------------------
LEMMA InitNrmpInv == NrmpInit => NrmpInv
<1> SUFFICES ASSUME NrmpInit PROVE NrmpInv
  OBVIOUS
<1>1. NrmpTypes
  <2>1. 0 \in 0..SendMax /\ HostRequest \in Kinds /\ Zeros \in Payloads
    BY NrmpAssumption
  <2>2. key \in Keys /\ buffer \in [1..RecvMax -> Payloads]
    BY <2>1 DEF NrmpInit, Keys
  <2>3. QED
    BY <2>2 DEF NrmpInit, NrmpTypes
<1>2. WireInv /\ AssemblyInv
  BY DEF NrmpInit, WireInv, AssemblyInv
<1>3. Integrity /\ NoFalseMismatch
  BY DEF NrmpInit, Integrity, NoFalseMismatch, NoMessage, Error
<1>4. QED
  BY <1>1, <1>2, <1>3 DEF NrmpInv

LEMMA SendStep ==
    ASSUME NrmpInv, NEW m \in Messages, Send(m)
    PROVE  NrmpInv'
<1> USE DEF NrmpInv
<1>1. /\ sent' = sent \cup {m}
      /\ network' = network \cup {Fragment(m, i) : i \in 1..Len(m.body)}
      /\ out' = NoMessage
      /\ UNCHANGED <<damaged, active, key, received, buffer>>
  BY DEF Send
<1>2. \A i \in 1..Len(m.body) : /\ Fragment(m, i) \in Datagrams
                                /\ Fragment(m, i).index \in 1..Fragment(m, i).key.count
                                /\ FragmentOf(Fragment(m, i), m)
  <2> TAKE i \in 1..Len(m.body)
  <2>1. m.body \in Bodies /\ m.kind \in Kinds /\ m.id \in Ids
    BY DEF Messages
  <2>2. /\ KeyOf(m) \in Headers /\ KeyOf(m).count = Len(m.body)
        /\ i \in 1..SendMax /\ m.body[i] \in Payloads
    BY <2>1, BodyLen, NrmpAssumption DEF KeyOf, Headers
  <2>3. QED
    BY <2>2 DEF Fragment, FragmentOf, Datagrams
<1>3. NrmpTypes'
  BY <1>1, <1>2 DEF NrmpTypes
<1>4. WireInv'
  <2> SUFFICES ASSUME NEW f \in network'
               PROVE  /\ f.index \in 1..f.key.count
                      /\ FromSender(f.key)'
                      /\ damaged' = {} => \E q \in sent' : FragmentOf(f, q)
    BY DEF WireInv, FragmentOf
  <2>1. CASE f \in network
    BY <1>1, <2>1, FromSenderGrows DEF WireInv
  <2>2. CASE f \notin network
    <3>1. PICK i \in 1..Len(m.body) : f = Fragment(m, i)
      BY <1>1, <2>2
    <3>2. FragmentOf(f, m) /\ f.index \in 1..f.key.count /\ f.key = KeyOf(m)
      BY <1>2, <3>1 DEF FragmentOf
    <3>3. FromSender(f.key)'
      BY <1>1, <3>2 DEF FromSender
    <3>4. QED
      BY <1>1, <3>2, <3>3
  <2>3. QED
    BY <2>1, <2>2
<1>5. AssemblyInv'
  BY <1>1, FromSenderGrows DEF AssemblyInv, AssemblyOf
<1>6. Integrity' /\ NoFalseMismatch'
  BY <1>1 DEF Integrity, NoFalseMismatch, NoMessage, Error
<1>7. QED
  BY <1>3, <1>4, <1>5, <1>6

LEMMA DamageStep ==
    ASSUME NrmpInv, NEW g \in Damages, Damage(g)
    PROVE  NrmpInv'
<1> USE DEF NrmpInv
<1>1. /\ network' = network \cup {g} /\ damaged' = damaged \cup {g}
      /\ out' = NoMessage
      /\ UNCHANGED <<sent, active, key, received, buffer>>
  BY DEF Damage
<1>2. PICK c \in {f.key.crc : f \in network} \cup {BadCrc} : g.key.crc = c
  BY DEF Damages
<1>3. /\ g.key.kind \in Kinds /\ g.key.id \in Ids /\ g.key.count \in 1..SendMax
      /\ g.index \in 1..g.key.count
      /\ g \in [key : [kind : Kinds, id : Ids, count : 1..SendMax,
                       crc : {f.key.crc : f \in network} \cup {BadCrc}],
                index : 1..SendMax, payload : Payloads]
  BY NrmpAssumption DEF Damages
<1>4. {f.key.crc : f \in network} \cup {BadCrc} \subseteq Nat
  BY NrmpAssumption DEF NrmpTypes, Datagrams, Headers
<1>5. g \in Datagrams
  BY <1>3, <1>4 DEF Datagrams, Headers
<1>6. FromSender(g.key)'
  <2>1. g.key.crc = BadCrc \/ \E m \in sent : g.key.crc = Crc[m.body]
    <3>1. CASE c = BadCrc
      BY <1>2, <3>1
    <3>2. CASE c # BadCrc
      <4>1. PICK f \in network : c = f.key.crc
        BY <1>2, <3>2
      <4>2. FromSender(f.key)
        BY <4>1 DEF WireInv
      <4>3. \A m : KeyOf(m).crc = Crc[m.body]
        BY DEF KeyOf
      <4>4. QED
        BY <1>2, <3>2, <4>1, <4>2, <4>3 DEF FromSender
    <3>3. QED
      BY <3>1, <3>2
  <2>2. QED
    BY <1>1, <2>1 DEF FromSender
<1>7. NrmpTypes'
  BY <1>1, <1>5 DEF NrmpTypes
<1>8. WireInv'
  <2> SUFFICES ASSUME NEW f \in network'
               PROVE  f.index \in 1..f.key.count /\ FromSender(f.key)'
    BY <1>1 DEF WireInv
  <2>1. CASE f \in network
    BY <1>1, <2>1, FromSenderGrows DEF WireInv
  <2>2. CASE f \notin network
    BY <1>1, <1>3, <1>6, <2>2
  <2>3. QED
    BY <2>1, <2>2
<1>9. AssemblyInv'
  BY <1>1, FromSenderGrows DEF AssemblyInv
<1>10. Integrity' /\ NoFalseMismatch'
  BY <1>1 DEF Integrity, NoFalseMismatch, NoMessage, Error
<1>11. QED
  BY <1>7, <1>8, <1>9, <1>10

LEMMA PushStep ==
    ASSUME NrmpInv, NEW f \in network, Push(f)
    PROVE  NrmpInv'
<1> USE DEF NrmpInv
<1>1. /\ f \in Datagrams /\ f.index \in 1..f.key.count /\ f.payload \in Payloads
      /\ f.key \in Headers /\ f.key.count \in 1..SendMax /\ FromSender(f.key)
  BY DEF NrmpTypes, WireInv, Datagrams, Headers
<1>2. UNCHANGED <<sent, network, damaged>>
  BY DEF Push
<1>3. WireInv' /\ \A k : FromSender(k)' = FromSender(k)
  BY <1>2 DEF WireInv, FragmentOf, FromSender
<1>4. CASE f.key.count > RecvMax
  <2>1. out' = Error("MessageTooLarge") /\ UNCHANGED <<active, key, received, buffer>>
    BY <1>4 DEF Push
  <2>2. NrmpTypes'
    BY <1>2, <2>1 DEF NrmpTypes
  <2>3. AssemblyInv'
    BY <1>2, <1>3, <2>1 DEF AssemblyInv, AssemblyOf
  <2>4. Integrity' /\ NoFalseMismatch'
    BY <2>1 DEF Integrity, NoFalseMismatch, Error
  <2>5. QED
    BY <1>3, <2>2, <2>3, <2>4
<1>5. CASE ~(f.key.count > RecvMax)
  <2>1. /\ buffer' = [buffer EXCEPT ![f.index] = f.payload]
        /\ key' = f.key
        /\ received' = (IF SameMessage(f) THEN received ELSE {}) \cup {f.index}
        /\ IF received' # 1..key'.count THEN active' = TRUE /\ out' = NoMessage
                                        ELSE active' = FALSE /\ out' = Complete(key', buffer')
    BY <1>5 DEF Push, SameMessage
  <2>2. f.index \in 1..RecvMax /\ f.key.count <= RecvMax
        /\ buffer' \in [1..RecvMax -> Payloads] /\ buffer'[f.index] = f.payload
        /\ \A i \in 1..RecvMax : i # f.index => buffer'[i] = buffer[i]
    BY <1>1, <1>5, <2>1, NrmpAssumption DEF NrmpTypes
  <2>3. SameMessage(f) => received \subseteq 1..f.key.count
    BY DEF SameMessage, AssemblyInv
  <2>4. received' \subseteq 1..f.key.count /\ received' \subseteq 1..SendMax
    BY <1>1, <2>1, <2>3, NrmpAssumption
  <2>5. damaged' = {} => \E m \in sent : AssemblyOf(m)'
    <3> SUFFICES ASSUME damaged = {} PROVE \E m \in sent : AssemblyOf(m)'
      BY <1>2
    <3>1. PICK m \in sent : FragmentOf(f, m)
      BY DEF WireInv
    <3>2. CASE SameMessage(f)
      <4>1. PICK q \in sent : AssemblyOf(q)
        BY <3>2 DEF SameMessage, AssemblyInv
      <4>2. KeyOf(q) = KeyOf(m)
        BY <3>1, <3>2, <4>1 DEF SameMessage, AssemblyOf, FragmentOf
      <4>3. q = m
        BY <4>2, KeyUnique DEF NrmpTypes
      <4>4. received \subseteq 1..RecvMax
        BY <1>1, <2>2, <2>3, <3>2, NrmpAssumption
      <4>5. \A i \in received' : buffer'[i] = m.body[i]
        BY <2>1, <2>2, <3>1, <3>2, <4>1, <4>3, <4>4 DEF AssemblyOf, FragmentOf
      <4>6. QED
        BY <2>1, <3>1, <4>5 DEF AssemblyOf, FragmentOf, KeyOf
    <3>3. CASE ~SameMessage(f)
      <4>1. \A i \in received' : buffer'[i] = m.body[i]
        BY <2>1, <2>2, <3>1, <3>3 DEF FragmentOf
      <4>2. QED
        BY <2>1, <3>1, <4>1 DEF AssemblyOf, FragmentOf, KeyOf
    <3>4. QED
      BY <3>2, <3>3
  <2>6. key' \in Keys
    <3>1. 1..SendMax \subseteq 0..SendMax /\ Ids \subseteq Nat
      BY NrmpAssumption
    <3>2. QED
      BY <1>1, <2>1, <3>1 DEF Headers, Keys
  <2>7. CASE received' # 1..key'.count
    <3>1. AssemblyInv'
      BY <1>1, <1>2, <1>3, <2>1, <2>2, <2>4, <2>5, <2>7 DEF AssemblyInv
    <3>2. NrmpTypes'
      BY <1>2, <2>1, <2>2, <2>4, <2>6, <2>7 DEF NrmpTypes
    <3>3. Integrity' /\ NoFalseMismatch'
      BY <2>1, <2>7 DEF Integrity, NoFalseMismatch, NoMessage, Error
    <3>4. QED
      BY <1>3, <3>1, <3>2, <3>3
  <2>8. CASE received' = 1..key'.count
    <3>1. active' = FALSE /\ out' = Complete(f.key, buffer')
      BY <2>1, <2>8
    <3>2. \/ out' = Error("ChecksumMismatch")
          \/ \E m \in Messages : /\ out' = Got(m)
                                 /\ m.kind = f.key.kind /\ m.id = f.key.id
                                 /\ Crc[m.body] = f.key.crc
      BY <1>1, <2>2, <3>1, CompleteIsNamed
    <3>3. NrmpTypes'
      BY <1>2, <2>1, <2>2, <2>4, <2>6, <3>1, <3>2 DEF NrmpTypes
    <3>4. Integrity'
      <4>1. CASE out' = Error("ChecksumMismatch")
        BY <4>1 DEF Integrity, Error
      <4>2. CASE out' # Error("ChecksumMismatch")
        <5>1. PICK m \in Messages : /\ out' = Got(m)
                                    /\ m.kind = f.key.kind /\ m.id = f.key.id
                                    /\ Crc[m.body] = f.key.crc
          BY <3>2, <4>2
        <5>2. \/ m \in sent
              \/ (\E q \in sent : q.body = m.body) /\ \E g \in damaged : Names(g, m)
          BY <1>1, <5>1, NamedIsSent
        <5>3. out'.message = m
          BY <5>1 DEF Got
        <5>4. QED
          BY <1>2, <5>2, <5>3 DEF Integrity
      <4>3. QED
        BY <4>1, <4>2
    <3>5. NoFalseMismatch'
      <4> SUFFICES ASSUME damaged' = {} PROVE out' # Error("ChecksumMismatch")
        BY DEF NoFalseMismatch
      <4>1. PICK m \in sent : AssemblyOf(m)'
        BY <2>5
      <4>2. f.key = KeyOf(m) /\ m \in Messages /\ \A i \in received' : buffer'[i] = m.body[i]
        BY <2>1, <4>1 DEF AssemblyOf, NrmpTypes
      <4>3. received' = 1..Len(m.body)
        BY <2>1, <2>8, <4>2 DEF KeyOf
      <4>4. out' = Got(m)
        BY <3>1, <4>2, <4>3, CompleteIsSent
      <4>5. QED
        BY <4>4 DEF Got, Error
    <3>6. AssemblyInv'
      BY <3>1 DEF AssemblyInv
    <3>7. QED
      BY <1>3, <3>3, <3>4, <3>5, <3>6
  <2>9. QED
    BY <2>7, <2>8
<1>6. QED
  BY <1>4, <1>5

LEMMA NextNrmpInv == ASSUME NrmpInv, [NrmpNext]_nrmpvars PROVE NrmpInv'
<1>1. CASE PushInvalid
  <2>1. UNCHANGED <<sent, network, damaged, active, key, received, buffer>>
    BY <1>1 DEF PushInvalid
  <2>2. NrmpTypes' /\ Integrity' /\ NoFalseMismatch'
    BY <1>1, <2>1 DEF PushInvalid, NrmpInv, NrmpTypes, Integrity, NoFalseMismatch, Error
  <2>3. WireInv' /\ AssemblyInv'
    BY <2>1 DEF NrmpInv, WireInv, FragmentOf, AssemblyInv, AssemblyOf, FromSender
  <2>4. QED
    BY <2>2, <2>3 DEF NrmpInv
<1>2. CASE UNCHANGED nrmpvars
  <2>1. NrmpTypes' /\ Integrity' /\ NoFalseMismatch'
    BY <1>2 DEF nrmpvars, NrmpInv, NrmpTypes, Integrity, NoFalseMismatch
  <2>2. WireInv' /\ AssemblyInv'
    BY <1>2 DEF nrmpvars, NrmpInv, WireInv, FragmentOf, AssemblyInv, AssemblyOf, FromSender
  <2>3. QED
    BY <2>1, <2>2 DEF NrmpInv
<1>3. QED
  BY <1>1, <1>2, SendStep, DamageStep, PushStep DEF NrmpNext

LEMMA NrmpInvAlways == NrmpSpec => []NrmpInv
BY InitNrmpInv, NextNrmpInv, PTL DEF NrmpSpec

\* The variables of the framing keep their types.
THEOREM NrmpTypeCorrect == NrmpSpec => []NrmpTypes
<1>1. NrmpInv => NrmpTypes
  BY DEF NrmpInv
<1>2. QED
  BY <1>1, NrmpInvAlways, PTL

\* Whatever the network does to datagrams and their headers, push only returns
\* bodies that were sent, and a kind and id not sent with that body only when
\* a damaged datagram carried them.
THEOREM PushIntegrity == NrmpSpec => []Integrity
<1>1. NrmpInv => Integrity
  BY DEF NrmpInv
<1>2. QED
  BY <1>1, NrmpInvAlways, PTL

\* Loss, duplication and reordering alone never cause a ChecksumMismatch.
THEOREM NoMismatch == NrmpSpec => []NoFalseMismatch
<1>1. NrmpInv => NoFalseMismatch
  BY DEF NrmpInv
<1>2. QED
  BY <1>1, NrmpInvAlways, PTL

\* What the Reassembler assembles is a sent message or was started by a damaged
\* datagram, and is settled as soon as it is complete.
THEOREM AssemblesOnlySent == NrmpSpec => []AssemblesSent
<1>1. NrmpInv => AssemblesSent
  BY DEF NrmpInv, AssemblyInv, AssemblesSent
<1>2. QED
  BY <1>1, NrmpInvAlways, PTL

\* The framing implements the abstract lossy link.
THEOREM NrmpIsLink == NrmpSpec => ImplementsLink
<1> DEFINE names(D) == {m \in Messages : \E g \in D : Names(g, m)}
           got == IF out.tag = "message" THEN out ELSE NoMessage
<1>1. NrmpInit => ALink!Init
  BY DEF NrmpInit, ALink!Init, NoMessage, ALink!NoMessage
<1>2. ASSUME NrmpInv, NrmpInv', [NrmpNext]_nrmpvars
      PROVE  [ALink!Next]_<<sent, names(damaged), got>>
  <2> USE <1>2 DEF NoMessage, ALink!NoMessage, Got, ALink!Got, Error
  <2>1. CASE \E m \in Messages : Send(m)
    BY <2>1 DEF Send, ALink!Next, ALink!Send
  <2>2. CASE \E f \in network : Push(f)
    <3>1. UNCHANGED <<sent, damaged>>
      BY <2>2 DEF Push
    <3>2. CASE out'.tag = "message"
      <4>1. PICK m : m = out'.message
        OBVIOUS
      <4>2. /\ m \in Messages
            /\ \/ m \in sent
               \/ (\E q \in sent : q.body = m.body) /\ \E g \in damaged : Names(g, m)
        BY <3>1, <3>2, <4>1 DEF NrmpInv, Integrity, NrmpTypes
      <4>3. out' = Got(m)
        BY <3>2, <4>1 DEF NrmpInv, NrmpTypes
      <4>4. ALink!Deliver(m)
        BY <3>1, <3>2, <4>2, <4>3 DEF ALink!Deliver
      <4>5. QED
        BY <4>2, <4>4 DEF ALink!Next
    <3>3. CASE out'.tag # "message"
      BY <3>1, <3>3 DEF ALink!Next, ALink!Nothing
    <3>4. QED
      BY <3>2, <3>3
  <2>3. CASE \E g \in Damages : Damage(g)
    <3>1. PICK g : /\ out' = NoMessage /\ UNCHANGED sent
                   /\ damaged' = damaged \cup {g}
      BY <2>3 DEF Damage
    <3>2. CASE \E m \in Messages : Names(g, m)
      <4>1. PICK m \in Messages : Names(g, m)
        BY <3>2
      <4>2. \A q \in Messages : Names(g, q) => q = m
        BY <4>1, NamesUnique
      <4>3. names(damaged)' = names(damaged) \cup {m}
        BY <3>1, <4>1, <4>2
      <4>4. ALink!Alter(m)
        BY <3>1, <4>3 DEF ALink!Alter
      <4>5. QED
        BY <4>1, <4>4 DEF ALink!Next
    <3>3. CASE ~\E m \in Messages : Names(g, m)
      <4>1. names(damaged)' = names(damaged)
        BY <3>1, <3>3
      <4>2. QED
        BY <3>1, <4>1 DEF ALink!Next, ALink!Nothing
    <3>4. QED
      BY <3>2, <3>3
  <2>4. CASE PushInvalid
    BY <2>4 DEF PushInvalid, ALink!Next, ALink!Nothing
  <2>5. CASE UNCHANGED nrmpvars
    BY <2>5 DEF nrmpvars
  <2>6. QED
    BY <2>1, <2>2, <2>3, <2>4, <2>5 DEF NrmpNext
<1>3. QED
  BY <1>1, <1>2, NrmpInvAlways, PTL DEF NrmpSpec, ImplementsLink, ALink!Spec

-----------------------------------------------------------------------------
(* The adapter's neighbour cache *)

\* What learn writes is never the entry of no address.
CacheInv ==
    /\ heard \in [Ips -> Macs \cup {NoMac}]
    /\ neighbors \in [Slots -> [ip : Ips \cup {NoIp}, mac : Macs \cup {NoMac}, valid : BOOLEAN]]
    /\ nextNeighbor \in Slots
    /\ \A i \in Slots : neighbors[i].valid => neighbors[i].ip \in Ips
    /\ CacheCurrent

\* The slot after the last one is the first.
LEMMA RoundRobin == \A i \in Slots : (i + 1) % N \in Slots
BY NetAssumption DEF Slots

LEMMA LearnCache ==
    ASSUME CacheInv, NEW a \in Ips \cup {NoIp}, NEW m \in Macs \cup {NoMac}, Learn(a, m)
    PROVE  CacheInv'
<1>1. CASE a = NoIp \/ m = NoMac
  BY <1>1 DEF Learn, CacheInv, stack, CacheCurrent, Entries
<1>2. CASE a # NoIp /\ m # NoMac
  <2> DEFINE hit == IF Entries(a) # {} THEN Entries(a) ELSE {nextNeighbor}
  <2>1. a \in Ips /\ m \in Macs /\ Entry(a, m) \in [ip : Ips, mac : Macs, valid : {TRUE}]
    BY <1>2 DEF Entry
  <2>2. hit \subseteq Slots /\ \E j \in Slots : hit = {j}
    <3>1. CASE Entries(a) # {}
      <4>1. PICK j \in Entries(a) : TRUE
        BY <3>1
      <4>2. j \in Slots /\ neighbors[j].valid /\ neighbors[j].ip = a
        BY <4>1 DEF Entries
      <4>3. Entries(a) = {j}
        BY <4>2 DEF CacheInv, CacheCurrent
      <4> QED
        BY <3>1, <4>2, <4>3
    <3>2. CASE Entries(a) = {}
      BY <3>2 DEF CacheInv
    <3> QED
      BY <3>1, <3>2
  <2>3. PICK j \in Slots : hit = {j}
    BY <2>2
  <2>4. heard' = [heard EXCEPT ![a] = m]
    BY <1>2 DEF Learn
  <2>5. /\ neighbors' = [i \in Slots |-> IF i = j THEN Entry(a, m) ELSE neighbors[i]]
        /\ nextNeighbor' \in Slots
    <3>1. CASE Entries(a) # {}
      BY <1>2, <2>3, <3>1 DEF Learn, CacheInv
    <3>2. CASE Entries(a) = {}
      BY <1>2, <2>3, <3>2, RoundRobin DEF Learn, CacheInv
    <3> QED
      BY <3>1, <3>2
  <2>6. /\ heard' \in [Ips -> Macs \cup {NoMac}]
        /\ neighbors' \in [Slots -> [ip : Ips \cup {NoIp}, mac : Macs \cup {NoMac}, valid : BOOLEAN]]
        /\ \A i \in Slots : neighbors'[i].valid => neighbors'[i].ip \in Ips
    BY <2>1, <2>4, <2>5 DEF CacheInv
  <2>7. \A i \in Slots : neighbors[i].valid /\ neighbors[i].ip = a => i = j
    <3>1. \A i \in Slots : neighbors[i].valid /\ neighbors[i].ip = a => i \in Entries(a)
      BY DEF Entries
    <3> QED
      BY <2>3, <3>1
  <2>8. ASSUME NEW i \in Slots, neighbors'[i].valid
        PROVE  neighbors'[i].mac = heard'[neighbors'[i].ip] /\ Entries(neighbors[i].ip)' = {i}
    <3>1. CASE i = j
      <4>1. neighbors'[i] = Entry(a, m)
        BY <2>5, <3>1
      <4>2. neighbors'[i].ip = a /\ neighbors'[i].mac = m
        BY <4>1 DEF Entry
      <4>3. \A k \in Slots : neighbors'[k].valid /\ neighbors'[k].ip = a => k = i
        BY <2>5, <2>7, <3>1
      <4>4. Entries(neighbors[i].ip)' = {i}
        BY <2>8, <4>2, <4>3 DEF Entries
      <4> QED
        BY <2>1, <2>4, <4>2, <4>4 DEF CacheInv
    <3>2. CASE i # j
      <4>1. neighbors'[i] = neighbors[i]
        BY <2>5, <3>2
      <4>2. neighbors[i].ip # a /\ neighbors[i].ip \in Ips
        BY <2>7, <2>8, <3>2, <4>1 DEF CacheInv
      <4>3. neighbors[i].mac = heard[neighbors[i].ip] /\ Entries(neighbors[i].ip) = {i}
        BY <2>8, <4>1 DEF CacheInv, CacheCurrent
      <4>4. neighbors'[i].mac = heard'[neighbors'[i].ip]
        BY <2>4, <4>1, <4>2, <4>3 DEF CacheInv
      <4>5. \A k \in Slots : neighbors'[k].valid /\ neighbors'[k].ip = neighbors[i].ip => k = i
        <5>1. Entry(a, m).ip = a
          BY DEF Entry
        <5> QED
          BY <2>5, <4>2, <4>3, <5>1 DEF Entries
      <4>6. Entries(neighbors[i].ip)' = {i}
        BY <2>8, <4>1, <4>5 DEF Entries
      <4> QED
        BY <4>4, <4>6
    <3> QED
      BY <3>1, <3>2
  <2> QED
    BY <2>5, <2>6, <2>8 DEF CacheInv, CacheCurrent
<1> QED
  BY <1>1, <1>2

\* Frames carry the addresses of hosts, or none.
LEMMA ReceiveCache ==
    ASSUME CacheInv, NEW f \in Frames \cup {Junk}, Receive(f)
    PROVE  CacheInv'
<1>1. f.ip \in Ips \cup {NoIp} /\ f.mac \in Macs \cup {NoMac}
  <2>1. CASE f \in Frames
    BY <2>1 DEF Frames
  <2>2. CASE f = Junk
    BY <2>2 DEF Junk
  <2> QED
    BY <2>1, <2>2
<1>2. CASE Learns(f)
  <2>1. Learn(f.ip, f.mac)
    BY <1>2 DEF Receive
  <2> QED
    BY <1>1, <2>1, LearnCache
<1>3. CASE ~Learns(f)
  <2>1. UNCHANGED <<stack, heard>>
    BY <1>3 DEF Receive
  <2> QED
    BY <2>1 DEF CacheInv, CacheCurrent, Entries, stack
<1> QED
  BY <1>2, <1>3

LEMMA ReplyIsFrame == \A m \in Macs : GatewayReply(m) \in Frames
BY NetAssumption DEF GatewayReply, Frames, Arp

LEMMA InitCache == Init => CacheInv
<1> SUFFICES ASSUME Init PROVE CacheInv
  OBVIOUS
<1>1. NoEntry \in [ip : Ips \cup {NoIp}, mac : Macs \cup {NoMac}, valid : BOOLEAN] /\ ~NoEntry.valid
  BY DEF NoEntry
<1>2. 0 \in Slots
  BY NetAssumption DEF Slots
<1> QED
  BY <1>1, <1>2 DEF Init, CacheInv, CacheCurrent

LEMMA NextCache == CacheInv /\ [Next]_vars => CacheInv'
<1> SUFFICES ASSUME CacheInv, [Next]_vars PROVE CacheInv'
  OBVIOUS
<1>1. CASE ReceiveReply \/ ReceiveStrange
  BY <1>1, ReceiveCache, ReplyIsFrame DEF ReceiveReply, ReceiveStrange
<1>2. CASE UNCHANGED <<stack, heard>>
  BY <1>2 DEF stack, CacheInv, CacheCurrent, Entries
<1> QED
  BY <1>1, <1>2 DEF Next, Queue, Poll, Reclaim, SendPending, NotReady, NicSend, vars

\* The neighbour cache holds an address once at most, with what was heard for
\* it last, for every capacity and whatever is evicted.
THEOREM CacheIsCurrent == Spec => []CacheCurrent
<1>1. CacheInv => CacheCurrent
  BY DEF CacheInv
<1> QED
  BY <1>1, InitCache, NextCache, PTL DEF Spec

-----------------------------------------------------------------------------
(* Types *)

LEMMA InitType == Init => TypeOK
<1> SUFFICES ASSUME Init PROVE TypeOK
  OBVIOUS
<1>1. NoEntry \in [ip : Ips \cup {NoIp}, mac : Macs \cup {NoMac}, valid : BOOLEAN]
  BY DEF NoEntry
<1>2. 0 \in Slots /\ 0 \in 0..MaxMessages /\ 0 \in 0..MaxStrange /\ 0 \in 0..MaxRefused
  BY NetAssumption DEF Slots
<1> QED
  BY <1>1, <1>2 DEF Init, TypeOK

\* A message in the adapter's queue.
Queued == [id : 1..MaxMessages, count : Counts]

\* The queue and its fragment stay in step: what is at the front has a
\* fragment left to send.
Queueing ==
    /\ pending \in Seq(Queued)
    /\ fragment \in Nat /\ (pending = <<>> => fragment = 0)
    /\ (pending # <<>> => fragment < pending[1].count)
    /\ queued \in 0..MaxMessages

\* What the front of the queue is sent as.
LEMMA FrontDatagram ==
    ASSUME Queueing, pending # <<>>
    PROVE  <<pending[1].id, fragment>> \in Nat \X Nat
<1>1. pending[1] \in Queued
  BY EmptySeq DEF Queueing
<1>2. pending[1].id \in Nat
  BY <1>1, NetAssumption DEF Queued
<1> QED
  BY <1>2 DEF Queueing

LEMMA NextQueueing == Queueing /\ [Next]_vars => Queueing'
<1> SUFFICES ASSUME Queueing, [Next]_vars PROVE Queueing'
  OBVIOUS
<1>0. \A c \in Counts : c \in Nat /\ 0 < c
  BY NetAssumption
<1>1. ASSUME NEW c \in Counts, Queue(c) PROVE Queueing'
  <2> DEFINE m == [id |-> queued + 1, count |-> c]
  <2>1. queued' \in 0..MaxMessages /\ m \in Queued
    BY <1>1, NetAssumption DEF Queue, Queueing, Queued
  <2>2. pending' = Append(pending, m) /\ fragment' = fragment
    BY <1>1 DEF Queue
  <2>3. /\ pending' \in Seq(Queued) /\ pending' # <<>>
        /\ pending'[1] = IF pending = <<>> THEN m ELSE pending[1]
    BY <2>1, <2>2, AppendProperties DEF Queueing
  <2>4. m.count \in Nat /\ 0 < m.count
    BY <1>0
  <2> QED
    BY <2>1, <2>2, <2>3, <2>4 DEF Queueing
<1>2. CASE SendPending
  <2>1. CASE UNCHANGED <<pending, fragment>>
    BY <1>2, <2>1 DEF SendPending, Queueing
  <2>2. CASE ~UNCHANGED <<pending, fragment>>
    <3>1. /\ pending # <<>> /\ queued' = queued
          /\ IF fragment + 1 = pending[1].count
             THEN pending' = Tail(pending) /\ fragment' = 0
             ELSE fragment' = fragment + 1 /\ UNCHANGED pending
      BY <1>2, <2>2 DEF SendPending
    <3>2. pending[1].count \in Nat
      <4>1. pending[1] \in Queued
        BY <3>1, EmptySeq DEF Queueing
      <4> QED
        BY <1>0, <4>1 DEF Queued
    <3>3. CASE fragment + 1 = pending[1].count
      <4>1. pending' \in Seq(Queued) /\ fragment' = 0
        BY <3>1, <3>3, HeadTailProperties DEF Queueing
      <4>2. pending' # <<>> => pending'[1] \in Queued
        BY <4>1
      <4>3. pending' # <<>> => fragment' < pending'[1].count
        <5>1. \A m \in Queued : 0 < m.count
          BY <1>0 DEF Queued
        <5> QED
          BY <4>1, <4>2, <5>1
      <4> QED
        BY <3>1, <4>1, <4>3 DEF Queueing
    <3>4. CASE fragment + 1 # pending[1].count
      BY <3>1, <3>2, <3>4 DEF Queueing
    <3> QED
      BY <3>3, <3>4
  <2> QED
    BY <2>1, <2>2
<1>3. CASE UNCHANGED <<pending, fragment, queued>>
  BY <1>3 DEF Queueing
<1> QED
  BY <1>1, <1>2, <1>3 DEF Next, Poll, Reclaim, NotReady, ReceiveReply, ReceiveStrange, Receive,
                          NicSend, vars

LEMMA NextType == TypeOK /\ CacheInv /\ [Next]_vars => TypeOK'
<1> SUFFICES ASSUME TypeOK, CacheInv, [Next]_vars PROVE TypeOK'
  OBVIOUS
<1> DEFINE Rest ==
      /\ busy \in BOOLEAN /\ nic \in {"free", "queued", "done"}
      /\ pc \in {"idle", "send", "receive"} /\ event \in {"none", "sent", "skipped", "udp"}
      /\ strange \in 0..MaxStrange /\ refused \in 0..MaxRefused
<1>1. Queueing'
  <2>1. Queueing
    BY DEF TypeOK, Queueing, Queued
  <2> QED
    BY <2>1, NextQueueing
<1>2. CacheInv'
  BY NextCache
<1>3. Rest'
  <2>0. MaxStrange \in Nat /\ MaxRefused \in Nat /\ Rest
    BY NetAssumption DEF TypeOK
  <2>1. ASSUME NEW f, Transmit(f)
        PROVE  busy' \in BOOLEAN /\ nic' \in {"free", "queued", "done"} /\ refused' \in 0..MaxRefused
    <3>1. refused' \in 0..MaxRefused
      BY <2>0, <2>1 DEF Transmit
    <3>2. busy' \in BOOLEAN /\ nic' \in {"free", "queued", "done"}
      BY <2>0, <2>1, Zenon DEF Transmit
    <3> QED
      BY <3>1, <3>2
  <2>2. CASE SendPending
    BY <2>0, <2>1, <2>2 DEF SendPending, txs
  <2>3. ASSUME NEW f, Receive(f), strange' \in 0..MaxStrange PROVE Rest'
    <3>1. /\ event' \in {"none", "sent", "skipped", "udp"} /\ pc' \in {"idle", "send", "receive"}
      BY <2>3 DEF Receive
    <3>2. busy' \in BOOLEAN /\ nic' \in {"free", "queued", "done"} /\ refused' \in 0..MaxRefused
      BY <2>0, <2>1, <2>3 DEF Receive, txs
    <3> QED
      BY <2>3, <3>1, <3>2
  <2>4. CASE ReceiveReply \/ ReceiveStrange
    BY <2>0, <2>3, <2>4 DEF ReceiveReply, ReceiveStrange
  <2>5. CASE Reclaim \/ NotReady \/ NicSend \/ \E c \in Counts : Queue(c)
    BY <2>0, <2>5 DEF Reclaim, NotReady, NicSend, Queue, txs
  <2>6. CASE UNCHANGED vars
    BY <2>0, <2>6 DEF vars, txs
  <2> QED
    BY <2>2, <2>4, <2>5, <2>6 DEF Next, Poll
<1> QED
  BY <1>1, <1>2, <1>3 DEF TypeOK, Queueing, CacheInv, Queued

\* The stack's and the adapter's state keeps its types; the fragment counter
\* never passes the end of the message at the front of the queue.
THEOREM TypeCorrect == Spec => []TypeOK
<1>1. TypeOK /\ CacheInv /\ [Next]_vars => (TypeOK /\ CacheInv)'
  BY NextType, NextCache
<1> QED
  BY <1>1, InitType, InitCache, PTL DEF Spec

-----------------------------------------------------------------------------
(* The order of datagrams *)

\* The message at the front of the queue, or the next one if it is empty.
Front == queued - Len(pending) + 1

Last == handed[Len(handed)]

Follows(c, d) == d = <<c[1], c[2] + 1>> \/ d = <<c[1] + 1, 0>>

\* Ids are given out and used up one by one, and the datagram handed over last
\* is the one before the next, whether or not a message just ended.
OrderInv ==
    /\ Queueing
    /\ handed \in Seq(Nat \X Nat)
    /\ \A k \in 1..Len(pending) : pending[k].id = Front + k - 1
    /\ \A i \in 1..(Len(handed) - 1) : Follows(handed[i], handed[i + 1])
    /\ fragment > 0 => handed # <<>> /\ Last = <<Front, fragment - 1>>
    /\ fragment = 0 => IF handed = <<>> THEN Front = 1 ELSE Last[1] = Front - 1

LEMMA InitOrder == Init => OrderInv
<1> SUFFICES ASSUME Init PROVE OrderInv
  OBVIOUS
<1>1. Queueing
  BY NetAssumption DEF Init, Queueing
<1> QED
  BY <1>1 DEF Init, OrderInv, Front

LEMMA QueueOrder ==
    ASSUME OrderInv, NEW c \in Counts, Queue(c), Queueing'
    PROVE  OrderInv'
<1> DEFINE m == [id |-> queued + 1, count |-> c]
<1>1. /\ pending \in Seq(Queued) /\ pending' = Append(pending, m) /\ m \in Queued
      /\ queued' = queued + 1 /\ queued \in Nat
      /\ UNCHANGED <<handed, fragment>>
  BY NetAssumption DEF Queue, OrderInv, Queueing, Queued
<1>2. /\ Len(pending') = Len(pending) + 1 /\ Len(pending) \in Nat
      /\ \A k \in 1..Len(pending) : pending'[k] = pending[k]
      /\ pending'[Len(pending) + 1] = m
  BY <1>1, AppendProperties, LenProperties
<1>3. Front' = Front
  BY <1>1, <1>2 DEF Front
<1>4. \A k \in 1..Len(pending') : pending'[k].id = Front' + k - 1
  <2> SUFFICES ASSUME NEW k \in 1..Len(pending') PROVE pending'[k].id = Front' + k - 1
    OBVIOUS
  <2>1. CASE k \in 1..Len(pending)
    BY <1>2, <1>3, <2>1 DEF OrderInv
  <2>2. CASE k = Len(pending) + 1
    BY <1>1, <1>2, <1>3, <2>2 DEF Front
  <2> QED
    BY <1>2, <2>1, <2>2
<1> QED
  BY <1>1, <1>3, <1>4 DEF OrderInv, Last

\* Taking off the first of a run of ids leaves a run.
LEMMA TailIds ==
    ASSUME NEW s \in Seq(Queued), s # <<>>, NEW F \in Int,
           \A k \in 1..Len(s) : s[k].id = F + k - 1
    PROVE  \A k \in 1..Len(Tail(s)) : Tail(s)[k].id = (F + 1) + k - 1
<1> SUFFICES ASSUME NEW k \in 1..Len(Tail(s)) PROVE Tail(s)[k].id = (F + 1) + k - 1
  OBVIOUS
<1>1. Len(s) \in Nat /\ Len(Tail(s)) = Len(s) - 1 /\ Tail(s)[k] = s[k + 1]
  BY HeadTailProperties, LenProperties
<1>2. k \in Int /\ k + 1 \in 1..Len(s)
  BY <1>1
<1>3. s[k + 1].id = F + (k + 1) - 1
  BY <1>2
<1> QED
  BY <1>1, <1>2, <1>3

LEMMA OrderAtEnd ==
    ASSUME Queueing', handed' \in Seq(Nat \X Nat), handed' # <<>>, fragment' = 0,
           \A k \in 1..Len(pending') : pending'[k].id = Front' + k - 1,
           \A i \in 1..(Len(handed') - 1) : Follows(handed'[i], handed'[i + 1]),
           Last'[1] = Front' - 1
    PROVE  OrderInv'
BY DEF OrderInv

\* The datagram d of the front message is handed over.
LEMMA HandOrder ==
    ASSUME OrderInv, Queueing', pending # <<>>, UNCHANGED queued,
           handed' = Append(handed, <<pending[1].id, fragment>>),
           IF fragment + 1 = pending[1].count
           THEN pending' = Tail(pending) /\ fragment' = 0
           ELSE fragment' = fragment + 1 /\ UNCHANGED pending
    PROVE  OrderInv'
<1> DEFINE d == <<Front, fragment>>
<1>1. /\ pending \in Seq(Queued) /\ handed \in Seq(Nat \X Nat) /\ fragment \in Nat
      /\ Len(pending) \in Nat \ {0} /\ Len(handed) \in Nat /\ queued \in Nat /\ queued' = queued
  BY EmptySeq, LenProperties DEF OrderInv, Queueing
<1>2. pending[1].id = Front
  BY <1>1 DEF OrderInv, Front
<1>3. pending[1] \in Queued
  BY <1>1
<1>4. d \in Nat \X Nat
  BY <1>1, <1>2, <1>3 DEF Queued
<1>5. /\ handed' \in Seq(Nat \X Nat) /\ Len(handed') = Len(handed) + 1 /\ handed' # <<>>
      /\ \A i \in 1..Len(handed) : handed'[i] = handed[i]
      /\ handed'[Len(handed) + 1] = d
  BY <1>1, <1>2, <1>4, AppendProperties
<1>6. handed # <<>> => Len(handed) > 0 /\ Last \in Nat \X Nat /\ Follows(Last, d)
  <2> SUFFICES ASSUME handed # <<>>
               PROVE  Len(handed) > 0 /\ Last \in Nat \X Nat /\ Follows(Last, d)
    OBVIOUS
  <2>1. Len(handed) > 0
    BY <1>1, EmptySeq
  <2>2. Last \in Nat \X Nat
    BY <1>1, <2>1 DEF Last
  <2>3. ASSUME fragment > 0 PROVE Follows(Last, d)
    <3>1. Last[1] = Front /\ Last[2] + 1 = fragment
      BY <1>1, <2>3 DEF OrderInv
    <3> QED
      BY <3>1 DEF Follows
  <2>4. ASSUME fragment = 0 PROVE Follows(Last, d)
    <3>1. Last[1] + 1 = Front
      BY <1>1, <1>4, <2>2, <2>4 DEF OrderInv
    <3> QED
      BY <2>4, <3>1 DEF Follows
  <2> QED
    BY <1>1, <2>1, <2>2, <2>3, <2>4
<1>7. ASSUME NEW i \in 1..(Len(handed') - 1) PROVE Follows(handed'[i], handed'[i + 1])
  <2>1. i \in 1..Len(handed) /\ handed'[i] = handed[i]
    BY <1>1, <1>5
  <2>2. CASE i = Len(handed)
    <3>1. handed # <<>> /\ handed[i] = Last /\ handed'[i + 1] = d
      BY <1>1, <1>5, <2>1, <2>2 DEF Last
    <3> QED
      BY <1>6, <2>1, <3>1
  <2>3. CASE i # Len(handed)
    <3>1. i \in 1..(Len(handed) - 1) /\ i + 1 \in 1..Len(handed)
      BY <1>1, <2>1, <2>3
    <3>2. handed'[i + 1] = handed[i + 1]
      BY <1>5, <3>1
    <3> QED
      BY <2>1, <3>1, <3>2 DEF OrderInv
  <2> QED
    BY <2>2, <2>3
<1>8. Last' = d
  BY <1>1, <1>5 DEF Last
<1>9. CASE fragment + 1 = pending[1].count
  <2>1. /\ pending' = Tail(pending) /\ fragment' = 0 /\ Len(pending') = Len(pending) - 1
        /\ \A k \in 1..Len(pending') : pending'[k] = pending[k + 1]
    BY <1>1, <1>9, HeadTailProperties
  <2>2. Front \in Int /\ Front' = Front + 1
    <3>1. Len(pending') = Len(pending) - 1
      BY <2>1
    <3> QED
      BY <1>1, <3>1 DEF Front
  <2>3. \A k \in 1..Len(pending') : pending'[k].id = Front' + k - 1
    <3>1. \A k \in 1..Len(Tail(pending)) : Tail(pending)[k].id = (Front + 1) + k - 1
      BY <1>1, <2>2, TailIds DEF OrderInv
    <3> QED
      BY <2>1, <2>2, <3>1
  <2>4. Last'[1] = Front' - 1
    BY <1>4, <1>8, <2>2
  <2>5. fragment' = 0 /\ handed' # <<>> /\ handed' \in Seq(Nat \X Nat)
    BY <1>5, <2>1
  <2> HIDE DEF d
  <2> QED
    BY <1>7, <2>3, <2>4, <2>5, OrderAtEnd
<1>10. CASE fragment + 1 # pending[1].count
  <2>1. fragment' = fragment + 1 /\ pending' = pending /\ Front' = Front
    BY <1>10 DEF Front
  <2>2. Last' = <<Front', fragment' - 1>>
    BY <1>1, <1>8, <2>1
  <2>3. \A k \in 1..Len(pending') : pending'[k].id = Front' + k - 1
    BY <2>1 DEF OrderInv
  <2>4. fragment' > 0 /\ fragment' # 0 /\ handed' # <<>> /\ handed' \in Seq(Nat \X Nat)
    BY <1>1, <1>5, <2>1
  <2> QED
    BY <1>7, <2>2, <2>3, <2>4 DEF OrderInv
<1> QED
  BY <1>9, <1>10

LEMMA NextOrder == OrderInv /\ [Next]_vars => OrderInv'
<1> SUFFICES ASSUME OrderInv, [Next]_vars PROVE OrderInv'
  OBVIOUS
<1>1. Queueing'
  BY NextQueueing DEF OrderInv
<1>2. ASSUME NEW c \in Counts, Queue(c) PROVE OrderInv'
  BY <1>1, <1>2, QueueOrder
<1>3. CASE UNCHANGED <<pending, fragment, queued, handed>>
  BY <1>1, <1>3 DEF OrderInv, Front, Last
<1>4. CASE SendPending
  <2>1. CASE UNCHANGED handed
    <3>1. UNCHANGED <<pending, fragment, queued>>
      <4>1. /\ handed \in Seq(Nat \X Nat)
            /\ \A d \in Nat \X Nat : Append(handed, d) # handed
        BY AppendProperties, LenProperties DEF OrderInv
      <4>2. pending # <<>> => <<pending[1].id, fragment>> \in Nat \X Nat
        BY FrontDatagram DEF OrderInv
      <4> QED
        BY <1>4, <2>1, <4>1, <4>2 DEF SendPending
    <3> QED
      BY <1>3, <2>1, <3>1
  <2>2. CASE ~UNCHANGED handed
    BY <1>1, <1>4, <2>2, HandOrder DEF SendPending
  <2> QED
    BY <2>1, <2>2
<1> QED
  BY <1>2, <1>3, <1>4 DEF Next, Poll, Reclaim, NotReady, ReceiveReply, ReceiveStrange, Receive,
                          NicSend, vars

-----------------------------------------------------------------------------
(* The transmit buffer *)

\* The NIC holds the buffer only while tx_busy says so; when it is taken anew
\* everything handed over before is on the wire or lost.
BufferInv ==
    /\ handed \in Seq(Nat \X Nat)
    /\ nic = "queued" => busy
    /\ NothingOverwritten

\* No later step takes a frame off the wire or a datagram off the lost ones.
Settled(d) == Sent(d) \/ d \in lost

LEMMA SettledStays ==
    ASSUME wire \subseteq wire', lost \subseteq lost', NEW d, Settled(d)
    PROVE  Settled(d)'
BY DEF Settled, Sent

\* transmit is called only when the buffer is free.
LEMMA TransmitFree ==
    ASSUME BufferInv, ~busy, UNCHANGED wire, NEW f, Transmit(f)
    PROVE  /\ nic' = "queued" => busy'
           /\ \A d : (\E i \in DOMAIN handed : handed[i] = d) => Settled(d)'
           /\ \A d \in DataOf(f) : (nic' = "queued" /\ d \in DataOf(tx)') \/ d \in lost'
<1>1. nic # "queued" /\ tx' = f
  BY DEF BufferInv, Transmit
<1>2. \A d : (\E i \in DOMAIN handed : handed[i] = d) => Settled(d)
  BY <1>1 DEF BufferInv, NothingOverwritten, Settled
<1>3. wire \subseteq wire' /\ lost \subseteq lost'
  BY DEF Transmit
<1>4. \A d : (\E i \in DOMAIN handed : handed[i] = d) => Settled(d)'
  BY <1>2, <1>3, SettledStays
<1>5. nic' = "queued" => busy'
  BY <1>1 DEF Transmit
<1>6. \A d \in DataOf(f) : (nic' = "queued" /\ d \in DataOf(tx)') \/ d \in lost'
  <2>1. DataOf(tx)' = DataOf(f)
    BY <1>1 DEF DataOf
  <2>2. QED
    BY <2>1 DEF Transmit
<1>7. QED
  BY <1>4, <1>5, <1>6

\* A frame is written into the buffer without a transmit.
LEMMA WriteOver ==
    ASSUME BufferInv, UNCHANGED <<busy, nic, handed, wire>>,
           lost' = IF nic = "queued" THEN lost \cup DataOf(tx) ELSE lost
    PROVE  BufferInv'
<1>1. wire \subseteq wire' /\ lost \subseteq lost'
  OBVIOUS
<1>2. ASSUME NEW i \in DOMAIN handed PROVE Settled(handed[i])'
  <2>1. CASE Settled(handed[i])
    BY <1>1, <2>1, SettledStays
  <2>2. CASE ~Settled(handed[i])
    <3>1. nic = "queued" /\ handed[i] \in DataOf(tx)
      BY <2>2 DEF BufferInv, NothingOverwritten, Settled
    <3>2. handed[i] \in lost'
      BY <3>1
    <3>3. QED
      BY <3>2 DEF Settled
  <2>3. QED
    BY <2>1, <2>2
<1>3. \A i \in DOMAIN handed' : Settled(handed[i])'
  BY <1>2
<1>4. NothingOverwritten'
  BY <1>3 DEF NothingOverwritten, Settled
<1>5. QED
  BY <1>4 DEF BufferInv

LEMMA NextBuffer ==
    ASSUME BufferInv, OrderInv, OrderInv', [Next]_vars
    PROVE  BufferInv'
<1>0. handed \in Seq(Nat \X Nat) /\ handed' \in Seq(Nat \X Nat)
  BY DEF OrderInv
<1>1. CASE UNCHANGED <<tx, busy, nic, lost, handed, wire>>
  BY <1>0, <1>1 DEF BufferInv, NothingOverwritten, Sent, DataOf
<1>2. ASSUME NEW f, ~busy, Transmit(f), UNCHANGED <<handed, wire>> PROVE BufferInv'
  <2>1. /\ nic' = "queued" => busy'
        /\ \A d : (\E i \in DOMAIN handed : handed[i] = d) => Settled(d)'
    BY <1>2, TransmitFree
  <2>2. NothingOverwritten'
    BY <1>2, <2>1 DEF NothingOverwritten, Settled
  <2>3. QED
    BY <1>0, <2>1, <2>2 DEF BufferInv
<1>3. CASE SendPending
  <2>1. CASE UNCHANGED handed
    <3>1. \A d \in Nat \X Nat : Append(handed, d) # handed
      BY <1>0, AppendProperties, LenProperties
    <3>2. pending # <<>> => <<pending[1].id, fragment>> \in Nat \X Nat
      BY FrontDatagram DEF OrderInv
    <3> QED
      BY <1>1, <1>2, <1>3, <2>1, <3>1, <3>2 DEF SendPending, txs
  <2>2. CASE ~UNCHANGED handed
    <3> DEFINE d == <<pending[1].id, fragment>>
    <3>1. PICK m \in Neighbor(GatewayIp) :
             ~busy /\ UNCHANGED wire /\ Transmit(Datagram(m, d)) /\ handed' = Append(handed, d)
      BY <1>3, <2>2 DEF SendPending
    <3>2. d \in DataOf(Datagram(m, d))
      BY DEF Datagram, DataOf
    <3>3. /\ nic' = "queued" => busy'
          /\ \A c : (\E i \in DOMAIN handed : handed[i] = c) => Settled(c)'
          /\ (nic' = "queued" /\ d \in DataOf(tx)') \/ d \in lost'
      BY <3>1, <3>2, TransmitFree
    <3>4. \A i \in DOMAIN handed' : handed'[i] = d \/ (i \in DOMAIN handed /\ handed'[i] = handed[i])
      <4>1. d \in Nat \X Nat
        BY <1>3, <2>2, FrontDatagram DEF SendPending, OrderInv
      <4> QED
        BY <1>0, <3>1, <4>1, AppendProperties
    <3> HIDE DEF d
    <3>5. ASSUME NEW i \in DOMAIN handed'
          PROVE  \/ Sent(handed[i])'
                 \/ nic' = "queued" /\ handed'[i] \in DataOf(tx)'
                 \/ handed'[i] \in lost'
      <4>1. CASE handed'[i] = d
        BY <3>3, <4>1
      <4>2. CASE i \in DOMAIN handed /\ handed'[i] = handed[i]
        <5>1. Sent(handed[i])' \/ handed'[i] \in lost'
          BY <3>3, <4>2 DEF Settled
        <5>2. QED
          BY <5>1
      <4>3. QED
        BY <3>4, <4>1, <4>2
    <3>6. NothingOverwritten'
      BY <3>5 DEF NothingOverwritten
    <3> QED
      BY <1>0, <3>3, <3>6 DEF BufferInv
  <2> QED
    BY <2>1, <2>2
<1>4. ASSUME NEW f, Receive(f) PROVE BufferInv'
  <2>1. UNCHANGED <<handed, wire>>
    BY <1>4 DEF Receive
  <2>2. CASE Replies(f) /\ ~busy
    BY <1>2, <1>4, <2>1, <2>2 DEF Receive
  <2>3. CASE Replies(f) /\ busy
    <3>1. /\ lost' = IF nic = "queued" THEN lost \cup DataOf(tx) ELSE lost
          /\ UNCHANGED <<busy, nic>>
      BY <1>4, <2>3 DEF Receive
    <3>2. QED
      BY <2>1, <3>1, WriteOver
  <2>4. CASE ~Replies(f)
    BY <1>1, <1>4, <2>1, <2>4 DEF Receive, txs
  <2>5. QED
    BY <2>2, <2>3, <2>4
<1>5. CASE NicSend
  <2>1. wire' = wire \cup {tx} /\ nic' = "done" /\ UNCHANGED <<busy, tx, lost, handed>>
    BY <1>5 DEF NicSend
  <2>2. \A i \in DOMAIN handed' : Settled(handed[i])'
    <3> SUFFICES ASSUME NEW i \in DOMAIN handed PROVE Sent(handed[i])' \/ handed[i] \in lost
      BY <2>1 DEF Settled
    <3>1. CASE handed[i] \in DataOf(tx)
      BY <2>1, <3>1 DEF Sent
    <3>2. CASE Sent(handed[i])
      BY <2>1, <3>2 DEF Sent
    <3>3. QED
      BY <3>1, <3>2 DEF BufferInv, NothingOverwritten
  <2>3. NothingOverwritten'
    BY <2>2 DEF NothingOverwritten, Settled
  <2> QED
    BY <1>0, <2>1, <2>3 DEF BufferInv
<1>6. CASE Reclaim
  <2>1. UNCHANGED <<tx, lost, handed, wire>>
    BY <1>6 DEF Reclaim
  <2>2. CASE busy /\ nic = "done"
    <3>1. nic' = "free"
      BY <1>6, <2>2 DEF Reclaim
    <3>2. NothingOverwritten'
      BY <2>1, <2>2 DEF BufferInv, NothingOverwritten, Sent, DataOf
    <3> QED
      BY <1>0, <3>1, <3>2 DEF BufferInv
  <2>3. CASE ~(busy /\ nic = "done")
    BY <1>1, <1>6, <2>1, <2>3 DEF Reclaim
  <2> QED
    BY <2>2, <2>3
<1> QED
  BY <1>1, <1>3, <1>4, <1>5, <1>6 DEF Next, Poll, NotReady, Queue, ReceiveReply, ReceiveStrange,
                                      txs, vars

\* On a NIC that reads the one buffer whenever it likes, fragments are handed
\* over in order, none twice and none left out, and a datagram accepted is sent
\* as it was built unless a reply is written over it, for any traffic.
THEOREM SentInOrder == Spec => []InOrder
<1> DEFINE Inv == OrderInv /\ BufferInv
<1>1. Init => Inv
  <2>1. Init => BufferInv
    BY DEF Init, BufferInv, NothingOverwritten
  <2> QED
    BY <2>1, InitOrder
<1>2. Inv /\ [Next]_vars => Inv'
  BY NextOrder, NextBuffer
<1>3. Inv => InOrder
  <2> SUFFICES ASSUME OrderInv, BufferInv PROVE InOrder
    OBVIOUS
  <2>1. pending # <<>> => pending[1].id = Front /\ Front \in Int
    <3>1. Len(pending) \in Nat /\ queued \in Nat /\ (pending # <<>> => Len(pending) # 0)
      BY EmptySeq, LenProperties DEF OrderInv, Queueing
    <3> QED
      BY <3>1 DEF OrderInv, Front
  <2>2. \A i \in 1..(Len(handed) - 1) :
          \/ handed[i + 1] = <<handed[i][1], handed[i][2] + 1>>
          \/ handed[i + 1] = <<handed[i][1] + 1, 0>>
    BY DEF OrderInv, Follows
  <2>3. fragment > 0 => /\ pending # <<>> /\ handed # <<>>
                        /\ Last = <<pending[1].id, fragment - 1>>
    BY <2>1 DEF OrderInv, Queueing
  <2>4. pending # <<>> /\ fragment = 0 =>
          IF handed = <<>> THEN pending[1].id = 1 ELSE pending[1].id = Last[1] + 1
    <3>1. fragment = 0 => IF handed = <<>> THEN Front = 1 ELSE Last[1] = Front - 1
      BY DEF OrderInv
    <3> HIDE DEF Last
    <3> QED
      BY <2>1, <3>1
  <2> QED
    BY <2>2, <2>3, <2>4 DEF InOrder, BufferInv, Last
<1> QED
  BY <1>1, <1>2, <1>3, PTL DEF Spec
=============================================================================
