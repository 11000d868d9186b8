----------------------------- MODULE NetAdapter -----------------------------
(***************************************************************************)
(* The appliance's network: the Ethernet/ARP/IPv4 stack with its neighbour *)
(* cache (crates/nr-net/src/lib.rs) and the adapter that moves frames      *)
(* between it, the queue of MCP messages and the firmware's NIC            *)
(* (crates/nr-boot/src/network.rs).                                        *)
(*                                                                         *)
(* Frames are records of what the stack looks at; a check that a frame     *)
(* fails (lengths, checksums, unsupported fields) is part of "ok".  The    *)
(* adapter has one transmit buffer, which the NIC holds from transmit      *)
(* until it has recycled it; the NIC is a process of its own and reads the *)
(* frame out of that buffer when it gets round to sending it.  One that    *)
(* copies the frame behaves as one that sends at once.                     *)
(***************************************************************************)
EXTENDS Integers, Sequences

CONSTANTS
    Macs, NoMac,    \* hosts on the LAN; NoMac is the zero or broadcast address
    Ips, NoIp,      \* their addresses; NoIp is 0.0.0.0
    GatewayIp,      \* where all datagrams go
    N,              \* capacity of the neighbour cache, 8
    Counts,         \* fragment counts of messages
    MaxMessages,    \* bound on the messages queued
    MaxStrange,     \* bound on frames other than the gateway's ARP replies
    MaxRefused      \* bound on transmit calls the firmware refuses

ASSUME NetAssumption ==
    /\ NoMac \notin Macs /\ NoIp \notin Ips /\ GatewayIp \in Ips
    /\ N \in Nat \ {0} /\ Counts \subseteq Nat \ {0}
    /\ MaxMessages \in Nat /\ MaxStrange \in Nat /\ MaxRefused \in Nat

\* Frames as Stack::receive sees them.  "ok" is that the frame is addressed to
\* us and passes the checks made before anything is learned from it, "forMe"
\* that the ARP target or the IPv4 destination is ours, "whole" that what the
\* IPv4 packet carries passes its own checks.
Arp    == {"arpRequest", "arpReply"}
Frames == [ok : {TRUE}, mac : Macs \cup {NoMac}, ip : Ips \cup {NoIp},
           what : Arp \cup {"echo", "udp", "other"}, forMe : BOOLEAN, whole : BOOLEAN]
Junk   == [ok |-> FALSE, mac |-> NoMac, ip |-> NoIp, what |-> "other", forMe |-> FALSE, whole |-> FALSE]

\* Frames the stack writes.
ArpRequest     == [what |-> "request", to |-> NoMac]
ArpReply(m)    == [what |-> "arp", to |-> m]
EchoReply(m)   == [what |-> "echo", to |-> m]
Datagram(m, d) == [what |-> "udp", to |-> m, data |-> d]
Blank          == [what |-> "blank", to |-> NoMac]

VARIABLES
    neighbors, nextNeighbor,        \* struct Stack
    pending, fragment,              \* Network.pending and its front's fragment
    tx, busy,                       \* the transmit buffer and tx_busy
    nic,                            \* the firmware: "free", "queued" or "done"
    pc, event,                      \* where poll_stack is, what its last frame led to
    queued, strange, refused,       \* counters for the bounds
    heard, handed, wire, lost       \* history: last address heard for an ip,
                                    \* datagrams given to transmit, frames sent,
                                    \* datagrams refused or written over

stack == <<neighbors, nextNeighbor>>
txs   == <<tx, busy, nic, lost>>
vars  == <<stack, pending, fragment, txs, pc, event, queued, strange, refused, heard, handed, wire>>

Slots   == 0..(N - 1)
NoEntry == [ip |-> NoIp, mac |-> NoMac, valid |-> FALSE]

Init ==
    /\ neighbors = [i \in Slots |-> NoEntry] /\ nextNeighbor = 0
    /\ pending = <<>> /\ fragment = 0
    /\ tx = Blank /\ busy = FALSE /\ nic = "free"
    /\ pc = "idle" /\ event = "none"
    /\ queued = 0 /\ strange = 0 /\ refused = 0
    /\ heard = [a \in Ips |-> NoMac] /\ handed = <<>> /\ wire = {} /\ lost = {}

-----------------------------------------------------------------------------
(* Stack *)

Entries(a)  == {i \in Slots : neighbors[i].valid /\ neighbors[i].ip = a}
Neighbor(a) == {neighbors[i].mac : i \in Entries(a)}

Entry(a, m) == [ip |-> a, mac |-> m, valid |-> TRUE]
\* Mutant of Learn: an address that is known keeps its old entry.
LearnOnce(a, m) ==
    IF a = NoIp \/ m = NoMac
    THEN UNCHANGED <<stack, heard>>
    ELSE /\ heard' = [heard EXCEPT ![a] = m]
         /\ IF Entries(a) # {}
            THEN UNCHANGED stack
            ELSE /\ neighbors' = [neighbors EXCEPT ![nextNeighbor] = Entry(a, m)]
                 /\ nextNeighbor' = (nextNeighbor + 1) % N

Learn(a, m) ==
    IF a = NoIp \/ m = NoMac
    THEN UNCHANGED <<stack, heard>>
    ELSE /\ heard' = [heard EXCEPT ![a] = m]
         /\ IF Entries(a) # {}
            THEN /\ neighbors' = [i \in Slots |-> IF i \in Entries(a) THEN Entry(a, m) ELSE neighbors[i]]
                 /\ UNCHANGED nextNeighbor
            ELSE /\ neighbors' = [neighbors EXCEPT ![nextNeighbor] = Entry(a, m)]
                 /\ nextNeighbor' = (nextNeighbor + 1) % N

\* What Stack::receive learns from, and whether it writes a reply.
Learns(f)  == f.ok /\ (f.what \in Arp \/ f.forMe)
Replies(f) == f.ok /\ f.forMe /\ (f.what = "arpRequest" \/ (f.what = "echo" /\ f.whole))
ReplyTo(f) == IF f.what = "arpRequest" THEN ArpReply(f.mac) ELSE EchoReply(f.mac)

-----------------------------------------------------------------------------
(* Network *)

\* The application queues a message of c fragments.
Queue(c) ==
    /\ pc = "idle" /\ queued < MaxMessages
    /\ queued' = queued + 1
    /\ pending' = Append(pending, [id |-> queued + 1, count |-> c])
    /\ UNCHANGED <<stack, fragment, txs, pc, event, strange, refused, heard, handed, wire>>

\* The datagram in the frame f, if it carries one.
DataOf(f) == IF f.what = "udp" THEN {f.data} ELSE {}

\* transmit of the frame f just written into tx: the firmware takes it, or
\* refuses it and it is gone.
Transmit(f) ==
    /\ tx' = f
    /\ \/ busy' = TRUE /\ nic' = "queued" /\ UNCHANGED <<refused, lost>>
       \/ /\ refused < MaxRefused /\ refused' = refused + 1
          /\ lost' = lost \cup DataOf(f)
          /\ UNCHANGED <<busy, nic>>

\* reclaim_transmit at the head of poll_stack
Reclaim ==
    /\ pc = "idle"
    /\ IF busy /\ nic = "done" THEN busy' = FALSE /\ nic' = "free"
                               ELSE UNCHANGED <<busy, nic>>
    /\ pc' = "send" /\ event' = "none"
    /\ UNCHANGED <<stack, pending, fragment, tx, lost, queued, strange, refused, heard, handed, wire>>
\* SendPending with the test of tx_busy, and the fragment counter of a message
\* taken off the queue, as parameters.
SendWith(free, restart) ==
    /\ pc = "send"
    /\ pc' = "receive"
    /\ \/ /\ ~free \/ pending = <<>>
          /\ UNCHANGED <<txs, refused, pending, fragment, handed>>
       \/ /\ free /\ pending # <<>> /\ Neighbor(GatewayIp) = {}
          /\ Transmit(ArpRequest)
          /\ UNCHANGED <<pending, fragment, handed>>
       \/ /\ free /\ pending # <<>>
          /\ LET d == <<pending[1].id, fragment>> IN
             \E m \in Neighbor(GatewayIp) : Transmit(Datagram(m, d)) /\ handed' = Append(handed, d)
          /\ IF fragment + 1 = pending[1].count
             THEN pending' = Tail(pending) /\ fragment' = restart
             ELSE fragment' = fragment + 1 /\ UNCHANGED pending
    /\ UNCHANGED <<stack, event, queued, strange, heard, wire>>

SendSkips == SendWith(~busy, 1)
SendStuck ==
    /\ pc = "send"
    /\ pc' = "receive"
    /\ \/ UNCHANGED <<txs, refused, handed>>
       \/ ~busy /\ pending # <<>> /\ Neighbor(GatewayIp) = {} /\ Transmit(ArpRequest) /\ UNCHANGED handed
    /\ UNCHANGED <<stack, pending, fragment, event, queued, strange, heard, wire>>

\* send_pending: one fragment of the front message, or an ARP request for the
\* gateway when it is not in the cache.
SendPending ==
    /\ pc = "send"
    /\ pc' = "receive"
    /\ \/ /\ busy \/ pending = <<>>
          /\ UNCHANGED <<txs, refused, pending, fragment, handed>>
       \/ /\ ~busy /\ pending # <<>> /\ Neighbor(GatewayIp) = {}
          /\ Transmit(ArpRequest)
          /\ UNCHANGED <<pending, fragment, handed>>
       \/ /\ ~busy /\ pending # <<>>
          /\ LET d == <<pending[1].id, fragment>> IN
             \E m \in Neighbor(GatewayIp) : Transmit(Datagram(m, d)) /\ handed' = Append(handed, d)
          /\ IF fragment + 1 = pending[1].count
             THEN pending' = Tail(pending) /\ fragment' = 0
             ELSE fragment' = fragment + 1 /\ UNCHANGED pending
    /\ UNCHANGED <<stack, event, queued, strange, heard, wire>>

\* One turn of the receive loop: the stack writes its reply into tx, and the
\* adapter transmits it if the buffer is free.  The stack does not ask whether
\* it is: what the NIC has not sent yet is written over.
Receive(f) ==
    /\ pc = "receive"
    /\ IF Learns(f) THEN Learn(f.ip, f.mac) ELSE UNCHANGED <<stack, heard>>
    /\ \/ /\ Replies(f) /\ ~busy
          /\ Transmit(ReplyTo(f)) /\ event' = "sent"
       \/ /\ Replies(f) /\ busy
          /\ tx' = ReplyTo(f) /\ event' = "skipped"
          /\ lost' = IF nic = "queued" THEN lost \cup DataOf(tx) ELSE lost
          /\ UNCHANGED <<busy, nic, refused>>
       \/ /\ ~Replies(f)
          /\ event' = IF f.ok /\ f.forMe /\ f.what = "udp" /\ f.whole THEN "udp" ELSE "none"
          /\ UNCHANGED <<txs, refused>>
    \* the loop ends early when a datagram completes an MCP message
    /\ pc' \in {"receive"} \cup (IF event' = "udp" THEN {"idle"} ELSE {})
    /\ UNCHANGED <<pending, fragment, queued, handed, wire>>

\* The gateway answers an ARP request that was sent.
GatewayReply(m) ==
    [ok |-> TRUE, mac |-> m, ip |-> GatewayIp, what |-> "arpReply", forMe |-> TRUE, whole |-> TRUE]

ReceiveReply == /\ ArpRequest \in wire
                /\ \E m \in Macs : Receive(GatewayReply(m))
                /\ UNCHANGED strange

ReceiveStrange == /\ strange < MaxStrange /\ strange' = strange + 1
                  /\ \E f \in Frames \cup {Junk} : Receive(f)

\* Nothing more to receive, or a receive error.
NotReady ==
    /\ pc = "receive"
    /\ pc' = "idle"
    /\ UNCHANGED <<stack, pending, fragment, txs, event, queued, strange, refused, heard, handed, wire>>

-----------------------------------------------------------------------------
\* The NIC puts what is in the buffer on the wire and is done with it.
NicSend ==
    /\ nic = "queued"
    /\ wire' = wire \cup {tx}
    /\ nic' = "done"
    /\ UNCHANGED <<stack, pending, fragment, tx, lost, busy, pc, event, queued, strange, refused, heard, handed>>

Poll == Reclaim \/ SendPending \/ NotReady

Next ==
    \/ \E c \in Counts : Queue(c)
    \/ Poll \/ ReceiveReply \/ ReceiveStrange \/ NicSend

Spec == Init /\ [][Next]_vars

\* The chat loop polls for ever, the NIC sends what it accepted, and the
\* gateway's reply to a request that went out is received when its turn comes.
FairSpec == Spec /\ WF_vars(Poll) /\ WF_vars(NicSend) /\ SF_vars(ReceiveReply)

-----------------------------------------------------------------------------
\* The types of the stack's and the adapter's state.
TypeOK ==
    /\ neighbors \in [Slots -> [ip : Ips \cup {NoIp}, mac : Macs \cup {NoMac}, valid : BOOLEAN]]
    /\ nextNeighbor \in Slots
    /\ pending \in Seq([id : 1..MaxMessages, count : Counts])
    /\ fragment \in Nat /\ (pending = <<>> => fragment = 0)
    /\ (pending # <<>> => fragment < pending[1].count)
    /\ busy \in BOOLEAN /\ nic \in {"free", "queued", "done"}
    /\ pc \in {"idle", "send", "receive"} /\ event \in {"none", "sent", "skipped", "udp"}
    /\ queued \in 0..MaxMessages /\ strange \in 0..MaxStrange /\ refused \in 0..MaxRefused

\* An address is in the cache at most once, with the hardware address that was
\* heard for it last: a host that moved is never reached at its old place
\* through a second entry (learn, neighbor).
CacheCurrent ==
    \A i \in Slots : neighbors[i].valid =>
        /\ neighbors[i].mac = heard[neighbors[i].ip]
        /\ Entries(neighbors[i].ip) = {i}

Sent(d) == \E f \in wire : d \in DataOf(f)

\* A datagram handed to transmit is on the wire as it was built, or in the
\* buffer of a NIC that will send it, or was lost in one of two ways: the
\* firmware refused it, or a reply was written over it before it was sent.
\* The next fragment never overwrites it, and neither does a recycled buffer.
NothingOverwritten ==
    \A i \in DOMAIN handed :
        \/ Sent(handed[i])
        \/ nic = "queued" /\ handed[i] \in DataOf(tx)
        \/ handed[i] \in lost

\* Datagrams are handed to the NIC in the order the messages were queued and
\* from the first fragment to the last, none twice and none left out, whatever
\* ARP, replies and a busy buffer do in between; and each goes out as it was
\* built unless it is lost in one of those two ways.
InOrder ==
    /\ NothingOverwritten
    /\ \A i \in 1..(Len(handed) - 1) :
         \/ handed[i + 1] = <<handed[i][1], handed[i][2] + 1>>
         \/ handed[i + 1] = <<handed[i][1] + 1, 0>>
    /\ fragment > 0 => /\ pending # <<>> /\ handed # <<>>
                       /\ handed[Len(handed)] = <<pending[1].id, fragment - 1>>
    /\ pending # <<>> /\ fragment = 0 =>
         IF handed = <<>> THEN pending[1].id = 1
                          ELSE pending[1].id = handed[Len(handed)][1] + 1

\* Every message that is queued leaves the queue, and what was handed over of
\* it is then on the wire or lost as above: neither ARP nor a buffer that is
\* not given back holds up the queue.
MessagesLeave == \A i \in 1..MaxMessages :
    queued >= i ~> /\ ~\E k \in DOMAIN pending : pending[k].id = i
                   /\ \A k \in DOMAIN handed : handed[k][1] = i => Sent(handed[k]) \/ handed[k] \in lost
=============================================================================
