---------------------------- MODULE BridgeProofs ----------------------------
(***************************************************************************)
(* Proofs about the MCP bridge, for any requests, any user commands and    *)
(* any behaviour of the network.                                           *)
(***************************************************************************)
EXTENDS Bridge, SequenceTheorems, TLAPS

-----------------------------------------------------------------------------
(* Types *)

\* Replying to a client keeps the replies well typed.
LEMMA ReplyType ==
    ASSUME TypeOK, NEW r, NEW x \in Statuses \cup Requests, Reply(r, x)
    PROVE  reply' \in [Requests -> Statuses \cup Requests]
BY DEF TypeOK, Reply

\* The messages both sides build are messages.
LEMMA MessageType ==
    /\ Hello \in Messages
    /\ \A k \in Kinds, i \in Nat, b \in Bodies : Message(k, i, b) \in Messages
BY DEF Hello, Message, Messages, Kinds, Bodies

\* Sending a message keeps what is on its way well typed.
LEMMA SentType ==
    ASSUME TypeOK, NEW t, NEW m \in Messages, SentBy(t, m)
    PROVE  down' \subseteq Messages /\ crossed' \subseteq {"http", "udp"} /\ garbled' \subseteq Bodies
BY DEF TypeOK, SentBy, Messages

LEMMA InitType == Init => TypeOK
<1>1. SUFFICES ASSUME Init PROVE TypeOK
  OBVIOUS
<1>2. <<Hello>> \in Seq(Messages)
  BY MessageType
<1>3. NoMsg \in Messages
  BY MessageType DEF NoMsg
<1>4. 0 \in 0..MaxRestarts /\ 0 \in 0..MaxReboots /\ 0 \in 0..MaxCopies
  BY BridgeAssumption
<1>5. /\ reply \in [Requests -> Statuses \cup Requests]
      /\ executed \in [Requests -> Nat]
  BY <1>1 DEF Init, Statuses
<1>6. NoRequest \in Bodies
  BY DEF Bodies
<1> QED
  BY <1>1, <1>2, <1>3, <1>4, <1>5, <1>6 DEF Init, TypeOK

\* Every step of the HTTP thread keeps the types.
LEMMA HttpType ==
    ASSUME TypeOK, Http \/ \E r \in Requests : Accept(r)
    PROVE  TypeOK'
<1> USE DEF TypeOK, device, history
<1>1. ASSUME NEW r \in Requests, Accept(r) PROVE TypeOK'
  <2>1. reply' \in [Requests -> Statuses \cup Requests]
    BY <1>1, ReplyType DEF Accept, Statuses
  <2> QED
    BY <1>1, <2>1 DEF Accept, Bodies
<1>2. CASE ReadBody
  <2>1. reply' \in [Requests -> Statuses \cup Requests]
    BY <1>2, ReplyType DEF ReadBody, Statuses
  <2> QED
    BY <1>2, <2>1 DEF ReadBody, Finished, Bodies
<1>3. CASE Notify
  <2>1. reply' \in [Requests -> Statuses \cup Requests]
    BY <1>3, ReplyType DEF Notify, Statuses
  <2>2. Message("HostRequest", mid, cur) \in Messages
    BY MessageType DEF Kinds
  <2>3. down' \subseteq Messages /\ crossed' \subseteq {"http", "udp"} /\ garbled' \subseteq Bodies
    BY <1>3, <2>2, SentType DEF Notify
  <2> QED
    BY <1>3, <2>1, <2>3 DEF Notify, Finished, Bodies
<1>4. CASE Insert
  BY <1>4 DEF Insert
<1>5. CASE SendRequest
  <2>0. Message("HostRequest", mid, cur) \in Messages
    BY MessageType DEF Kinds
  <2>1. CASE hpc' = "wait"
    <3>1. down' \subseteq Messages /\ crossed' \subseteq {"http", "udp"} /\ garbled' \subseteq Bodies
      BY <1>5, <2>0, <2>1, SentType DEF SendRequest, Finished
    <3>2. UNCHANGED <<up, ids, pending, peer, cur, mid, box, upc, dreq, initialized, server,
                      queue, nextId, serving, reply, executed, restarts, reboots, copies>>
      BY <1>5, <2>1 DEF SendRequest, Finished
    <3> QED
      BY <2>1, <3>1, <3>2
  <2>2. CASE hpc' # "wait"
    <3>1. reply' \in [Requests -> Statuses \cup Requests]
      BY <1>5, ReplyType DEF SendRequest, Statuses
    <3>2. /\ pending' = pending \ {mid}
          /\ hpc' = "idle" /\ cur' = NoRequest /\ mid' = 0 /\ box' = NoRequest
          /\ crossed' = crossed \ {"http"}
          /\ UNCHANGED <<down, up, ids, peer, upc, dreq, initialized, server, queue, nextId, serving,
                         executed, restarts, reboots, copies, garbled>>
      BY <1>5, <2>2 DEF SendRequest, Finished
    <3> QED
      BY <3>1, <3>2 DEF Bodies
  <2> QED
    BY <2>1, <2>2
<1>6. CASE TakeAnswer
  <2>1. box \in Requests
    BY <1>6 DEF TakeAnswer, Bodies
  <2>2. reply' \in [Requests -> Statuses \cup Requests]
    BY <1>6, <2>1, ReplyType DEF TakeAnswer
  <2> QED
    BY <1>6, <2>2 DEF TakeAnswer, Finished, Bodies
<1>7. CASE TimeOut
  BY <1>7 DEF TimeOut
<1>8. CASE GiveUp
  <2>1. reply' \in [Requests -> Statuses \cup Requests]
    BY <1>8, ReplyType DEF GiveUp, Statuses
  <2> QED
    BY <1>8, <2>1 DEF GiveUp, Finished, Bodies
<1>9. CASE BeginSend
  BY <1>9 DEF BeginSend, Overlap
<1> QED
  BY <1>1, <1>2, <1>3, <1>4, <1>5, <1>6, <1>7, <1>8, <1>9 DEF Http

\* The end of the gateway's process keeps the types.
LEMMA EndsType ==
    ASSUME TypeOK, Ends, UNCHANGED <<down, up, ids, server, device, history>>
    PROVE  TypeOK'
<1>1. reply' \in [Requests -> Statuses \cup Requests]
  BY DEF Ends, TypeOK, Statuses
<1>2. NoMsg \in Messages
  BY MessageType DEF NoMsg
<1> QED
  BY <1>1, <1>2 DEF Ends, Finished, TypeOK, Bodies, device, history

\* Every step of the UDP loop keeps the types.
LEMMA UdpType ==
    ASSUME TypeOK, Udp
    PROVE  TypeOK'
<1> USE DEF TypeOK, device, history
<1>1. ASSUME NEW m \in up, Receive(m) PROVE TypeOK'
  <2>1. m \in Messages /\ m.body \in Bodies
    BY <1>1 DEF Messages
  <2>2. up' \subseteq up /\ copies' \in 0..MaxCopies
    BY <1>1, BridgeAssumption DEF Receive, Arrive
  <2> QED
    BY <1>1, <2>1, <2>2 DEF Receive
<1>2. ASSUME NEW o \in Outcomes, PostInitialize(o) PROVE TypeOK'
  BY <1>2 DEF PostInitialize
<1>3. ASSUME NEW o \in Outcomes, PostInitialized(o) PROVE TypeOK'
  BY <1>3 DEF PostInitialized
<1>4. ASSUME NEW o \in Outcomes, PostBody(o) PROVE TypeOK'
  <2>1. CASE Ends
    BY <1>4, <2>1, EndsType DEF PostBody
  <2> QED
    BY <1>4, <2>1 DEF PostBody
<1>5. CASE SendAnswer
  <2>1. dreq.id \in Nat
    BY DEF Messages
  <2>2. Message("HostResponse", dreq.id, NoRequest) \in Messages /\ NoMsg \in Messages
    BY <2>1, MessageType DEF Kinds, Bodies, NoMsg
  <2>3. down' \subseteq Messages /\ crossed' \subseteq {"http", "udp"} /\ garbled' \subseteq Bodies
    BY <1>5, <2>2, SentType DEF SendAnswer
  <2> QED
    BY <1>5, <2>2, <2>3 DEF SendAnswer
<1>6. CASE BeginAnswer
  BY <1>6 DEF BeginAnswer, Overlap
<1> QED
  BY <1>1, <1>2, <1>3, <1>4, <1>5, <1>6 DEF Udp, UpstreamCall

\* Every step of the device, and a new start of either machine, keeps the
\* types.
LEMMA DeviceType ==
    ASSUME TypeOK, Device \/ UserCommand \/ GatewayEnds \/ GatewayStarts \/ Reboot
    PROVE  TypeOK'
<1> USE DEF TypeOK, gateway, history
<1>0. NoMsg \in Messages /\ <<Hello>> \in Seq(Messages)
  BY MessageType DEF NoMsg
<1>1. CASE DeviceSend
  <2>1. Head(queue) \in Messages /\ Tail(queue) \in Seq(Messages)
    BY <1>1, HeadTailProperties DEF DeviceSend
  <2> QED
    BY <1>1, <2>1 DEF DeviceSend
<1>2. CASE DeviceAnswer
  <2>1. serving.id \in Nat /\ serving.body \in Bodies
    BY DEF Messages
  <2>2. Message("DeviceResponse", serving.id, serving.body) \in Messages
    BY <2>1, MessageType DEF Kinds
  <2>3. queue' \in Seq(Messages)
    BY <1>2, <2>2, AppendProperties DEF DeviceAnswer
  <2> QED
    BY <1>0, <1>2, <2>3 DEF DeviceAnswer
<1>3. ASSUME NEW m \in down, DeviceReceive(m) PROVE TypeOK'
  <2>1. executed' \in [Requests -> Nat]
    BY <1>3, BridgeAssumption DEF DeviceReceive
  <2> QED
    BY <1>3, <2>1, BridgeAssumption DEF DeviceReceive, Arrive
<1>4. CASE UserCommand
  <2>1. Message("DeviceRequest", nextId, NoRequest) \in Messages
    BY MessageType DEF Kinds, Bodies
  <2>2. queue' \in Seq(Messages)
    BY <1>4, <2>1, AppendProperties DEF UserCommand
  <2> QED
    BY <1>4, <2>2 DEF UserCommand
<1>5. CASE GatewayEnds
  BY <1>5, EndsType DEF GatewayEnds
<1>7. CASE GatewayStarts
  <2>1. restarts' \in 0..MaxRestarts
    BY <1>7, BridgeAssumption DEF GatewayStarts
  <2> QED
    BY <1>7, <2>1 DEF GatewayStarts, device
<1>6. CASE Reboot
  <2>1. reboots' \in 0..MaxReboots
    BY <1>6, BridgeAssumption DEF Reboot
  <2> QED
    BY <1>0, <1>6, <2>1 DEF Reboot
<1> QED
  BY <1>1, <1>2, <1>3, <1>4, <1>5, <1>6, <1>7 DEF Device

LEMMA NextType == TypeOK /\ [Next]_vars => TypeOK'
<1>1. CASE Next
  BY <1>1, HttpType, UdpType, DeviceType DEF Next
<1>2. CASE UNCHANGED vars
  BY <1>2 DEF vars, gateway, device, history, TypeOK
<1> QED
  BY <1>1, <1>2

\* The gateway's and the device's state is always well typed.
THEOREM TypeCorrect == Spec => []TypeOK
BY InitType, NextType, PTL DEF Spec
-----------------------------------------------------------------------------
(* The pending map *)

Waiting == {"send", "sending", "wait", "giveup"}

\* The inductive form of NoLeak: an answer is in the channel only when its
\* entry has been taken out of the map.
LeakInv == NoLeak /\ (box # NoRequest => pending = {} /\ hpc \in Waiting)

LEMMA InitLeak == Init => LeakInv
BY DEF Init, LeakInv, NoLeak

LEMMA NextLeak == LeakInv /\ [Next]_vars => LeakInv'
<1> SUFFICES ASSUME LeakInv, [Next]_vars PROVE LeakInv'
  OBVIOUS
<1> USE DEF LeakInv, NoLeak, Waiting
<1>1. ASSUME NEW r \in Requests, Accept(r) PROVE LeakInv'
  BY <1>1 DEF Accept
<1>2. CASE ReadBody
  BY <1>2 DEF ReadBody, Finished
<1>3. CASE Notify
  BY <1>3 DEF Notify, Finished
<1>4. CASE Insert
  BY <1>4 DEF Insert
<1>5. CASE SendRequest
  BY <1>5 DEF SendRequest, Finished
<1>6. CASE TakeAnswer
  BY <1>6 DEF TakeAnswer, Finished
<1>7. CASE TimeOut
  BY <1>7 DEF TimeOut
<1>8. CASE GiveUp
  BY <1>8 DEF GiveUp, Finished
<1>9. ASSUME NEW m \in up, Receive(m) PROVE LeakInv'
  BY <1>9 DEF Receive
<1>10. ASSUME NEW o \in Outcomes, PostInitialize(o) \/ PostInitialized(o) PROVE LeakInv'
  BY <1>10 DEF PostInitialize, PostInitialized
<1>11. ASSUME Ends PROVE LeakInv'
  BY <1>11 DEF Ends, Finished
<1>12. CASE BeginAnswer \/ SendAnswer \/ GatewayEnds \/ GatewayStarts
  BY <1>11, <1>12 DEF BeginAnswer, SendAnswer, GatewayEnds, GatewayStarts
<1>13. CASE Device \/ UserCommand \/ Reboot
  BY <1>13 DEF Device, DeviceSend, DeviceAnswer, DeviceReceive, UserCommand, Reboot, gateway
<1>14. CASE UNCHANGED vars
  BY <1>14 DEF vars, gateway
<1>15. CASE BeginSend
  BY <1>15 DEF BeginSend
<1>16. ASSUME NEW o \in Outcomes, PostBody(o) PROVE LeakInv'
  BY <1>11, <1>16 DEF PostBody
<1> QED
  BY <1>1, <1>2, <1>3, <1>4, <1>5, <1>6, <1>7, <1>8, <1>9, <1>10, <1>12, <1>13, <1>14, <1>15, <1>16
     DEF Next, Http, Udp, UpstreamCall

\* The pending map of the gateway never keeps an entry that its HTTP thread is
\* not working on, whatever is lost, duplicated, late or restarted.
THEOREM PendingOwned == Spec => []NoLeak
<1>1. LeakInv => NoLeak
  BY DEF LeakInv
<1> QED
  BY <1>1, InitLeak, NextLeak, PTL DEF Spec

-----------------------------------------------------------------------------
(* Answers *)

\* The messages about a client's request, wherever they are.
InFlight == down \cup up \cup {queue[i] : i \in 1..Len(queue)} \cup {serving}
Tagged   == {m \in InFlight : m.kind \in {"HostRequest", "DeviceResponse"}}

\* The HTTP thread has given its request an id.
Named == {"notify", "notifying", "insert"} \cup Waiting

\* An id stands for one request: in all messages that carry it and, while the
\* HTTP thread works on it, in the thread.
TagInv ==
    /\ \A m \in Tagged : m.id < ids
    /\ \A m, n \in Tagged : m.id = n.id => m.body = n.body
    /\ hpc \in Named => mid < ids /\ \A m \in Tagged : m.id = mid => m.body = cur

\* The device only works on requests.
ServingInv == serving = NoMsg \/ serving.kind = "HostRequest"

BoxInv == box # NoRequest => box = cur

MatchInv == TypeOK /\ LeakInv /\ ServingInv /\ TagInv /\ BoxInv /\ AnswerMatches

\* m says nothing that the old messages, or the HTTP thread itself, did not.
Known(m) == \/ \E n \in Tagged : n.id = m.id /\ n.body = m.body
            \/ hpc \in Named /\ m.id = mid /\ m.body = cur

LEMMA InitMatch == Init => MatchInv
<1> SUFFICES ASSUME Init PROVE MatchInv
  OBVIOUS
<1>1. Tagged = {}
  BY DEF Init, Tagged, InFlight, Hello, NoMsg, Message
<1>2. AnswerMatches
  BY DEF Init, AnswerMatches, Statuses
<1>3. TagInv
  BY <1>1 DEF Init, TagInv, Named, Waiting
<1> QED
  BY <1>2, <1>3, InitType, InitLeak DEF MatchInv, Init, ServingInv, BoxInv

\* No step puts a message on its way that is about anything else.
LEMMA OnlyKnown ==
    ASSUME TypeOK, ServingInv, Next
    PROVE  \A m \in Tagged' : Known(m)
<1> SUFFICES ASSUME NEW m \in Tagged' PROVE Known(m)
  OBVIOUS
<1>0. /\ m \in down' \/ m \in up' \/ m = serving' \/ \E i \in 1..Len(queue') : m = queue'[i]
      /\ m.kind \in {"HostRequest", "DeviceResponse"}
  BY DEF Tagged, InFlight
<1>1. m \in InFlight => Known(m)
  BY <1>0 DEF Known, Tagged
<1>2. CASE \E r \in Requests : Accept(r)
  BY <1>0, <1>1, <1>2 DEF Accept, device, InFlight
<1>3. CASE ReadBody \/ Insert \/ BeginSend \/ TakeAnswer \/ TimeOut \/ GiveUp
  BY <1>0, <1>1, <1>3 DEF ReadBody, Insert, BeginSend, TakeAnswer, TimeOut, GiveUp, device, InFlight
<1>4. CASE Notify \/ SendRequest
  <2>1. m \in InFlight \/ m = Message("HostRequest", mid, cur)
    BY <1>0, <1>4 DEF Notify, SendRequest, SentBy, device, InFlight
  <2> QED
    BY <1>1, <1>4, <2>1 DEF Known, Named, Waiting, Notify, SendRequest, Message
<1>5. CASE Udp
  <2>1. m \in InFlight \/ m = Message("HostResponse", dreq.id, NoRequest)
    BY <1>0, <1>5 DEF Udp, UpstreamCall, Receive, Arrive, PostInitialize, PostInitialized, PostBody,
                      Ends, BeginAnswer, SendAnswer, SentBy, device, InFlight
  <2> QED
    BY <1>0, <1>1, <2>1 DEF Message
<1>6. CASE DeviceSend
  <2>1. Head(queue) = queue[1] /\ 1 \in 1..Len(queue)
    BY <1>6, HeadTailProperties DEF DeviceSend, TypeOK
  <2>2. \A i \in 1..Len(queue') : i + 1 \in 1..Len(queue) /\ queue'[i] = queue[i + 1]
    BY <1>6, HeadTailProperties DEF DeviceSend, TypeOK
  <2>3. m \in InFlight
    BY <1>0, <1>6, <2>1, <2>2 DEF DeviceSend, InFlight
  <2> QED
    BY <1>1, <2>3
<1>7. CASE DeviceAnswer
  <2>1. ASSUME NEW i \in 1..Len(queue'), queue' # queue
        PROVE  \/ i \in 1..Len(queue) /\ queue'[i] = queue[i]
               \/ queue'[i] = Message("DeviceResponse", serving.id, serving.body)
    BY <1>7, <2>1, AppendProperties DEF DeviceAnswer, TypeOK
  <2>2. m \in InFlight \/ m = NoMsg \/ m = Message("DeviceResponse", serving.id, serving.body)
    BY <1>0, <1>7, <2>1 DEF DeviceAnswer, InFlight
  <2>3. NoMsg.kind = "Hello"
    BY DEF NoMsg, Hello, Message
  <2>4. serving \in Tagged
    BY <1>7 DEF DeviceAnswer, ServingInv, Tagged, InFlight
  <2>5. CASE m = Message("DeviceResponse", serving.id, serving.body)
    BY <2>4, <2>5 DEF Known, Message
  <2> QED
    BY <1>0, <1>1, <2>2, <2>3, <2>5
<1>8. CASE \E n \in down : DeviceReceive(n)
  BY <1>0, <1>1, <1>8 DEF DeviceReceive, Arrive, InFlight
<1>9. CASE UserCommand
  <2>1. ASSUME NEW i \in 1..Len(queue')
        PROVE  \/ i \in 1..Len(queue) /\ queue'[i] = queue[i]
               \/ queue'[i] = Message("DeviceRequest", nextId, NoRequest)
    BY <1>9, <2>1, AppendProperties DEF UserCommand, TypeOK
  <2>2. m \in InFlight \/ m = Message("DeviceRequest", nextId, NoRequest)
    BY <1>0, <1>9, <2>1 DEF UserCommand, InFlight
  <2> QED
    BY <1>0, <1>1, <2>2 DEF Message
<1>10. CASE GatewayEnds \/ GatewayStarts
  BY <1>0, <1>1, <1>10 DEF GatewayEnds, GatewayStarts, device, InFlight
<1>11. CASE Reboot
  <2>1. m \in InFlight \/ m = Hello
    BY <1>0, <1>11 DEF Reboot, InFlight, NoMsg
  <2> QED
    BY <1>0, <1>1, <2>1 DEF Hello, Message
<1> QED
  BY <1>2, <1>3, <1>4, <1>5, <1>6, <1>7, <1>8, <1>9, <1>10, <1>11 DEF Next, Http, Device

\* A step keeps an id standing for one request, unless ids start over.
LEMMA NextTag ==
    ASSUME TypeOK, LeakInv, ServingInv, TagInv, Next, ~GatewayStarts
    PROVE  TagInv'
<1>1. \A m \in Tagged' : Known(m)
  BY OnlyKnown
<1>2. /\ \A m \in Tagged' : m.id < ids
      /\ \A m, n \in Tagged' : m.id = n.id => m.body = n.body
      /\ hpc \in Named => mid < ids /\ \A m \in Tagged' : m.id = mid => m.body = cur
  BY <1>1 DEF Known, TagInv
<1>3. \A m \in Tagged' : m.id \in Nat
  <2>1. TypeOK'
    BY NextType
  <2>2. \A m \in InFlight' : m \in Messages
    BY <2>1 DEF TypeOK, InFlight
  <2> QED
    BY <2>2 DEF Tagged, Messages
<1>4. CASE ReadBody
  <2>1. CASE cur \in BadBody
    BY <1>2, <1>4, <2>1 DEF ReadBody, Finished, TagInv, Named, Waiting
  <2>2. CASE cur \notin BadBody
    <3>1. mid' = ids /\ ids' = ids + 1 /\ ids \in Nat
      BY <1>4, <2>2 DEF ReadBody, TypeOK
    <3> QED
      BY <1>2, <1>3, <3>1 DEF TagInv
  <2> QED
    BY <2>1, <2>2
<1>5. ASSUME UNCHANGED ids, hpc' \in Named => hpc \in Named /\ UNCHANGED <<cur, mid>>
      PROVE  TagInv'
  BY <1>2, <1>5 DEF TagInv
<1>6. CASE Http /\ ~ReadBody
  BY <1>5, <1>6 DEF Http, BeginSend, Notify, Insert, SendRequest, TakeAnswer, TimeOut, GiveUp,
                    Finished, Named, Waiting
<1>7. CASE \E r \in Requests : Accept(r)
  BY <1>5, <1>7 DEF Accept, Named, Waiting
<1>8. CASE Udp \/ GatewayEnds
  BY <1>5, <1>8 DEF Udp, UpstreamCall, Receive, PostInitialize, PostInitialized, PostBody, Ends,
                    BeginAnswer, SendAnswer, GatewayEnds, Finished, Named, Waiting
<1>9. CASE Device \/ UserCommand \/ Reboot
  BY <1>5, <1>9 DEF Device, DeviceSend, DeviceAnswer, DeviceReceive, UserCommand, Reboot, gateway
<1> QED
  BY <1>4, <1>6, <1>7, <1>8, <1>9 DEF Next

\* What the channel holds and what clients got are answers to the right
\* request.
LEMMA NextAnswer ==
    ASSUME MatchInv, restarts = 0, Next, ~GatewayStarts
    PROVE  BoxInv' /\ AnswerMatches'
<1> USE DEF MatchInv
<1>1. ASSUME NEW r, NEW x, Reply(r, x), x \in Statuses \/ x = r
      PROVE  AnswerMatches'
  BY <1>1 DEF Reply, AnswerMatches, TypeOK
<1>2. ASSUME UNCHANGED reply PROVE AnswerMatches'
  BY <1>2 DEF AnswerMatches
<1>3. CASE \E r \in Requests : Accept(r)
  <2>1. UNCHANGED box /\ box = NoRequest
    BY <1>3 DEF Accept, LeakInv, Waiting
  <2>2. AnswerMatches'
    BY <1>1, <1>2, <1>3 DEF Accept, Statuses
  <2> QED
    BY <2>1, <2>2 DEF BoxInv
<1>4. CASE ReadBody
  <2>1. box = NoRequest /\ box' = NoRequest
    BY <1>4 DEF ReadBody, Finished, LeakInv, Waiting
  <2>2. AnswerMatches'
    BY <1>1, <1>2, <1>4 DEF ReadBody, Statuses
  <2> QED
    BY <2>1, <2>2 DEF BoxInv
<1>5. CASE Notify \/ GiveUp
  BY <1>1, <1>5 DEF Notify, GiveUp, Finished, BoxInv, Statuses
<1>6. CASE Insert \/ BeginSend \/ TimeOut
  BY <1>2, <1>6 DEF Insert, BeginSend, TimeOut, BoxInv
<1>7. CASE SendRequest
  BY <1>1, <1>2, <1>7 DEF SendRequest, Finished, BoxInv, Statuses
<1>8. CASE TakeAnswer
  BY <1>1, <1>8 DEF TakeAnswer, Finished, BoxInv
<1>9. ASSUME NEW m \in up, Receive(m) PROVE BoxInv' /\ AnswerMatches'
  <2>1. CASE m.kind = "DeviceResponse" /\ m.id \in pending
    <3>1. m \in Tagged
      BY <2>1 DEF Tagged, InFlight
    <3>2. m.id = mid /\ hpc \in Named
      BY <2>1 DEF LeakInv, NoLeak, Named, Waiting
    <3>3. m.body = cur
      BY <3>1, <3>2 DEF TagInv
    <3> QED
      BY <1>2, <1>9, <2>1, <3>3 DEF Receive, BoxInv
  <2>2. CASE ~(m.kind = "DeviceResponse" /\ m.id \in pending)
    BY <1>2, <1>9, <2>2 DEF Receive, BoxInv
  <2> QED
    BY <2>1, <2>2
<1>10. ASSUME Ends PROVE BoxInv' /\ AnswerMatches'
  BY <1>10 DEF Ends, Finished, BoxInv, AnswerMatches, Statuses
<1>12. CASE UpstreamCall \/ GatewayEnds
  BY <1>2, <1>10, <1>12 DEF UpstreamCall, PostInitialize, PostInitialized, PostBody, BeginAnswer,
                            SendAnswer, GatewayEnds, BoxInv
<1>11. CASE Device \/ UserCommand \/ Reboot
  BY <1>2, <1>11 DEF Device, DeviceSend, DeviceAnswer, DeviceReceive, UserCommand, Reboot,
                     gateway, BoxInv
<1> QED
  BY <1>3, <1>4, <1>5, <1>6, <1>7, <1>8, <1>9, <1>11, <1>12 DEF Next, Http, Udp

LEMMA NextMatch ==
    ASSUME MatchInv, restarts = 0, restarts' = 0, [Next]_vars
    PROVE  MatchInv'
<1>1. TypeOK' /\ LeakInv'
  BY NextType, NextLeak DEF MatchInv
<1>2. ~GatewayStarts
  BY DEF GatewayStarts, MatchInv, TypeOK
<1>3. CASE Next
  <2>1. ServingInv'
    <3>1. CASE Http \/ Udp \/ GatewayEnds \/ \E r \in Requests : Accept(r)
      BY <3>1 DEF Http, Udp, UpstreamCall, Accept, ReadBody, BeginSend, Notify, Insert, SendRequest,
                  TakeAnswer, TimeOut, GiveUp, Receive, PostInitialize, PostInitialized, PostBody,
                  BeginAnswer, SendAnswer, GatewayEnds, device, ServingInv, MatchInv
    <3>2. CASE Device \/ UserCommand \/ Reboot
      BY <3>2 DEF Device, DeviceSend, DeviceAnswer, DeviceReceive, UserCommand, Reboot,
                  ServingInv, MatchInv
    <3> QED
      BY <1>2, <1>3, <3>1, <3>2 DEF Next
  <2>2. TagInv'
    BY <1>2, <1>3, NextTag DEF MatchInv
  <2>3. BoxInv' /\ AnswerMatches'
    BY <1>2, <1>3, NextAnswer
  <2> QED
    BY <1>1, <2>1, <2>2, <2>3 DEF MatchInv
<1>4. CASE UNCHANGED vars
  <2>1. Tagged' = Tagged
    BY <1>4 DEF vars, device, Tagged, InFlight
  <2> QED
    BY <1>1, <1>4, <2>1 DEF MatchInv, ServingInv, TagInv, BoxInv, AnswerMatches, vars, gateway, device
<1> QED
  BY <1>3, <1>4

\* As long as the gateway keeps running, no client is ever given the answer to
\* another request, whatever the network does and however often the device is
\* restarted.
THEOREM AnswersMatch == Spec => []AnswerMatches
<1> DEFINE Inv == TypeOK /\ (restarts = 0 => MatchInv)
<1>1. Init => Inv
  BY InitMatch, InitType
<1>2. Inv /\ [Next]_vars => Inv'
  <2> SUFFICES ASSUME Inv, [Next]_vars PROVE Inv'
    OBVIOUS
  <2>1. TypeOK'
    BY NextType
  <2>2. restarts' = 0 => restarts = 0
    <3>1. restarts' = restarts \/ restarts' = restarts + 1
      <4>1. CASE GatewayStarts
        BY <4>1 DEF GatewayStarts
      <4>2. CASE ~GatewayStarts
        BY <4>2 DEF Next, Http, Udp, UpstreamCall, Accept, ReadBody, BeginSend, Notify, Insert,
                    SendRequest, TakeAnswer, TimeOut, GiveUp, Receive, PostInitialize,
                    PostInitialized, PostBody, BeginAnswer, SendAnswer, GatewayEnds,
                    Device, DeviceSend, DeviceAnswer, DeviceReceive, UserCommand, Reboot,
                    history, vars
      <4> QED
        BY <4>1, <4>2
    <3> QED
      BY <3>1 DEF TypeOK
  <2>3. restarts' = 0 => MatchInv'
    BY <2>2, NextMatch
  <2> QED
    BY <2>1, <2>3
<1>3. Inv => AnswerMatches
  BY DEF MatchInv, AnswerMatches
<1> QED
  BY <1>1, <1>2, <1>3, PTL DEF Spec
-----------------------------------------------------------------------------
(* How often a request is run *)

\* The requests for r that are on their way to the device.
Asking(r) == {m \in down : m.kind = "HostRequest" /\ m.body = r}

\* What a client is told of a request that did not go out.
NotSent == {"none", "refused", "503", "202", "502"}

\* The HTTP thread has handed its request to the network.
Posted(r) == cur = r /\ hpc \in {"wait", "giveup"}

\* A call goes out in one message, so all that makes it run again is that
\* message arriving again.
OnceInv(r) ==
    /\ executed[r] <= 1 + copies
    /\ r \notin Calls => executed[r] = 0
    /\ r \in Calls /\ reply[r] \in NotSent /\ ~Posted(r) => executed[r] = 0 /\ Asking(r) = {}
    /\ r \in Calls => \A m, n \in Asking(r) : m = n
    /\ Asking(r) # {} => executed[r] <= copies

\* The HTTP thread works on a request nobody has answered.
ThreadInv ==
    /\ hpc = "idle" <=> cur = NoRequest
    /\ cur # NoRequest => reply[cur] = "none"
    /\ hpc \in Waiting \cup {"insert"} => cur \in Calls
    /\ hpc \in {"notify", "notifying"} => cur \notin Calls

RunInv == TypeOK /\ ThreadInv /\ \A r \in Requests : OnceInv(r)

LEMMA InitRun == Init => RunInv
<1> SUFFICES ASSUME Init PROVE RunInv
  OBVIOUS
<1>1. TypeOK
  BY InitType
<1>2. ThreadInv
  BY DEF Init, ThreadInv, Waiting
<1>3. \A r \in Requests : OnceInv(r)
  BY DEF Init, OnceInv, Asking
<1> QED
  BY <1>1, <1>2, <1>3 DEF RunInv

\* Only the HTTP thread and a restart touch what ThreadInv is about.
LEMMA NextThread == RunInv /\ [Next]_vars => ThreadInv'
<1> SUFFICES ASSUME RunInv, [Next]_vars PROVE ThreadInv'
  OBVIOUS
<1> USE DEF RunInv, ThreadInv, Waiting
<1>0. reply \in [Requests -> Statuses \cup Requests] /\ NoRequest \notin Requests
  BY BridgeAssumption DEF TypeOK
<1>1. ASSUME NEW r \in Requests, Accept(r) PROVE ThreadInv'
  BY <1>0, <1>1 DEF Accept, Reply
<1>2. CASE ReadBody
  BY <1>0, <1>2 DEF ReadBody, Finished
<1>3. CASE Notify \/ TakeAnswer \/ GiveUp
  BY <1>0, <1>3 DEF Notify, TakeAnswer, GiveUp, Finished
<1>4. CASE Insert \/ BeginSend \/ SendRequest \/ TimeOut
  BY <1>0, <1>4 DEF Insert, BeginSend, SendRequest, TimeOut, Finished
<1>5. ASSUME Ends PROVE ThreadInv'
  BY <1>5 DEF Ends, Finished
<1>6. CASE Udp \/ GatewayEnds \/ GatewayStarts
  BY <1>5, <1>6 DEF Udp, UpstreamCall, Receive, PostInitialize, PostInitialized, PostBody, BeginAnswer,
                    SendAnswer, GatewayEnds, GatewayStarts
<1>7. CASE Device \/ UserCommand \/ Reboot
  BY <1>7 DEF Device, DeviceSend, DeviceAnswer, DeviceReceive, UserCommand, Reboot, gateway
<1>8. CASE UNCHANGED vars
  BY <1>8 DEF vars, gateway
<1> QED
  BY <1>1, <1>2, <1>3, <1>4, <1>6, <1>7, <1>8 DEF Next, Http

LEMMA NextOnce ==
    ASSUME RunInv, [Next]_vars, NEW r \in Requests
    PROVE  OnceInv(r)'
<1> USE DEF RunInv
<1>0. /\ reply \in [Requests -> Statuses \cup Requests] /\ executed \in [Requests -> Nat]
      /\ copies \in Nat /\ NoRequest \notin Requests /\ cur \in Bodies
  BY BridgeAssumption DEF TypeOK
<1>1. ASSUME UNCHANGED <<executed, copies>>, Asking(r)' \subseteq Asking(r),
             reply'[r] \in NotSent /\ ~Posted(r)' => reply[r] \in NotSent /\ ~Posted(r)
      PROVE  OnceInv(r)'
  BY <1>1 DEF OnceInv
<1>2. ASSUME NEW q \in Requests, Accept(q) PROVE OnceInv(r)'
  <2>1. reply[q] = "none" /\ hpc = "idle"
    BY <1>2 DEF Accept
  <2>2. reply'[r] \in NotSent => reply[r] \in NotSent
    BY <1>0, <1>2, <2>1 DEF Accept, Reply, NotSent
  <2> QED
    BY <1>1, <1>2, <2>1, <2>2 DEF Accept, Asking, Posted, history
<1>3. CASE ReadBody \/ Insert \/ BeginSend
  <2>1. reply'[r] \in NotSent => reply[r] \in NotSent
    BY <1>0, <1>3 DEF ReadBody, Insert, BeginSend, Reply, ThreadInv, NotSent, Bodies
  <2> QED
    BY <1>1, <1>3, <2>1 DEF ReadBody, Insert, BeginSend, Finished, Asking, Posted, history
<1>4. CASE Notify
  <2>1. cur \notin Calls /\ reply[cur] = "none" /\ cur \in Requests
    BY <1>0, <1>4 DEF Notify, ThreadInv, Bodies
  <2>2. CASE r = cur
    <3>1. executed'[r] = 0 /\ copies' = copies
      BY <1>4, <2>1, <2>2 DEF OnceInv, Notify, history
    <3> QED
      BY <1>0, <2>1, <2>2, <3>1 DEF OnceInv
  <2>3. CASE r # cur
    <3>1. Asking(r)' \subseteq Asking(r)
      BY <1>4, <2>3 DEF Notify, SentBy, Asking, Message
    <3>2. reply'[r] = reply[r] /\ ~Posted(r) /\ ~Posted(r)'
      BY <1>0, <1>4, <2>3 DEF Notify, Reply, Finished, Posted
    <3> QED
      BY <1>1, <1>4, <3>1, <3>2 DEF Notify, history
  <2> QED
    BY <2>2, <2>3
<1>5. CASE SendRequest
  <2>1. cur \in Calls /\ reply[cur] = "none" /\ cur \in Requests /\ hpc = "sending"
    BY <1>0, <1>5 DEF SendRequest, ThreadInv, Bodies, Waiting
  <2>2. CASE hpc' = "wait"
    <3>1. /\ down' \in {down, down \cup {Message("HostRequest", mid, cur)}}
          /\ UNCHANGED <<cur, reply, executed, copies>>
      BY <1>5, <2>2 DEF SendRequest, SentBy, Finished
    <3>2. CASE r = cur
      <4>1. executed[r] = 0 /\ Asking(r) = {}
        BY <2>1, <3>2 DEF OnceInv, Posted, NotSent
      <4>2. Asking(r)' \subseteq {Message("HostRequest", mid, cur)}
        BY <3>1, <3>2, <4>1 DEF Asking, Message
      <4>3. Posted(r)'
        BY <2>2, <3>1, <3>2 DEF Posted
      <4> QED
        BY <1>0, <2>1, <3>1, <3>2, <4>1, <4>2, <4>3 DEF OnceInv
    <3>3. CASE r # cur
      <4>1. Asking(r)' \subseteq Asking(r)
        BY <3>1, <3>3 DEF Asking, Message
      <4> QED
        BY <1>1, <3>1, <3>3, <4>1 DEF Posted
    <3> QED
      BY <3>2, <3>3
  <2>3. CASE hpc' # "wait"
    <3>1. Reply(cur, "502") /\ UNCHANGED <<down, executed, copies>> /\ cur' = NoRequest
      BY <1>5, <2>3 DEF SendRequest, Finished
    <3>2. reply'[r] \in NotSent => reply[r] \in NotSent
      BY <1>0, <2>1, <3>1 DEF Reply, NotSent
    <3> QED
      BY <1>1, <2>1, <3>1, <3>2 DEF Asking, Posted
  <2> QED
    BY <2>2, <2>3
<1>6. CASE TakeAnswer
  <2>1. box \in Requests /\ cur \in Requests /\ UNCHANGED <<down, executed, copies>>
    BY <1>0, <1>6 DEF TakeAnswer, TypeOK, ThreadInv, Bodies, history
  <2>2. box \notin NotSent
    BY <2>1, BridgeAssumption DEF Statuses, NotSent
  <2>3. reply'[r] \in NotSent => reply[r] \in NotSent /\ r # cur
    BY <1>0, <1>6, <2>1, <2>2 DEF TakeAnswer, Reply
  <2> QED
    BY <1>1, <2>1, <2>3 DEF Asking, Posted
<1>7. CASE TimeOut
  BY <1>1, <1>7 DEF TimeOut, Asking, Posted, history
<1>8. CASE GiveUp
  <2>1. reply'[r] \in NotSent => reply[r] \in NotSent /\ r # cur
    BY <1>0, <1>8 DEF GiveUp, Reply, NotSent, ThreadInv, Bodies
  <2> QED
    BY <1>1, <1>8, <2>1 DEF GiveUp, Asking, Posted, history
<1>9. ASSUME Ends, UNCHANGED <<down, executed, copies>> PROVE OnceInv(r)'
  <2>1. reply'[r] \in NotSent => reply[r] \in NotSent /\ r # cur
    BY <1>9 DEF Ends, NotSent
  <2>2. ~Posted(r)'
    BY <1>9 DEF Ends, Finished, Posted
  <2> QED
    BY <1>1, <1>9, <2>1, <2>2 DEF Asking, Posted
<1>15. CASE GatewayEnds \/ GatewayStarts
  <2>1. CASE GatewayEnds
    BY <1>9, <2>1 DEF GatewayEnds, history
  <2>2. CASE GatewayStarts
    BY <1>1, <2>2 DEF GatewayStarts, Asking, Posted
  <2> QED
    BY <1>15, <2>1, <2>2
<1>10. ASSUME NEW m \in up, Receive(m) PROVE OnceInv(r)'
  <2>1. copies' \in Nat /\ copies <= copies'
    BY <1>0, <1>10 DEF Receive, Arrive
  <2>2. UNCHANGED <<down, executed, reply, cur, hpc>>
    BY <1>10 DEF Receive
  <2> QED
    BY <1>0, <2>1, <2>2 DEF OnceInv, Asking, Posted
<1>11. CASE UpstreamCall
  <2>1. CASE Ends /\ \E o \in Outcomes : PostBody(o)
    BY <1>9, <2>1 DEF PostBody, history
  <2>2. CASE ~Ends \/ ~\E o \in Outcomes : PostBody(o)
    <3>1. Asking(r)' \subseteq Asking(r)
      BY <1>11, <2>2 DEF UpstreamCall, PostInitialize, PostInitialized, PostBody, BeginAnswer,
                         SendAnswer, SentBy, Asking, Message
    <3>2. UNCHANGED <<executed, copies, reply, cur, hpc>>
      BY <1>11, <2>2 DEF UpstreamCall, PostInitialize, PostInitialized, PostBody, BeginAnswer,
                         SendAnswer, history
    <3> QED
      BY <1>1, <3>1, <3>2 DEF Posted
  <2> QED
    BY <2>1, <2>2
<1>12. ASSUME NEW m \in down, DeviceReceive(m) PROVE OnceInv(r)'
  <2>1. /\ UNCHANGED <<reply, cur, hpc>> /\ copies' \in Nat
        /\ \/ copies' = copies /\ down' = down \ {m}
           \/ copies' = copies + 1 /\ down' = down
    BY <1>0, <1>12 DEF DeviceReceive, Arrive, gateway
  <2>2. Asking(r)' \subseteq Asking(r) /\ Posted(r)' = Posted(r)
    BY <2>1 DEF Asking, Posted
  <2>3. CASE m.kind = "HostRequest" /\ m.body = r /\ r \in Calls \ Big
    <3>1. m \in Asking(r) /\ r \in Calls
      BY <2>3 DEF Asking
    <3>2. executed'[r] = executed[r] + 1
      BY <1>0, <1>12, <2>3 DEF DeviceReceive
    <3>3. executed[r] <= copies /\ ~(reply[r] \in NotSent /\ ~Posted(r))
      BY <3>1 DEF OnceInv
    <3>4. CASE copies' = copies /\ down' = down \ {m}
      <4>1. Asking(r)' = {}
        BY <3>1, <3>4 DEF OnceInv, Asking
      <4> QED
        BY <1>0, <2>1, <2>2, <3>1, <3>2, <3>3, <3>4, <4>1 DEF OnceInv
    <3>5. CASE copies' = copies + 1 /\ down' = down
      BY <1>0, <2>1, <2>2, <3>1, <3>2, <3>3, <3>5 DEF OnceInv
    <3> QED
      BY <2>1, <3>4, <3>5
  <2>4. CASE ~(m.kind = "HostRequest" /\ m.body = r /\ r \in Calls \ Big)
    <3>1. executed'[r] = executed[r]
      BY <1>0, <1>12, <2>4 DEF DeviceReceive
    <3> QED
      BY <1>0, <2>1, <2>2, <3>1 DEF OnceInv
  <2> QED
    BY <2>3, <2>4
<1>13. CASE DeviceSend \/ DeviceAnswer \/ UserCommand \/ Reboot
  BY <1>1, <1>13 DEF DeviceSend, DeviceAnswer, UserCommand, Reboot, gateway, history, Asking, Posted
<1>14. CASE UNCHANGED vars
  BY <1>1, <1>14 DEF vars, gateway, history, Asking, Posted
<1> QED
  BY <1>2, <1>3, <1>4, <1>5, <1>6, <1>7, <1>8, <1>10, <1>11, <1>12, <1>13, <1>14, <1>15
     DEF Next, Http, Udp, Device

\* The device runs a request once, and once more for each time the network
\* delivers a message again at most; one that was refused or not sent it does
\* not run at all.  This holds over any number of restarts of both sides.
THEOREM RunsOnce == Spec => []RunOnce
<1>1. RunInv /\ [Next]_vars => RunInv'
  BY NextType, NextThread, NextOnce DEF RunInv
<1>2. RunInv => RunOnce
  <2> SUFFICES ASSUME RunInv, NEW r \in Requests
               PROVE  /\ executed[r] <= 1 + copies
                      /\ reply[r] \in {"refused", "503", "202", "502"} => executed[r] = 0
    BY DEF RunOnce
  <2>1. Posted(r) => reply[r] = "none"
    BY BridgeAssumption DEF RunInv, ThreadInv, Posted
  <2> QED
    BY <2>1 DEF RunInv, OnceInv, NotSent
<1> QED
  BY <1>1, <1>2, InitRun, PTL DEF Spec

-----------------------------------------------------------------------------
(* The upstream server *)

\* The flag stands for a finished initialization; without it a request waits
\* until both halves are done.
LifecycleInv ==
    /\ initialized => server = "ready"
    /\ upc \in {"init", "initialized"} => ~initialized
    /\ InitBeforeForward

\* No request of the device is forwarded to the MCP server before the server
\* has seen both halves of the initialization.
THEOREM InitializedFirst == Spec => []InitBeforeForward
<1> USE DEF LifecycleInv, InitBeforeForward
<1>1. Init => LifecycleInv
  BY DEF Init
<1>2. LifecycleInv /\ [Next]_vars => LifecycleInv'
  <2> SUFFICES ASSUME LifecycleInv, [Next]_vars PROVE LifecycleInv'
    OBVIOUS
  <2>1. ASSUME NEW m \in up, Receive(m) PROVE LifecycleInv'
    BY <2>1 DEF Receive
  <2>2. ASSUME NEW o \in Outcomes, PostInitialize(o) PROVE LifecycleInv'
    BY <2>2 DEF PostInitialize
  <2>3. ASSUME NEW o \in Outcomes, PostInitialized(o) PROVE LifecycleInv'
    BY <2>3 DEF PostInitialized
  <2>4. ASSUME NEW o \in Outcomes, PostBody(o) PROVE LifecycleInv'
    BY <2>4 DEF PostBody, Ends
  <2>5. CASE BeginAnswer \/ SendAnswer \/ GatewayEnds \/ GatewayStarts
    BY <2>5 DEF BeginAnswer, SendAnswer, GatewayEnds, GatewayStarts, Ends
  <2>6. CASE Http \/ \E r \in Requests : Accept(r)
    BY <2>6 DEF Http, Accept, ReadBody, BeginSend, Notify, Insert, SendRequest, TakeAnswer, TimeOut, GiveUp
  <2>7. CASE Device \/ UserCommand \/ Reboot
    BY <2>7 DEF Device, DeviceSend, DeviceAnswer, DeviceReceive, UserCommand, Reboot, gateway
  <2>8. CASE UNCHANGED vars
    BY <2>8 DEF vars, gateway
  <2> QED
    BY <2>1, <2>2, <2>3, <2>4, <2>5, <2>6, <2>7, <2>8 DEF Next, Udp, UpstreamCall
<1>3. LifecycleInv => InitBeforeForward
  OBVIOUS
<1> QED
  BY <1>1, <1>2, <1>3, PTL DEF Spec
=============================================================================
