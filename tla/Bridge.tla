------------------------------- MODULE Bridge -------------------------------
(***************************************************************************)
(* The MCP bridge: an HTTP client's JSON-RPC request goes through the      *)
(* gateway (tools/nrmcp-gateway/src/main.rs) to the appliance and its      *)
(* answer back, while the user of the appliance calls a remote MCP server  *)
(* the other way (crates/nr-boot/src/network.rs and service_mcp,           *)
(* handle_inbound_mcp and queue_mcp_request in app.rs).                    *)
(*                                                                         *)
(* The gateway is two threads: the HTTP thread serves one request at a     *)
(* time, the UDP loop handles one message at a time, upstream calls with   *)
(* it.  Each lock, atomic or blocking call is a step, and sending a        *)
(* message takes time: two messages sent at once mix their datagrams.      *)
(* Between the two machines are the links that module Nrmp implements, on  *)
(* a network that damages no header: "down" and "up" are the messages on   *)
(* their way, any of which may arrive late, out of order, more than once,  *)
(* or never.                                                               *)
(***************************************************************************)
EXTENDS Integers, Sequences, FiniteSets

CONSTANTS
    Requests,       \* the HTTP requests clients make
    Calls,          \* those with a JSON-RPC id; the others are notifications
    BadHead,        \* those refused with 403, 401 or 405
    BadBody,        \* those refused with 413 or 400
    Big,            \* those over the device's 32 KiB
    BigAnswer,      \* those whose answer is over the device's 32 KiB
    NoRequest,
    Scenarios,      \* the circumstances the bridge runs in, see env
    MaxRestarts,    \* bound on the times the gateway is started again
    MaxReboots,     \* bound on the times the device is
    MaxCopies,      \* bound on the times the network delivers a message again
    MaxRuns         \* bound on how often the device runs one request

\* What a request to the upstream server may come to: a response, an error, a
\* response without a body, or nothing ever, as it is made without a time-out.
Outcomes == {"ok", "error", "empty", "hang"}

\* What a client may get besides the device's answer.
Statuses == {"none", "refused", "503", "202", "502", "504", "reset"}

ASSUME BridgeAssumption ==
    /\ Calls \subseteq Requests /\ BadHead \subseteq Requests /\ BadBody \subseteq Requests
    /\ Big \subseteq Requests /\ BigAnswer \subseteq Requests /\ NoRequest \notin Requests
    /\ Statuses \cap (Requests \cup {NoRequest}) = {}
    /\ Scenarios \subseteq [requests : SUBSET Requests, calm : BOOLEAN,
                             upstream : SUBSET Outcomes, commands : Nat]
    /\ MaxRestarts \in Nat /\ MaxReboots \in Nat
    /\ MaxCopies \in Nat /\ MaxRuns \in Nat

VARIABLES
    env,            \* the requests that are made; whether all is calm: nobody restarts, nothing
                    \*   is delivered again and 600 s do not pass; what the upstream server
                    \*   may do, {} without --upstream; bound on the user's /mcp commands
    down, up,       \* messages on their way to the device, to the gateway
    \* the gateway: shared state, HTTP thread, UDP loop
    ids, pending, peer,
    hpc, cur, mid, box,
    upc, dreq, initialized,
    crossed,        \* the threads whose message is being sent while another is, or was
    server,         \* the upstream server's side of the MCP lifecycle
    \* the device: Network.pending, next_message_id and the message served
    queue, nextId, serving,
    \* what clients got, what the device ran, how often both were started again,
    \* how often a message was delivered again, whose messages another broke up
    reply, executed, restarts, reboots, copies, garbled

gateway == <<ids, pending, peer, hpc, cur, mid, box, upc, dreq, initialized, crossed>>
device  == <<queue, nextId, serving>>
history == <<env, executed, restarts, reboots, copies, garbled>>
vars    == <<down, up, gateway, server, device, reply, history>>

Message(k, i, b) == [kind |-> k, id |-> i, body |-> b]
Hello            == Message("Hello", 0, NoRequest)
NoMsg            == Hello                   \* no message is being served

\* The message m of a link arrives: it is gone, or will be delivered again.
Arrive(link, rest, m) ==
    /\ m \in link
    /\ \/ rest = link \ {m} /\ UNCHANGED copies
       \/ ~env.calm /\ copies < MaxCopies /\ copies' = copies + 1 /\ rest = link

Init ==
    /\ env \in Scenarios
    /\ down = {} /\ up = {}
    /\ ids = 1 /\ pending = {} /\ peer = FALSE
    /\ hpc = "idle" /\ cur = NoRequest /\ mid = 0 /\ box = NoRequest
    /\ upc = "recv" /\ dreq = NoMsg /\ initialized = FALSE
    /\ server = "new"
    /\ queue = <<Hello>> /\ nextId = 1 /\ serving = NoMsg
    /\ reply = [r \in Requests |-> "none"]
    /\ executed = [r \in Requests |-> 0] /\ restarts = 0 /\ reboots = 0 /\ copies = 0
    /\ crossed = {} /\ garbled = {}

-----------------------------------------------------------------------------
(* handle_http *)

Reply(r, x) == reply' = [reply EXCEPT ![r] = x]

\* The thread is done with its request.
Finished == hpc' = "idle" /\ cur' = NoRequest /\ mid' = 0 /\ box' = NoRequest

\* Method, path, origin and token, then the device's address; without one
\* the client gets 503.
Accept(r) ==
    /\ r \in env.requests
    /\ hpc = "idle" /\ upc # "ended" /\ reply[r] = "none"
    /\ \/ r \in BadHead /\ Reply(r, "refused") /\ UNCHANGED <<hpc, cur>>
       \/ r \notin BadHead /\ ~peer /\ Reply(r, "503") /\ UNCHANGED <<hpc, cur>>
       \/ r \notin BadHead /\ peer /\ hpc' = "body" /\ cur' = r /\ UNCHANGED reply
    /\ UNCHANGED <<down, up, ids, pending, peer, mid, box, upc, dreq, initialized, crossed,
                   server, device, history>>

\* The body is read and checked, then the message gets its id.
ReadBody ==
    /\ hpc = "body"
    /\ \/ /\ cur \in BadBody
          /\ Reply(cur, "refused") /\ Finished
          /\ UNCHANGED ids
       \/ /\ cur \notin BadBody
          /\ mid' = ids /\ ids' = ids + 1
          /\ hpc' = IF cur \in Calls THEN "insert" ELSE "notify"
          /\ UNCHANGED <<cur, box, reply>>
    /\ UNCHANGED <<down, up, pending, peer, upc, dreq, initialized, crossed, server, device, history>>

\* send_message, for either thread: a message that is sent while another is may
\* be broken up by it, for the device's Reassembler drops what is incomplete
\* when a fragment of another message arrives.
Overlap(other) == crossed' = IF other THEN {"http", "udp"} ELSE crossed
SentBy(t, m) ==
    /\ crossed' = crossed \ {t}
    /\ \/ down' = down \cup {m} /\ UNCHANGED garbled
       \/ t \in crossed /\ garbled' = garbled \cup {m.body} /\ UNCHANGED down

\* The HTTP thread starts to send.
BeginSend ==
    /\ hpc \in {"notify", "send"}
    /\ hpc' = IF hpc = "notify" THEN "notifying" ELSE "sending"
    /\ Overlap(upc = "sending")
    /\ UNCHANGED <<down, up, ids, pending, peer, cur, mid, box, upc, dreq, initialized,
                   server, device, reply, history>>

\* A notification is sent and forgotten; a socket error is a 502.
Notify ==
    /\ hpc = "notifying"
    /\ \/ SentBy("http", Message("HostRequest", mid, cur)) /\ Reply(cur, "202")
       \/ crossed' = crossed \ {"http"} /\ UNCHANGED <<down, garbled>> /\ Reply(cur, "502")
    /\ Finished
    /\ UNCHANGED <<up, ids, pending, peer, upc, dreq, initialized, server, device,
                   env, executed, restarts, reboots, copies>>

\* Mutant of Insert: the entry is forgotten.
InsertNothing ==
    /\ hpc = "insert"
    /\ hpc' = "send"
    /\ UNCHANGED <<down, up, ids, pending, peer, cur, mid, box, upc, dreq, initialized, crossed,
                   server, device, reply, history>>

Insert ==
    /\ hpc = "insert"
    /\ pending' = pending \cup {mid}
    /\ hpc' = "send"
    /\ UNCHANGED <<down, up, ids, peer, cur, mid, box, upc, dreq, initialized, crossed,
                   server, device, reply, history>>

SendRequest ==
    /\ hpc = "sending"
    /\ \/ /\ SentBy("http", Message("HostRequest", mid, cur))
          /\ hpc' = "wait"
          /\ UNCHANGED <<pending, cur, mid, box, reply>>
       \/ /\ pending' = pending \ {mid}
          /\ Reply(cur, "502") /\ Finished
          /\ crossed' = crossed \ {"http"} /\ UNCHANGED <<down, garbled>>
    /\ UNCHANGED <<up, ids, peer, upc, dreq, initialized, server, device,
                   env, executed, restarts, reboots, copies>>

\* recv_timeout returns the answer or gives up.
TakeAnswer ==
    /\ hpc = "wait" /\ box # NoRequest
    /\ Reply(cur, box) /\ Finished
    /\ UNCHANGED <<down, up, ids, pending, peer, upc, dreq, initialized, crossed, server, device, history>>
\* Mutants of TimeOut: the request is sent again; recv is called instead.
TimeOutRetries ==
    /\ hpc = "wait" /\ box = NoRequest /\ ~env.calm
    /\ hpc' = "send"
    /\ UNCHANGED <<down, up, ids, pending, peer, cur, mid, box, upc, dreq, initialized, crossed,
                   server, device, reply, history>>
TimeOutNever == FALSE /\ UNCHANGED vars

TimeOut ==
    /\ hpc = "wait" /\ box = NoRequest /\ ~env.calm
    /\ hpc' = "giveup"
    /\ UNCHANGED <<down, up, ids, pending, peer, cur, mid, box, upc, dreq, initialized, crossed,
                   server, device, reply, history>>
\* Mutant of GiveUp: the entry stays.
GiveUpKeepsEntry ==
    /\ hpc = "giveup"
    /\ Reply(cur, "504") /\ Finished
    /\ UNCHANGED <<down, up, ids, pending, peer, upc, dreq, initialized, crossed, server, device, history>>

GiveUp ==
    /\ hpc = "giveup"
    /\ pending' = pending \ {mid}
    /\ Reply(cur, "504") /\ Finished
    /\ UNCHANGED <<down, up, ids, peer, upc, dreq, initialized, crossed, server, device, history>>

-----------------------------------------------------------------------------
(* The UDP loop of main *)
\* Mutant of Receive: a response goes to whoever is waiting.
ReceiveForAnyone(m) ==
    /\ upc = "recv"
    /\ Arrive(up, up', m)
    /\ peer' = TRUE
    /\ \/ m.kind = "Hello" /\ UNCHANGED <<pending, box, upc, dreq>>
       \/ /\ m.kind = "DeviceResponse"
          /\ pending' = {}
          /\ box' = IF pending # {} THEN m.body ELSE box
          /\ UNCHANGED <<upc, dreq>>
       \/ /\ m.kind = "DeviceRequest"
          /\ dreq' = m
          /\ upc' = IF env.upstream = {} THEN "answer" ELSE IF initialized THEN "post" ELSE "init"
          /\ UNCHANGED <<pending, box>>
    /\ UNCHANGED <<down, ids, hpc, cur, mid, initialized, crossed, server, device, reply,
                   env, executed, restarts, reboots, garbled>>

\* Hello and DeviceResponse; the entry is removed and its channel filled under
\* the lock, an answer nobody waits for is dropped.
Receive(m) ==
    /\ upc = "recv"
    /\ Arrive(up, up', m)
    /\ peer' = TRUE
    /\ \/ m.kind = "Hello" /\ UNCHANGED <<pending, box, upc, dreq>>
       \/ /\ m.kind = "DeviceResponse"
          /\ pending' = pending \ {m.id}
          /\ box' = IF m.id \in pending THEN m.body ELSE box
          /\ UNCHANGED <<upc, dreq>>
       \/ /\ m.kind = "DeviceRequest"
          /\ dreq' = m
          /\ upc' = IF env.upstream = {} THEN "answer" ELSE IF initialized THEN "post" ELSE "init"
          /\ UNCHANGED <<pending, box>>
    /\ UNCHANGED <<down, ids, hpc, cur, mid, initialized, crossed, server, device, reply,
                   env, executed, restarts, reboots, garbled>>

\* ensure_initialized: the initialize request, then the notification.  The
\* server may have acted on a request whose response is lost or never comes; a
\* response without a body is none to the first and as good as any to the other.
PostInitialize(o) ==
    /\ upc = "init"
    /\ o \in env.upstream
    /\ server' \in {"asked"} \cup (IF o = "ok" THEN {} ELSE {server})
    /\ upc' = CASE o = "ok" -> "initialized" [] o = "hang" -> "hung" [] OTHER -> "answer"
    /\ UNCHANGED <<down, up, ids, pending, peer, hpc, cur, mid, box, dreq, initialized, crossed,
                   device, reply, history>>

\* Mutant of PostInitialized: the flag is set whether or not it succeeded.
PostInitializedAnyway(o) ==
    /\ upc = "initialized"
    /\ o \in env.upstream
    /\ server' \in {"ready"} \cup (IF o \in {"ok", "empty"} THEN {} ELSE {server})
    /\ initialized' = TRUE
    /\ upc' = CASE o \in {"ok", "empty"} -> "post" [] o = "hang" -> "hung" [] OTHER -> "answer"
    /\ UNCHANGED <<down, up, ids, pending, peer, hpc, cur, mid, box, dreq, crossed,
                   device, reply, history>>

PostInitialized(o) ==
    /\ upc = "initialized"
    /\ o \in env.upstream
    /\ server' \in {"ready"} \cup (IF o \in {"ok", "empty"} THEN {} ELSE {server})
    /\ initialized' = (o \in {"ok", "empty"})
    /\ upc' = CASE o \in {"ok", "empty"} -> "post" [] o = "hang" -> "hung" [] OTHER -> "answer"
    /\ UNCHANGED <<down, up, ids, pending, peer, hpc, cur, mid, box, dreq, crossed,
                   device, reply, history>>

\* The process is gone, and the HTTP thread with it; clients see the connection
\* close.
Ends ==
    /\ reply' = [r \in Requests |-> IF r = cur THEN "reset" ELSE reply[r]]
    /\ pending' = {} /\ peer' = FALSE /\ crossed' = {}
    /\ Finished
    /\ upc' = "ended" /\ dreq' = NoMsg /\ initialized' = FALSE

\* post(body): a response or an error becomes the answer.  There is no answer
\* without a body: fragment_count refuses it, and main returns.
PostBody(o) ==
    /\ upc = "post"
    /\ o \in env.upstream
    /\ \/ /\ o \in {"ok", "error"} /\ upc' = "answer"
          /\ UNCHANGED <<pending, peer, hpc, cur, mid, box, dreq, initialized, crossed, reply>>
       \/ /\ o = "hang" /\ upc' = "hung"
          /\ UNCHANGED <<pending, peer, hpc, cur, mid, box, dreq, initialized, crossed, reply>>
       \/ o = "empty" /\ Ends
    /\ UNCHANGED <<down, up, ids, server, device, history>>

\* The answer goes back under the request's id.
BeginAnswer ==
    /\ upc = "answer"
    /\ upc' = "sending"
    /\ Overlap(hpc \in {"notifying", "sending"})
    /\ UNCHANGED <<down, up, ids, pending, peer, hpc, cur, mid, box, dreq, initialized,
                   server, device, reply, history>>

SendAnswer ==
    /\ upc = "sending"
    /\ SentBy("udp", Message("HostResponse", dreq.id, NoRequest))
    /\ upc' = "recv" /\ dreq' = NoMsg
    /\ UNCHANGED <<up, ids, pending, peer, hpc, cur, mid, box, initialized,
                   server, device, reply, env, executed, restarts, reboots, copies>>

\* main returns for a socket error, or the process is stopped.
GatewayEnds ==
    /\ ~env.calm /\ upc # "ended"
    /\ Ends
    /\ UNCHANGED <<down, up, ids, server, device, history>>

\* A new process starts from nothing.
GatewayStarts ==
    /\ ~env.calm /\ upc = "ended" /\ restarts < MaxRestarts
    /\ restarts' = restarts + 1
    /\ upc' = "recv" /\ ids' = 1
    /\ UNCHANGED <<down, up, pending, peer, hpc, cur, mid, box, dreq, initialized, crossed,
                   server, device, reply, env, executed, reboots, copies, garbled>>

-----------------------------------------------------------------------------
(* The device *)

\* poll_stack sends the front of the queue.
DeviceSend ==
    /\ serving = NoMsg /\ queue # <<>>
    /\ up' = up \cup {Head(queue)}
    /\ queue' = Tail(queue)
    /\ UNCHANGED <<down, gateway, server, nextId, serving, reply, history>>

\* service_mcp takes a message.  A HostResponse becomes a turn, a
\* notification is ignored; the reassembler refused what is too large.
DeviceReceive(m) ==
    /\ serving = NoMsg
    /\ Arrive(down, down', m)
    /\ IF m.kind = "HostRequest" /\ m.body \in Calls \ Big
       THEN /\ executed[m.body] < MaxRuns
            /\ serving' = m /\ executed' = [executed EXCEPT ![m.body] = @ + 1]
       ELSE UNCHANGED <<serving, executed>>
    /\ UNCHANGED <<up, gateway, server, queue, nextId, reply, env, restarts, reboots, garbled>>

\* handle_inbound_mcp returns and the response is queued, or refused.
DeviceAnswer ==
    /\ serving # NoMsg
    /\ queue' = IF serving.body \in BigAnswer THEN queue
                ELSE Append(queue, Message("DeviceResponse", serving.id, serving.body))
    /\ serving' = NoMsg
    /\ UNCHANGED <<down, up, gateway, server, nextId, reply, history>>

\* /mcp-list or /mcp-call
UserCommand ==
    /\ serving = NoMsg /\ nextId <= env.commands
    /\ queue' = Append(queue, Message("DeviceRequest", nextId, NoRequest))
    /\ nextId' = nextId + 1
    /\ UNCHANGED <<down, up, gateway, server, serving, reply, history>>

\* Power cycle: Network::init announces the device again.
Reboot ==
    /\ ~env.calm /\ reboots < MaxReboots
    /\ reboots' = reboots + 1
    /\ queue' = <<Hello>> /\ nextId' = 1 /\ serving' = NoMsg
    /\ UNCHANGED <<down, up, gateway, server, reply, env, executed, restarts, copies, garbled>>

-----------------------------------------------------------------------------
Http     == ReadBody \/ Insert \/ BeginSend \/ Notify \/ SendRequest \/ TakeAnswer \/ TimeOut \/ GiveUp
UpstreamCall == \/ \E o \in Outcomes : PostInitialize(o) \/ PostInitialized(o) \/ PostBody(o)
                \/ BeginAnswer \/ SendAnswer
Udp      == (\E m \in up : Receive(m)) \/ UpstreamCall
Device   == DeviceSend \/ DeviceAnswer \/ \E m \in down : DeviceReceive(m)

Next ==
    \/ \E r \in Requests : Accept(r)
    \/ Http \/ Udp \/ Device \/ UserCommand
    \/ GatewayEnds \/ GatewayStarts \/ Reboot

Spec == Init /\ [][Next]_vars

\* The HTTP thread runs.  Of the network, the UDP loop and the device this is
\* assumed only when all is calm: then they run and messages arrive.  A call of
\* the upstream server comes to one of its outcomes, "hang" among them.
FairSpec == Spec /\ WF_vars(Http) /\ WF_vars(env.calm /\ Udp) /\ WF_vars(env.calm /\ Device)

-----------------------------------------------------------------------------
Bodies   == Requests \cup {NoRequest}
Kinds    == {"Hello", "HostRequest", "DeviceResponse", "DeviceRequest", "HostResponse"}
Messages == [kind : Kinds, id : Nat, body : Bodies]

\* The types of the gateway's and the device's state.
TypeOK ==
    /\ down \subseteq Messages /\ up \subseteq Messages
    /\ ids \in Nat /\ pending \subseteq Nat /\ peer \in BOOLEAN
    /\ hpc \in {"idle", "body", "notify", "notifying", "insert", "send", "sending", "wait", "giveup"}
    /\ cur \in Bodies /\ mid \in Nat /\ box \in Bodies
    /\ upc \in {"recv", "init", "initialized", "post", "answer", "sending", "hung", "ended"}
    /\ crossed \subseteq {"http", "udp"} /\ garbled \subseteq Bodies
    /\ dreq \in Messages /\ initialized \in BOOLEAN
    /\ server \in {"new", "asked", "ready"}
    /\ queue \in Seq(Messages) /\ nextId \in Nat /\ serving \in Messages
    /\ reply \in [Requests -> Statuses \cup Requests]
    /\ executed \in [Requests -> Nat] /\ restarts \in 0..MaxRestarts /\ reboots \in 0..MaxReboots
    /\ copies \in 0..MaxCopies

\* As long as the gateway is not started again, a client that is answered by
\* the device gets the answer to its own request, whatever was timed out,
\* duplicated or delayed before (handle_http, the pending map and the ids).
\* A new gateway numbers its requests from 1 again, and a late answer to an old
\* request may then be taken for that to a new one.
AnswerMatches == restarts = 0 => \A r \in Requests : reply[r] \notin Statuses => reply[r] = r

\* The pending map holds at most the request the HTTP thread is working on:
\* no entry is left behind by a timeout, a failed send or a late answer.
NoLeak == /\ pending \subseteq {mid}
          /\ hpc \notin {"send", "sending", "wait", "giveup"} => pending = {}

\* A request is run once, and once more for a message the network delivers
\* again at most: the gateway never sends a request a second time, neither
\* when it times out nor when it or the device is started again.  One that was
\* refused, or could not be sent, is not run at all.
RunOnce ==
    \A r \in Requests : /\ executed[r] <= 1 + copies
                        /\ reply[r] \in {"refused", "503", "202", "502"} => executed[r] = 0

\* "The gateway performs MCP initialization and session propagation before
\* forwarding NightRun's first request" (docs/mcp.md): when a request is
\* forwarded the server has seen both halves of the initialization, also after
\* either half failed or the gateway was restarted.
InitBeforeForward == upc = "post" => server = "ready"

\* Every HTTP request that was taken up is answered with something, whatever
\* becomes of its message, of the device or of the answer, and also while the
\* UDP loop hangs in an upstream call.
RequestEnds == (~env.calm /\ hpc # "idle") ~> (hpc = "idle")

\* If messages that are sent alone arrive and the ten minutes do not pass, a
\* request the device can carry and answer is answered by it, unless the other
\* direction gets in its way in one of three ways: an answer being sent at the
\* same time broke up its message, the upstream server never responds to a call
\* made in the UDP loop, or its empty response ends main.
AnswerArrives ==
    \A r \in Calls \ (Big \cup BigAnswer) :
        (env.calm /\ hpc = "wait" /\ cur = r)
            ~> (reply[r] = r \/ r \in garbled \/ upc \in {"hung", "ended"})
=============================================================================
