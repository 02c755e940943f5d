------------------------------ MODULE Client ------------------------------
(***************************************************************************)
(* One command of the CLI, from the dial to its report: internal/cliclient *)
(* (client.go, router.go, the handlers) and the run functions of           *)
(* cmd/agbridge that call Invoke.  Two goroutines of the client share a    *)
(* connection: the handler sends the request and waits for its frames, and *)
(* runReader hands it the frames of its ReqID through a bounded channel.   *)
(*                                                                         *)
(* The gateway and the daemon are one peer at the far end of two FIFO      *)
(* links: handleBridge admits, refuses or evicts the client, and a tool of *)
(* the daemon serves the request, fails, or is never heard of again.       *)
(* Encryption is in module Channel, the gateway in Gateway, the tools that *)
(* receive chunks in DaemonSession.                                        *)
(***************************************************************************)
EXTENDS Naturals, Sequences

CONSTANTS
    Kinds,      \* the handlers considered
    Last,       \* data frames of a transfer; the last one carries Eof
    CallCap,    \* capacity of a pending call's channel (64)
    Modes       \* whether Options.E2EMode asks for a Noise handshake

Streaming == {"exec", "read", "download"}   \* the daemon sends the data
Sending == {"write", "upload"}              \* the client sends the data
OneShot == {"edit", "stat", "list", "search", "capabilities"}

ASSUME KindAssumption == Kinds \subseteq Streaming \cup Sending \cup OneShot
ASSUME BoundAssumption == Last \in Nat \ {0} /\ CallCap \in Nat \ {0}
ASSUME ModeAssumption == Modes \subseteq BOOLEAN

Frame(t, k) == [t |-> t, k |-> k]
DataFrames == [t : {"data"}, k : 1 .. Last]
UpFrames == [t : {"hello", "noise", "req"}, k : {0}] \cup DataFrames
DownFrames == [t : {"ack", "resp", "error", "complete", "fail"}, k : {0}] \cup DataFrames
\* Data frames 1 .. n in order.
UpTo(n) == [k \in 1 .. n |-> k]

VARIABLES
    kind,    \* the handler this command runs
    e2e,     \* whether it is to make a Noise handshake
    pc,      \* where the command's goroutine is
    timer,   \* the command's context: "live", or "done" (deadline or signal)
    writing, \* whether the command's goroutine is inside WriteMessage
    conn,    \* the client's connection: "none", "open", "broken" or "closed"
    stalled, \* whether the far end has stopped taking bytes
    up,      \* frames on their way to the peer
    down,    \* frames on their way to the client
    rd,      \* where runReader is
    hand,    \* the frame runReader looked a channel up for
    pend,    \* whether the call is in Router.pending
    ch,      \* contents of its channel
    got,     \* output or content the handler has collected
    next,    \* the next data frame the handler sends
    local,   \* the file at dest_path: not touched, or the frames written to it
    result,  \* what the command reports
    peer,    \* what the gateway makes of this connection
    tool,    \* what the daemon makes of the request
    served,  \* data frames the tool has sent
    stored,  \* data frames the tool has received
    ran      \* how often the daemon carried the request out

mainVars == <<kind, e2e, pc, got, next, local, result>>
readerVars == <<rd, hand>>
callVars == <<pend, ch>>
peerVars == <<peer, tool, served, stored, ran>>
netVars == <<timer, stalled, writing>>
vars == <<mainVars, netVars, conn, up, down, readerVars, callVars, peerVars>>

\* r.ctx, the readerCtx of dial: cancelled by the command's context or by Close.
ReaderCtxDone == timer = "done" \/ conn = "closed"
\* dest_path before it is truncated.
Untouched == <<0>>

(* Conn.Send looks at the context once, on entry, and then writes for as long *)
(* as it takes: a far end that takes no bytes holds it past any deadline, and *)
(* the keepalive waits behind it for the write lock.  Only the loss of the    *)
(* connection makes the write fail.                                           *)

BeginWrite ==
    /\ pc \in {"noise", "request", "chunks"} /\ timer = "live"
    /\ ~writing /\ writing' = TRUE
    /\ UNCHANGED <<mainVars, timer, stalled, conn, up, down, readerVars, callVars, peerVars>>

Blocked == writing /\ stalled /\ conn = "open"
Written == writing /\ ~stalled /\ conn = "open"
SendFails == IF writing THEN conn # "open" ELSE timer = "done"
EndWrite == writing' = FALSE /\ UNCHANGED <<timer, stalled>>
-----------------------------------------------------------------------------
(* dial *)

\* Invoke returns dial's error, and the command reports retry_safe: true.
DialFails ==
    /\ conn' = "closed" /\ pc' = "done" /\ result' = "retry_safe"

\* wss.Dial, Send of the Hello, and the entry into Recv, at which the context
\* is looked at for the last time.
Dial ==
    /\ pc = "dial"
    /\ LET said == Append(up, Frame("hello", 0)) IN
       \/ DialFails /\ up' \in {up, said}
       \/ timer = "live" /\ conn' = "open" /\ pc' = "ack" /\ up' = said /\ UNCHANGED result
    /\ UNCHANGED <<kind, e2e, got, next, local, netVars, down, readerVars, callVars, peerVars>>

\* The Router and its reader: from here on runReader owns Recv.
StartRouter == pc' = "request" /\ rd' = "recv" /\ UNCHANGED <<conn, result>>

\* Recv of the HelloAck, which no deadline interrupts.  Then the Router, or
\* handshakeE2E, which loads the keys first.
RecvAck ==
    /\ pc = "ack" /\ down # <<>> /\ down' = Tail(down)
    /\ \/ Head(down).t # "ack" /\ DialFails /\ UNCHANGED rd
       \/ Head(down).t = "ack" /\ ~e2e /\ StartRouter
       \/ Head(down).t = "ack" /\ e2e /\ DialFails /\ UNCHANGED rd
       \/ Head(down).t = "ack" /\ e2e /\ pc' = "noise" /\ UNCHANGED <<conn, result, rd>>
    /\ UNCHANGED <<kind, e2e, got, next, local, netVars, up, hand, callVars, peerVars>>

\* handshakeE2E: the NoiseInit is written, or not, and Recv looks at the context.
SendNoise ==
    /\ pc = "noise" /\ EndWrite
    /\ \/ /\ Written /\ up' = Append(up, Frame("noise", 0))
          /\ IF timer = "live" THEN pc' = "resp" /\ UNCHANGED <<conn, result>> ELSE DialFails
       \/ SendFails /\ DialFails /\ UNCHANGED up
    /\ UNCHANGED <<kind, e2e, got, next, local, down, readerVars, callVars, peerVars>>

\* Recv of the NoiseResp, uninterrupted as well.  The answer is a refusal, or
\* cannot be read; or the Router fails to load the keys again.
RecvResp ==
    /\ pc = "resp" /\ down # <<>> /\ down' = Tail(down)
    /\ \/ Head(down).t = "resp" /\ StartRouter
       \/ DialFails /\ UNCHANGED rd
    /\ UNCHANGED <<kind, e2e, got, next, local, netVars, up, hand, callVars, peerVars>>

\* The connection is lost: Recv fails.
RecvFails ==
    /\ pc \in {"ack", "resp"} /\ conn = "broken"
    /\ DialFails
    /\ UNCHANGED <<kind, e2e, got, next, local, netVars, up, down, readerVars, callVars, peerVars>>
-----------------------------------------------------------------------------
(* The handlers *)

\* The handler returns: its call is unregistered, and Invoke's deferred Close follows.
Return(r) == pc' = "close" /\ result' = r /\ pend' = FALSE

AfterRequest ==
    CASE kind = "download" -> "create"
      [] kind \in Sending -> "chunks"
      [] OTHER -> "wait"

\* Faulty variant: a request that could not be sent to the end counts as a failed dial.
Request_ReportsDial ==
    /\ pc = "request" /\ EndWrite
    /\ \/ /\ Written /\ up' = Append(up, Frame("req", 0))
          /\ \/ pc' = AfterRequest /\ pend' = TRUE /\ UNCHANGED result
             \/ Return("retry_safe")
       \/ SendFails /\ Return("failed") /\ UNCHANGED up
    /\ ch' = <<>>
    /\ UNCHANGED <<kind, e2e, got, next, local, conn, down, readerVars, peerVars>>

\* registerCall, then sendInner of the request.
Request ==
    /\ pc = "request" /\ EndWrite
    /\ \/ /\ Written /\ up' = Append(up, Frame("req", 0))
          /\ pc' = AfterRequest /\ pend' = TRUE /\ UNCHANGED result
       \/ SendFails /\ Return("failed") /\ UNCHANGED up
    /\ ch' = <<>>
    /\ UNCHANGED <<kind, e2e, got, next, local, conn, down, readerVars, peerVars>>

\* write_file and upload: the next chunk, Eof with the last; the local file of
\* an upload may fail to read, and an inline chunk to decode: nothing more is sent.
SendChunk ==
    /\ pc = "chunks" /\ EndWrite
    /\ \/ /\ Written /\ up' = Append(up, Frame("data", next)) /\ next' = next + 1
          /\ pc' = IF next = Last THEN "wait" ELSE "chunks"
          /\ UNCHANGED <<result, pend>>
       \/ SendFails /\ Return("failed") /\ UNCHANGED <<up, next>>
       \/ kind = "upload" /\ ~writing /\ Return("failed") /\ UNCHANGED <<up, next>>
    /\ UNCHANGED <<kind, e2e, got, local, conn, down, readerVars, ch, peerVars>>

\* download: os.Create truncates dest_path once the request is out.
CreateLocal ==
    /\ pc = "create"
    /\ \/ local' = <<>> /\ pc' = "wait" /\ UNCHANGED <<result, pend>>
       \/ Return("failed") /\ UNCHANGED local
    /\ UNCHANGED <<kind, e2e, got, next, netVars, conn, up, down, readerVars, ch, peerVars>>

\* The handler takes the next frame from the call's channel.
Inbound == Head(ch)
Takes(k) ==
    /\ kind = k /\ pc = "wait" /\ ch # <<>> /\ ch' = Tail(ch)
    /\ UNCHANGED <<kind, e2e, next, netVars, conn, up, down, readerVars, peerVars>>

Stays == UNCHANGED <<pc, result, pend>>

\* The frame that ends a call: the tool's answer, or its error.
Final ==
    /\ \/ Inbound.t = "complete" /\ Return("ok")
       \/ Inbound.t = "fail" /\ Return("failed")
    /\ UNCHANGED <<got, local>>

\* A chunk that does not decode, exceeds the cap of 10 MB or cannot be written.
BadChunk == Inbound.t = "data" /\ Return("failed") /\ UNCHANGED <<got, local>>

Collect == Inbound.t = "data" /\ got' = Append(got, Inbound.k) /\ Stays /\ UNCHANGED local

ExecHandler == Takes("exec") /\ (Collect \/ BadChunk \/ Final)

ReadFileHandler == Takes("read") /\ (Collect \/ BadChunk \/ Final)

\* Chunks go straight to dest_path.
DownloadHandler ==
    /\ Takes("download")
    /\ \/ Inbound.t = "data" /\ local' = Append(local, Inbound.k) /\ Stays /\ UNCHANGED got
       \/ BadChunk \/ Final

\* The handlers that await one frame of the daemon.
WriteFileHandler == Takes("write") /\ Final
UploadHandler == Takes("upload") /\ Final
EditFileHandler == Takes("edit") /\ Final
StatHandler == Takes("stat") /\ Final
ListDirectoryHandler == Takes("list") /\ Final
SearchHandler == Takes("search") /\ Final
CapabilitiesHandler == Takes("capabilities") /\ Final

TakeFrame ==
    \/ ExecHandler \/ ReadFileHandler \/ DownloadHandler \/ WriteFileHandler \/ UploadHandler
    \/ EditFileHandler \/ StatHandler \/ ListDirectoryHandler \/ SearchHandler
    \/ CapabilitiesHandler

\* Faulty variant: the handler waits for frames only.
Cancelled_Never == FALSE

\* The context is done: network_lost.
Cancelled ==
    /\ pc = "wait" /\ timer = "done"
    /\ Return("failed")
    /\ UNCHANGED <<kind, e2e, got, next, local, netVars, conn, up, down, readerVars, ch, peerVars>>

\* Client.Close: cancel readerCtx and close the connection.
Close ==
    /\ pc = "close" /\ pc' = "done" /\ conn' = "closed"
    /\ UNCHANGED <<kind, e2e, got, next, local, result, netVars, up, down, readerVars, callVars, peerVars>>
-----------------------------------------------------------------------------
(* runReader *)

\* Recv returns a frame.  The gateway's eviction notice and other frames that
\* are not Route frames are passed over; so is a frame of no pending call.
ReaderRecv ==
    /\ rd = "recv" /\ ~ReaderCtxDone /\ down # <<>>
    /\ down' = Tail(down)
    /\ IF Head(down).t \in {"data", "complete", "fail"} /\ pend
       THEN rd' = "put" /\ hand' = Head(down)
       ELSE UNCHANGED <<rd, hand>>
    /\ UNCHANGED <<mainVars, netVars, conn, up, callVars, peerVars>>

\* Faulty variant: a full channel loses the frame.
ReaderPut_DropWhenFull ==
    /\ rd = "put" /\ rd' = "recv"
    /\ ch' = IF Len(ch) < CallCap THEN Append(ch, hand) ELSE ch
    /\ UNCHANGED <<mainVars, netVars, conn, up, down, hand, pend, peerVars>>

\* Faulty variant: a channel that takes one frame too many.
ReaderPut_Overflow ==
    /\ rd = "put" /\ Len(ch) <= CallCap
    /\ ch' = Append(ch, hand) /\ rd' = "recv"
    /\ UNCHANGED <<mainVars, netVars, conn, up, down, hand, pend, peerVars>>

\* The channel it looked up has room, be the call still registered or not.
ReaderPut ==
    /\ rd = "put" /\ Len(ch) < CallCap
    /\ ch' = Append(ch, hand) /\ rd' = "recv"
    /\ UNCHANGED <<mainVars, netVars, conn, up, down, hand, pend, peerVars>>

\* Recv fails, or the context is done; no pending call is told.
ReaderEnds ==
    /\ \/ rd = "recv" /\ (conn # "open" \/ ReaderCtxDone)
       \/ rd = "put" /\ ReaderCtxDone
    /\ rd' = "end"
    /\ UNCHANGED <<mainVars, netVars, conn, up, down, hand, callVars, peerVars>>
-----------------------------------------------------------------------------
(* The world *)

\* The deadline of --timeout passes, or the user interrupts the command.
Timeout ==
    /\ timer = "live" /\ timer' = "done"
    /\ UNCHANGED <<mainVars, stalled, writing, conn, up, down, readerVars, callVars, peerVars>>

\* The connection breaks.  Frames that have arrived may still be read.
Break ==
    /\ conn = "open" /\ conn' = "broken"
    /\ UNCHANGED <<mainVars, netVars, up, down, readerVars, callVars, peerVars>>

\* The far end stops taking bytes.
Stall ==
    /\ conn = "open" /\ ~stalled /\ stalled' = TRUE
    /\ UNCHANGED <<mainVars, timer, writing, conn, up, down, readerVars, callVars, peerVars>>

Says(t) == down' = Append(down, Frame(t, 0))

\* handleBridge refuses the Hello, or admits the client.
Admit ==
    /\ peer = "new" /\ up # <<>> /\ Head(up).t = "hello" /\ up' = Tail(up)
    /\ \/ Says("ack") /\ peer' = "admitted"
       \/ Says("error") /\ peer' = "gone"
    /\ UNCHANGED <<mainVars, netVars, conn, readerVars, callVars, tool, served, stored, ran>>

\* The gateway drops the client: its daemon is offline or cannot be reached,
\* or a newer bridge of the same name has taken over.
Dismiss ==
    /\ peer = "admitted" /\ peer' = "gone"
    /\ Says("error")
    /\ UNCHANGED <<mainVars, netVars, conn, up, readerVars, callVars, tool, served, stored, ran>>

\* The gateway closes a dismissed client's connection.
HangUp ==
    /\ peer = "gone" /\ conn = "open" /\ conn' = "broken"
    /\ UNCHANGED <<mainVars, netVars, up, down, readerVars, callVars, peerVars>>

\* handleNoiseInit answers, refuses, or the daemon is not there to do so.
Noise ==
    /\ peer = "admitted" /\ up # <<>> /\ Head(up).t = "noise" /\ up' = Tail(up)
    /\ Says("resp") \/ Says("error") \/ UNCHANGED down
    /\ UNCHANGED <<mainVars, netVars, conn, readerVars, callVars, peerVars>>

\* A tool starts, or the request is lost with the daemon's connection.
StartTool ==
    /\ peer = "admitted" /\ up # <<>> /\ Head(up).t = "req" /\ up' = Tail(up)
    /\ \/ tool' = IF kind \in Sending THEN "collect" ELSE "serve"
       \/ tool' = "gone"
    /\ UNCHANGED <<mainVars, netVars, conn, down, readerVars, callVars, peer, served, stored, ran>>

\* exec: cmd.Start.
Spawn ==
    /\ tool = "serve" /\ kind = "exec" /\ ran = 0 /\ ran' = 1
    /\ UNCHANGED <<mainVars, netVars, conn, up, down, readerVars, callVars, peer, tool, served, stored>>

\* The daemon's frames reach the client only while it is subscribed.
ToClient(f) == down' = IF peer = "admitted" THEN Append(down, f) ELSE down

\* exec, read_file, download: the next chunk.
ServeChunk ==
    /\ tool = "serve" /\ kind \in Streaming /\ served < Last
    /\ kind = "exec" => ran = 1
    /\ served' = served + 1 /\ ToClient(Frame("data", served + 1))
    /\ UNCHANGED <<mainVars, netVars, conn, up, readerVars, callVars, peer, tool, stored, ran>>

\* The last frame of the answer: the tool has done what it was asked to.
ToolCompletes ==
    /\ \/ tool = "serve" /\ (kind \in Streaming => served = Last) /\ (kind = "exec" => ran = 1)
       \/ tool = "collect" /\ stored # <<>> /\ stored[Len(stored)] = Last
    /\ tool' = "done" /\ ToClient(Frame("complete", 0))
    /\ ran' = IF kind = "exec" THEN ran ELSE ran + 1
    /\ UNCHANGED <<mainVars, netVars, conn, up, readerVars, callVars, peer, served, stored>>

\* write_file, upload: a chunk arrives.  Once the tool has answered it is dropped.
StoreChunk ==
    /\ peer = "admitted" /\ up # <<>> /\ Head(up).t = "data" /\ up' = Tail(up)
    /\ stored' = IF tool = "collect" THEN Append(stored, Head(up).k) ELSE stored
    /\ UNCHANGED <<mainVars, netVars, conn, down, readerVars, callVars, peer, tool, served, ran>>

\* The tool fails and says so; exec reports an error only of a command that
\* did not start.
ToolFails ==
    /\ tool \in {"serve", "collect"} /\ tool' = "done"
    /\ kind = "exec" => ran = 0
    /\ ToClient(Frame("fail", 0))
    /\ UNCHANGED <<mainVars, netVars, conn, up, readerVars, callVars, peer, served, stored, ran>>

\* The daemon's own connection is lost: nothing more is heard of the request.
ToolGone ==
    /\ tool \in {"serve", "collect"} /\ tool' = "gone"
    /\ UNCHANGED <<mainVars, netVars, conn, up, down, readerVars, callVars, peer, served, stored, ran>>
-----------------------------------------------------------------------------
Init ==
    /\ kind \in Kinds /\ e2e \in Modes
    /\ pc = "dial" /\ timer = "live" /\ conn = "none" /\ stalled = FALSE /\ writing = FALSE
    /\ up = <<>> /\ down = <<>>
    /\ rd = "off" /\ hand = Frame("error", 0) /\ pend = FALSE /\ ch = <<>>
    /\ got = <<>> /\ next = 1 /\ local = Untouched /\ result = "none"
    /\ peer = "new" /\ tool = "none" /\ served = 0 /\ stored = <<>> /\ ran = 0

CommandStep ==
    \/ Dial \/ RecvAck \/ SendNoise \/ RecvResp \/ RecvFails \/ BeginWrite
    \/ Request \/ SendChunk \/ CreateLocal \/ TakeFrame \/ Cancelled \/ Close

ReaderStep == ReaderRecv \/ ReaderPut \/ ReaderEnds

PeerStep ==
    \/ Admit \/ HangUp \/ Noise
    \/ StartTool \/ Spawn \/ ServeChunk \/ StoreChunk \/ ToolCompletes

PeerFailure == Dismiss \/ ToolFails \/ ToolGone

Next == CommandStep \/ ReaderStep \/ PeerStep \/ PeerFailure \/ Timeout \/ Break \/ Stall

\* Goroutines that can run do, and the deadline passes.  Nothing is assumed of
\* the network, the gateway or the daemon.
Fairness == WF_vars(CommandStep) /\ WF_vars(ReaderStep) /\ WF_vars(Timeout)

Spec == Init /\ [][Next]_vars
FairSpec == Spec /\ Fairness
\* The gateway and the daemon answer what they can, too.
ResponsiveSpec == FairSpec /\ WF_vars(PeerStep)
-----------------------------------------------------------------------------
(* Properties *)

\* Every variable stays in its type, and the call's channel within its capacity.
TypeOK ==
    /\ kind \in Kinds /\ e2e \in Modes
    /\ pc \in {"dial", "ack", "noise", "resp", "request", "create", "chunks", "wait", "close", "done"}
    /\ timer \in {"live", "done"} /\ stalled \in BOOLEAN /\ writing \in BOOLEAN
    /\ conn \in {"none", "open", "broken", "closed"}
    /\ up \in Seq(UpFrames) /\ down \in Seq(DownFrames)
    /\ rd \in {"off", "recv", "put", "end"} /\ hand \in DownFrames
    /\ pend \in BOOLEAN /\ ch \in Seq(DownFrames) /\ Len(ch) <= CallCap
    /\ got \in Seq(1 .. Last) /\ local \in Seq(0 .. Last) /\ next \in 1 .. Last + 1
    /\ result \in {"none", "ok", "failed", "retry_safe"}
    /\ peer \in {"new", "admitted", "gone"}
    /\ tool \in {"none", "serve", "collect", "done", "gone"}
    /\ served \in 0 .. Last /\ stored \in Seq(1 .. Last) /\ ran \in Nat

\* A command that reports success has the whole answer, or the daemon has the
\* whole file: every frame once and in order, through links, channel and
\* goroutines that were interrupted at any point.
OkIsComplete ==
    result = "ok" =>
        /\ kind \in {"exec", "read"} => got = UpTo(Last)
        /\ kind = "download" => local = UpTo(Last)
        /\ kind \in Sending => stored = UpTo(Last)

\* README.md, "Output contract": success means done; retry_safe means never
\* done; and no request is carried out twice.
Contract == INSTANCE Call WITH told <- result
KeepsContract == Contract!Spec

\* Whatever the network, the gateway and the daemon do, a command that has
\* written its request and its data ends by its deadline, and its reader with
\* it; one that still has to write them does, too, unless it is caught inside a
\* write that a stalled far end does not take.
CallEnds ==
    /\ pc \in {"create", "wait", "close"} ~> pc = "done" /\ rd = "end"
    /\ pc \in {"request", "chunks"} ~> (pc = "done" /\ rd = "end") \/ Blocked

(* What the documentation says, and the code does not do *)

\* README.md:273: "--timeout <duration>: per-call network/tool timeout": once
\* the deadline has passed, the command ends (under ResponsiveSpec), a blocked
\* write aside.
EndsByDeadline == timer = "done" ~> pc = "done" \/ Blocked
=============================================================================
