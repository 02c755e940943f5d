--------------------------- MODULE ClientProofs ---------------------------
(***************************************************************************)
(* A command keeps the contract of module Call, whatever its handler, the  *)
(* length of its transfer, the capacity of its channel, the network, the   *)
(* gateway and the daemon.                                                 *)
(***************************************************************************)
EXTENDS Client, Counting, TLAPS

Pcs == {"dial", "ack", "noise", "resp", "request", "create", "chunks", "wait", "close", "done"}
\* Where the command's goroutine is before its request is out, and after.
Early == {"dial", "ack", "noise", "resp", "request"}
Over == {"close", "done"}
Tools == {"none", "serve", "collect", "done", "gone"}

\* The type of what the contract is about, and of the links it depends on.
CallType ==
    /\ kind \in Kinds
    /\ pc \in Pcs
    /\ tool \in Tools
    /\ up \in Seq(UpFrames) /\ down \in Seq(DownFrames) /\ ch \in Seq(DownFrames)
    /\ hand \in DownFrames
    /\ next \in Nat \ {0} /\ next <= Last + 1 /\ (pc \in Early \cup {"chunks"} => next <= Last)
    /\ served \in 0 .. Last
    /\ ran \in {0, 1}

\* The handler has sent its request.
Asked == pc \in {"create", "chunks", "wait", "close", "done"} /\ result # "retry_safe"

\* A command reports once, at its end.
ReportInv ==
    /\ result \in {"none", "ok", "failed", "retry_safe"}
    /\ result = "none" <=> pc \notin {"close", "done"}
    /\ result = "retry_safe" => pc = "done"

\* No request on the link, or one at most.
NoReq(q) == \A i \in 1 .. Len(q) : q[i].t # "req"
OneReq(q) == \A i, j \in 1 .. Len(q) : q[i].t = "req" /\ q[j].t = "req" => i = j

\* The request is sent at most once, and the daemon has heard of it only when
\* it was: until a tool has taken it, it was not carried out.
RequestInv ==
    /\ OneReq(up)
    /\ ~(tool = "none" /\ Asked) => NoReq(up)
    /\ tool # "none" => Asked
    /\ tool = "none" => ran = 0
    /\ tool = "collect" => ran = 0 /\ kind # "exec"
    /\ tool = "serve" /\ kind # "exec" => ran = 0

\* The frame that reports success is sent when the request was carried out,
\* and nobody but the daemon makes one.
NoComplete(q) == \A i \in 1 .. Len(q) : q[i].t # "complete"
CompleteInv ==
    ran = 0 => NoComplete(down) /\ NoComplete(ch) /\ hand.t # "complete" /\ result # "ok"

ContractInv == CallType /\ ReportInv /\ RequestInv /\ CompleteInv

\* The request and the data on the way to the daemon, and what comes back from
\* a tool, numbered in the order in which they are sent.
FromCommand == {f \in UpFrames : f.t \in {"req", "data"}}
UpNum == [f \in UpFrames |-> f.k]
FromTool == {f \in DownFrames : f.t \in {"data", "complete"}}
DownNum == [f \in DownFrames |-> IF f.t = "complete" THEN Last + 1 ELSE f.k]

\* What the command sends arrives without a gap, so that a tool that was given
\* the last frame has them all.
StoreInv ==
    /\ \E a, b \in 0 .. Last + 1 :
          /\ Runs(up, FromCommand, UpNum, a, b)
          /\ pc \in Early => b = 0
          /\ pc \notin Early \cup Over => b = next
          /\ tool = "none" => a = 0
          /\ tool = "collect" => a = Len(stored) + 1
    /\ Counts(stored, 0)
    /\ tool = "none" => stored = <<>>
    /\ tool = "serve" => kind \notin Sending
    /\ tool = "collect" => kind \in Sending
    /\ kind \in Sending /\ ran # 0 => tool = "done" /\ stored = UpTo(Last)

\* A call that waits is registered; until then its reader has no frame for it.
CallInv ==
    /\ pc \in Early => ch = <<>> /\ ~pend /\ rd # "put" /\ got = <<>> /\ next = 1
    /\ pc \in {"dial", "ack", "noise", "resp"} => rd = "off"
    /\ pc \notin Early \cup Over => pend
    /\ pc = "create" => kind = "download"
    /\ peer = "new" => tool = "none"
    /\ tool = "none" => served = 0

\* The data the handler has taken.
Taken == IF kind = "download" THEN IF pc \in Early \cup {"create"} THEN <<>> ELSE local
                              ELSE got

\* Every frame of the tool so far was sent to the client.
Heard == tool = "none" \/ (tool = "serve" /\ peer = "admitted")

\* What a tool sends while the client is subscribed reaches a waiting handler
\* without a gap, up to where the reader has ended; so that the handler that is
\* told of the end has it all.
FlowInv ==
    kind \in Streaming =>
    /\ result \in {"none", "ok"} => Counts(Taken, 0)
    /\ result = "ok" => Len(Taken) = Last
    /\ pc \notin Over =>
       \E p, r \in 1 .. Last + 2 :
          /\ Runs(ch, FromTool, DownNum, Len(Taken) + 1, p)
          /\ rd # "end" =>
                IF rd = "put" /\ hand \in FromTool
                THEN DownNum[hand] = p /\ Runs(down, FromTool, DownNum, p + 1, r)
                ELSE Runs(down, FromTool, DownNum, p, r)
          /\ Heard => r = served + 1

ClientInv == TypeOK /\ ContractInv /\ StoreInv /\ CallInv /\ FlowInv
-----------------------------------------------------------------------------
(* Frames and links *)

\* The frames that the steps send are frames of their links.
LEMMA FrameType ==
    /\ \A t \in {"hello", "noise", "req"} : Frame(t, 0) \in UpFrames /\ Frame(t, 0).t = t
    /\ \A t \in {"ack", "resp", "error", "complete", "fail"} :
           Frame(t, 0) \in DownFrames /\ Frame(t, 0).t = t
    /\ \A k \in 1 .. Last : /\ Frame("data", k) \in UpFrames /\ Frame("data", k) \in DownFrames
                            /\ Frame("data", k).t = "data" /\ Frame("data", k).k = k
BY BoundAssumption DEF Frame, UpFrames, DownFrames, DataFrames

\* What sending a frame does to a link ...
LEMMA Sent ==
    ASSUME NEW S, NEW q \in Seq(S), NEW f \in S
    PROVE  /\ Append(q, f) \in Seq(S)
           /\ OneReq(q) /\ f.t # "req" => OneReq(Append(q, f))
           /\ NoReq(q) => OneReq(Append(q, f))
           /\ NoReq(q) /\ f.t # "req" => NoReq(Append(q, f))
           /\ NoComplete(q) /\ f.t # "complete" => NoComplete(Append(q, f))
<1> DEFINE r == Append(q, f)
<1>1. r \in Seq(S) /\ Len(r) = Len(q) + 1
  OBVIOUS
<1>2. \A i \in 1 .. Len(r) : r[i] = IF i = Len(q) + 1 THEN f ELSE q[i]
  OBVIOUS
<1>3. \A i \in 1 .. Len(r) : i # Len(q) + 1 => i \in 1 .. Len(q)
  BY <1>1
<1> HIDE DEF r
<1> QED BY <1>1, <1>2, <1>3 DEF r, OneReq, NoReq, NoComplete

\* ... and receiving one.
LEMMA Received ==
    ASSUME NEW S, NEW q \in Seq(S), q # <<>>
    PROVE  /\ Tail(q) \in Seq(S) /\ Head(q) \in S
           /\ OneReq(q) => OneReq(Tail(q))
           /\ OneReq(q) /\ Head(q).t = "req" => NoReq(Tail(q))
           /\ NoReq(q) => NoReq(Tail(q)) /\ Head(q).t # "req"
           /\ NoComplete(q) => NoComplete(Tail(q)) /\ Head(q).t # "complete"
<1> DEFINE r == Tail(q)
<1>1. r \in Seq(S) /\ Len(r) = Len(q) - 1 /\ Len(q) \in Nat \ {0} /\ Head(q) = q[1] /\ q[1] \in S
  OBVIOUS
<1>2. \A i \in 1 .. Len(r) : r[i] = q[i + 1]
  OBVIOUS
<1>3. \A i \in 1 .. Len(r) : i + 1 \in 1 .. Len(q) /\ i + 1 # 1
  BY <1>1
<1>4. 1 \in 1 .. Len(q)
  BY <1>1
<1> HIDE DEF r
<1> QED BY <1>1, <1>2, <1>3, <1>4 DEF r, OneReq, NoReq, NoComplete
-----------------------------------------------------------------------------
\* A command that has not dialled has neither sent nor reported anything.
LEMMA ContractInvInit == Init => ContractInv
<1> SUFFICES ASSUME Init PROVE ContractInv
  OBVIOUS
<1>1. /\ <<>> \in Seq(UpFrames) /\ <<>> \in Seq(DownFrames)
      /\ OneReq(<<>>) /\ NoReq(<<>>) /\ NoComplete(<<>>)
  BY DEF OneReq, NoReq, NoComplete
<1> QED
  BY <1>1, FrameType, BoundAssumption
  DEF Init, ContractInv, CallType, ReportInv, RequestInv, CompleteInv, Pcs, Tools, Asked

\* No step of the command, its reader, the gateway, the daemon or the network
\* breaks the invariant.
LEMMA ContractInvNext == ContractInv /\ [Next]_vars => ContractInv'
<1> SUFFICES ASSUME ContractInv, [Next]_vars
             PROVE  ContractInv'
  OBVIOUS
<1> USE BoundAssumption
    DEF mainVars, readerVars, callVars, peerVars, netVars,
        DialFails, StartRouter, Return, Early, EndWrite, AfterRequest, Says, ToClient
<1>1. CASE Dial
  <2>1. LET said == Append(up, Frame("hello", 0)) IN
        /\ said \in Seq(UpFrames)
        /\ OneReq(up) => OneReq(said)
        /\ NoReq(up) => NoReq(said)
        /\ NoComplete(up) => NoComplete(said)
    <3>1. Frame("hello", 0) \in UpFrames /\ Frame("hello", 0).t = "hello"
      BY FrameType
    <3> QED BY <3>1, Sent DEF ContractInv, CallType
  <2> QED
    BY <1>1, <2>1
    DEF Dial, ContractInv, CallType, ReportInv, RequestInv, CompleteInv, Pcs, Tools, Asked
<1>2. CASE RecvAck
  <2>1. down # <<>> =>
          /\ Tail(down) \in Seq(DownFrames) /\ Head(down) \in DownFrames
          /\ OneReq(down) => OneReq(Tail(down))
          /\ OneReq(down) /\ Head(down).t = "req" => NoReq(Tail(down))
          /\ NoReq(down) => NoReq(Tail(down)) /\ Head(down).t # "req"
          /\ NoComplete(down) => NoComplete(Tail(down)) /\ Head(down).t # "complete"
    BY Received DEF ContractInv, CallType
  <2> QED
    BY <1>2, <2>1
    DEF RecvAck, ContractInv, CallType, ReportInv, RequestInv, CompleteInv, Pcs, Tools, Asked
<1>3. CASE RecvResp
  BY <1>3, FrameType, Sent, Received
  DEF RecvResp, ContractInv, CallType, ReportInv, RequestInv, CompleteInv, Pcs, Tools, Asked
<1>4. CASE RecvFails
  BY <1>4, FrameType, Sent, Received
  DEF RecvFails, ContractInv, CallType, ReportInv, RequestInv, CompleteInv, Pcs, Tools, Asked
<1>4a. CASE SendNoise
  <2>1. LET said == Append(up, Frame("noise", 0)) IN
        /\ said \in Seq(UpFrames)
        /\ OneReq(up) => OneReq(said)
        /\ NoReq(up) => NoReq(said)
    <3>1. Frame("noise", 0) \in UpFrames /\ Frame("noise", 0).t = "noise"
      BY FrameType
    <3> QED BY <3>1, Sent DEF ContractInv, CallType
  <2> QED
    BY <1>4a, <2>1
    DEF SendNoise, ContractInv, CallType, ReportInv, RequestInv, CompleteInv, Pcs, Tools, Asked
<1>4b. CASE BeginWrite
  BY <1>4b
  DEF BeginWrite, ContractInv, CallType, ReportInv, RequestInv, CompleteInv, Pcs, Tools, Asked
<1>5. CASE Request
  <2>1. /\ Append(up, Frame("req", 0)) \in Seq(UpFrames)
        /\ NoReq(up) => OneReq(Append(up, Frame("req", 0)))
    <3>1. Frame("req", 0) \in UpFrames
      BY FrameType
    <3> QED BY <3>1, Sent DEF ContractInv, CallType
  <2>2. <<>> \in Seq(DownFrames) /\ NoComplete(<<>>)
    BY DEF NoComplete
  <2> QED
    BY <1>5, <2>1, <2>2
    DEF Request, ContractInv, CallType, ReportInv, RequestInv, CompleteInv, Pcs, Tools, Asked
<1>6. CASE SendChunk
  <2>1. pc = "chunks" =>
          /\ Append(up, Frame("data", next)) \in Seq(UpFrames)
          /\ OneReq(up) => OneReq(Append(up, Frame("data", next)))
          /\ NoReq(up) => NoReq(Append(up, Frame("data", next)))
    <3>1. pc = "chunks" => Frame("data", next) \in UpFrames /\ Frame("data", next).t = "data"
      BY FrameType, BoundAssumption DEF ContractInv, CallType
    <3> QED BY <3>1, Sent DEF ContractInv, CallType
  <2>2. /\ pc = "chunks" /\ next' \in Nat \ {0} /\ next' <= Last + 1
        /\ pc' \in {"chunks", "wait", "close"} /\ (pc' = "chunks" => next' <= Last)
        /\ \/ pc' # "close" /\ UNCHANGED result
           \/ pc' = "close" /\ result' = "failed"
        /\ up' \in {up, Append(up, Frame("data", next))}
        /\ UNCHANGED <<kind, down, hand, ch, tool, served, ran>>
    BY <1>6 DEF SendChunk, ContractInv, CallType
  <2> QED
    BY <1>6, <2>1, <2>2
    DEF SendChunk, ContractInv, CallType, ReportInv, RequestInv, CompleteInv, Pcs, Tools, Asked
<1>7. CASE CreateLocal
  BY <1>7, FrameType, Sent, Received
  DEF CreateLocal, ContractInv, CallType, ReportInv, RequestInv, CompleteInv, Pcs, Tools, Asked
<1>8. CASE TakeFrame
  <2>1. ch # <<>> =>
          /\ Tail(ch) \in Seq(DownFrames) /\ Head(ch) \in DownFrames
          /\ OneReq(ch) => OneReq(Tail(ch))
          /\ OneReq(ch) /\ Head(ch).t = "req" => NoReq(Tail(ch))
          /\ NoReq(ch) => NoReq(Tail(ch)) /\ Head(ch).t # "req"
          /\ NoComplete(ch) => NoComplete(Tail(ch)) /\ Head(ch).t # "complete"
    BY Received DEF ContractInv, CallType
  <2>2. ch # <<>> /\ ch' = Tail(ch) /\ pc = "wait"
        /\ (UNCHANGED <<pc, result, pend>> \/ Return("failed") \/ (Head(ch).t = "complete" /\ Return("ok")))
        /\ UNCHANGED <<kind, next, up, down, hand, tool, served, ran>>
    BY <1>8 DEF TakeFrame, ExecHandler, ReadFileHandler, DownloadHandler, WriteFileHandler,
         UploadHandler, EditFileHandler, StatHandler, ListDirectoryHandler, SearchHandler,
         CapabilitiesHandler, Takes, Stays, Final, BadChunk, Collect, Inbound
  <2> QED BY <2>1, <2>2 DEF ContractInv, CallType, ReportInv, RequestInv, CompleteInv, Pcs, Tools, Asked
<1>9. CASE Cancelled
  BY <1>9, FrameType, Sent, Received
  DEF Cancelled, ContractInv, CallType, ReportInv, RequestInv, CompleteInv, Pcs, Tools, Asked
<1>10. CASE Close
  BY <1>10, FrameType, Sent, Received
  DEF Close, ContractInv, CallType, ReportInv, RequestInv, CompleteInv, Pcs, Tools, Asked
<1>11. CASE ReaderRecv
  BY <1>11, FrameType, Sent, Received
  DEF ReaderRecv, ContractInv, CallType, ReportInv, RequestInv, CompleteInv, Pcs, Tools, Asked
<1>12. CASE ReaderPut
  BY <1>12, FrameType, Sent, Received
  DEF ReaderPut, ContractInv, CallType, ReportInv, RequestInv, CompleteInv, Pcs, Tools, Asked
<1>13. CASE ReaderEnds
  BY <1>13, FrameType, Sent, Received
  DEF ReaderEnds, ContractInv, CallType, ReportInv, RequestInv, CompleteInv, Pcs, Tools, Asked
<1>14. CASE Timeout
  BY <1>14, FrameType, Sent, Received
  DEF Timeout, ContractInv, CallType, ReportInv, RequestInv, CompleteInv, Pcs, Tools, Asked
<1>15. CASE Break
  BY <1>15, FrameType, Sent, Received
  DEF Break, ContractInv, CallType, ReportInv, RequestInv, CompleteInv, Pcs, Tools, Asked
<1>16. CASE Stall
  BY <1>16, FrameType, Sent, Received
  DEF Stall, ContractInv, CallType, ReportInv, RequestInv, CompleteInv, Pcs, Tools, Asked
<1>17. CASE Admit
  <2>1. up # <<>> =>
          /\ Tail(up) \in Seq(UpFrames) /\ Head(up) \in UpFrames
          /\ OneReq(up) => OneReq(Tail(up))
          /\ OneReq(up) /\ Head(up).t = "req" => NoReq(Tail(up))
          /\ NoReq(up) => NoReq(Tail(up)) /\ Head(up).t # "req"
          /\ NoComplete(up) => NoComplete(Tail(up)) /\ Head(up).t # "complete"
    BY Received DEF ContractInv, CallType
  <2>2. LET said == Append(down, Frame("ack", 0)) IN
        /\ said \in Seq(DownFrames)
        /\ OneReq(down) => OneReq(said)
        /\ NoReq(down) => NoReq(said)
        /\ NoComplete(down) => NoComplete(said)
    <3>1. Frame("ack", 0) \in DownFrames /\ Frame("ack", 0).t = "ack"
      BY FrameType
    <3> QED BY <3>1, Sent DEF ContractInv, CallType
  <2>3. LET said == Append(down, Frame("error", 0)) IN
        /\ said \in Seq(DownFrames)
        /\ OneReq(down) => OneReq(said)
        /\ NoReq(down) => NoReq(said)
        /\ NoComplete(down) => NoComplete(said)
    <3>1. Frame("error", 0) \in DownFrames /\ Frame("error", 0).t = "error"
      BY FrameType
    <3> QED BY <3>1, Sent DEF ContractInv, CallType
  <2> QED
    BY <1>17, <2>1, <2>2, <2>3, ZenonT(60)
    DEF Admit, ContractInv, CallType, ReportInv, RequestInv, CompleteInv, Pcs, Tools, Asked
<1>18. CASE Dismiss
  BY <1>18, FrameType, Sent, Received
  DEF Dismiss, ContractInv, CallType, ReportInv, RequestInv, CompleteInv, Pcs, Tools, Asked
<1>19. CASE HangUp
  BY <1>19, FrameType, Sent, Received
  DEF HangUp, ContractInv, CallType, ReportInv, RequestInv, CompleteInv, Pcs, Tools, Asked
<1>20. CASE Noise
  <2>1. up # <<>> =>
          /\ Tail(up) \in Seq(UpFrames) /\ Head(up) \in UpFrames
          /\ OneReq(up) => OneReq(Tail(up))
          /\ OneReq(up) /\ Head(up).t = "req" => NoReq(Tail(up))
          /\ NoReq(up) => NoReq(Tail(up)) /\ Head(up).t # "req"
          /\ NoComplete(up) => NoComplete(Tail(up)) /\ Head(up).t # "complete"
    BY Received DEF ContractInv, CallType
  <2>2. LET said == Append(down, Frame("resp", 0)) IN
        /\ said \in Seq(DownFrames)
        /\ OneReq(down) => OneReq(said)
        /\ NoReq(down) => NoReq(said)
        /\ NoComplete(down) => NoComplete(said)
    <3>1. Frame("resp", 0) \in DownFrames /\ Frame("resp", 0).t = "resp"
      BY FrameType
    <3> QED BY <3>1, Sent DEF ContractInv, CallType
  <2>3. LET said == Append(down, Frame("error", 0)) IN
        /\ said \in Seq(DownFrames)
        /\ OneReq(down) => OneReq(said)
        /\ NoReq(down) => NoReq(said)
        /\ NoComplete(down) => NoComplete(said)
    <3>1. Frame("error", 0) \in DownFrames /\ Frame("error", 0).t = "error"
      BY FrameType
    <3> QED BY <3>1, Sent DEF ContractInv, CallType
  <2> QED
    BY <1>20, <2>1, <2>2, <2>3, ZenonT(60)
    DEF Noise, ContractInv, CallType, ReportInv, RequestInv, CompleteInv, Pcs, Tools, Asked
<1>21. CASE StartTool
  <2>1. up # <<>> =>
          /\ Tail(up) \in Seq(UpFrames) /\ Head(up) \in UpFrames
          /\ OneReq(up) => OneReq(Tail(up))
          /\ OneReq(up) /\ Head(up).t = "req" => NoReq(Tail(up))
          /\ NoReq(up) => NoReq(Tail(up)) /\ Head(up).t # "req"
          /\ NoComplete(up) => NoComplete(Tail(up)) /\ Head(up).t # "complete"
    BY Received DEF ContractInv, CallType
  <2> QED
    BY <1>21, <2>1
    DEF StartTool, Sending, ContractInv, CallType, ReportInv, RequestInv, CompleteInv, Pcs, Tools, Asked
<1>22. CASE Spawn
  BY <1>22, FrameType, Sent, Received
  DEF Spawn, ContractInv, CallType, ReportInv, RequestInv, CompleteInv, Pcs, Tools, Asked
<1>23. CASE ServeChunk
  <2> DEFINE f == Frame("data", served + 1)
  <2>1. f \in DownFrames /\ f.t = "data"
    BY <1>23, FrameType DEF ServeChunk, ContractInv, CallType
  <2>2. down' \in {down, Append(down, f)}
    BY <1>23 DEF ServeChunk
  <2> HIDE DEF f
  <2>3. down' \in Seq(DownFrames) /\ (NoComplete(down) => NoComplete(down'))
    BY <2>1, <2>2, Sent DEF ContractInv, CallType
  <2>4. served' \in 0 .. Last
    BY <1>23 DEF ServeChunk, ContractInv, CallType
  <2> QED
    BY <1>23, <2>3, <2>4
    DEF ServeChunk, ContractInv, CallType, ReportInv, RequestInv, CompleteInv, Pcs, Tools, Asked
<1>24. CASE ToolCompletes
  <2>1. Append(down, Frame("complete", 0)) \in Seq(DownFrames)
    <3>1. Frame("complete", 0) \in DownFrames
      BY FrameType
    <3> QED BY <3>1, Sent DEF ContractInv, CallType
  <2>2. ran \in {0, 1} /\ ran' = 1
    BY <1>24 DEF ToolCompletes, ContractInv, CallType, RequestInv, Streaming
  <2> QED
    BY <1>24, <2>1, <2>2
    DEF ToolCompletes, ContractInv, CallType, ReportInv, RequestInv, CompleteInv, Pcs, Tools, Asked
<1>25. CASE StoreChunk
  BY <1>25, FrameType, Sent, Received
  DEF StoreChunk, ContractInv, CallType, ReportInv, RequestInv, CompleteInv, Pcs, Tools, Asked
<1>26. CASE ToolFails
  BY <1>26, FrameType, Sent, Received
  DEF ToolFails, ContractInv, CallType, ReportInv, RequestInv, CompleteInv, Pcs, Tools, Asked
<1>27. CASE ToolGone
  BY <1>27, FrameType, Sent, Received
  DEF ToolGone, ContractInv, CallType, ReportInv, RequestInv, CompleteInv, Pcs, Tools, Asked
<1>28. CASE UNCHANGED vars
  BY <1>28 DEF vars, ContractInv, CallType, ReportInv, RequestInv, CompleteInv, Pcs, Tools, Asked
<1> QED
  BY <1>1, <1>2, <1>3, <1>4, <1>4a, <1>4b, <1>5, <1>6, <1>7, <1>8, <1>9, <1>10, <1>11, <1>12, <1>13,
     <1>14, <1>15, <1>16, <1>17, <1>18, <1>19, <1>20, <1>21, <1>22, <1>23, <1>24, <1>25,
     <1>26, <1>27, <1>28
  DEF Next, CommandStep, ReaderStep, PeerStep, PeerFailure
-----------------------------------------------------------------------------
\* Every step of the detailed model is one of the contract's, or changes
\* neither the report nor the count.
LEMMA ContractStep ==
    ASSUME ContractInv, ContractInv', [Next]_vars
    PROVE  [Contract!Next]_(Contract!vars)
<1> USE DEF Contract!Next, Contract!Run, Contract!Report, Contract!vars,
        mainVars, readerVars, callVars, peerVars, netVars
\* The daemon carries the request out.
<1>1. CASE Spawn \/ ToolCompletes
  <2>1. result' = result /\ ran' \in {ran, ran + 1} /\ ran' \in {0, 1} /\ ran \in {0, 1}
    BY <1>1 DEF Spawn, ToolCompletes, ContractInv, CallType
  <2>2. CASE ran' = ran
    BY <2>1, <2>2
  <2>3. CASE ran' # ran
    <3>1. ran = 0 /\ ran' = ran + 1 /\ tool # "none"
      BY <1>1, <2>1, <2>3 DEF Spawn, ToolCompletes
    <3>2. result \notin {"ok", "retry_safe"}
      BY <3>1 DEF ContractInv, CompleteInv, RequestInv, Asked
    <3> QED BY <2>1, <3>1, <3>2
  <2> QED BY <2>2, <2>3
\* Nothing else changes the count, and what changes the report is the first one.
<1>2. CASE ran' = ran
  <2>1. CASE result' = result
    BY <1>2, <2>1
  <2>2. CASE result' # result
    <3>1. result = "none" /\ result' \in {"ok", "failed", "retry_safe"}
      <4>1. CommandStep
        BY <2>2 DEF Next, vars, ReaderStep, PeerStep, PeerFailure, ReaderRecv, ReaderPut, ReaderEnds,
           Timeout, Break, Stall, Admit, HangUp, Noise, StartTool, Spawn, ServeChunk, StoreChunk,
           ToolCompletes, Dismiss, ToolFails, ToolGone
      <4>2. pc \notin {"close", "done"}
        BY <2>2, <4>1 DEF CommandStep, Dial, RecvAck, SendNoise, RecvResp, RecvFails, BeginWrite, Request, SendChunk,
           CreateLocal, TakeFrame, ExecHandler, ReadFileHandler, DownloadHandler, WriteFileHandler,
           UploadHandler, EditFileHandler, StatHandler, ListDirectoryHandler, SearchHandler,
           CapabilitiesHandler, Takes, Cancelled, Close
      <4> QED BY <2>2, <4>2 DEF ContractInv, ReportInv
    <3>2. (result' = "ok" => ran = 1) /\ (result' = "retry_safe" => ran = 0)
      BY <1>2 DEF ContractInv, CallType, CompleteInv, RequestInv, Asked
    <3> QED BY <1>2, <3>1, <3>2
  <2> QED BY <2>1, <2>2
<1> QED
  <2> SUFFICES ASSUME ~(Spawn \/ ToolCompletes) PROVE ran' = ran
    BY <1>1, <1>2
  <2>1. CASE CommandStep
    BY <2>1 DEF CommandStep, Dial, RecvAck, SendNoise, RecvResp, RecvFails, BeginWrite, Request, SendChunk,
       CreateLocal, TakeFrame, ExecHandler, ReadFileHandler, DownloadHandler, WriteFileHandler,
       UploadHandler, EditFileHandler, StatHandler, ListDirectoryHandler, SearchHandler,
       CapabilitiesHandler, Takes, Cancelled, Close
  <2>2. CASE ~CommandStep
    BY <2>2 DEF Next, vars, ReaderStep, PeerStep, PeerFailure, ReaderRecv, ReaderPut, ReaderEnds,
       Timeout, Break, Stall, Admit, HangUp, Noise, StartTool, ServeChunk, StoreChunk,
       Dismiss, ToolFails, ToolGone
  <2> QED BY <2>1, <2>2

\* README.md, "Output contract": a command that reports success was carried
\* out, one that reports retry_safe never is, and none is carried out twice,
\* whatever is lost, late or interrupted.
THEOREM CommandKeepsContract == Spec => KeepsContract
<1>1. Init => ContractInv /\ Contract!Init
  BY ContractInvInit DEF Init, Contract!Init
<1>2. ContractInv /\ [Next]_vars => ContractInv'
  BY ContractInvNext
<1>3. ContractInv /\ ContractInv' /\ [Next]_vars => [Contract!Next]_(Contract!vars)
  BY ContractStep
<1> QED
  BY <1>1, <1>2, <1>3, PTL DEF Spec, KeepsContract, Contract!Spec
-----------------------------------------------------------------------------
(* What a command that reports success has *)

\* Nothing has been sent or taken.
LEMMA ClientInvInit == Init => ClientInv
<1> SUFFICES ASSUME Init PROVE ClientInv
  OBVIOUS
<1>1. ContractInv
  BY ContractInvInit
<1>2. TypeOK
  <2>1. /\ <<>> \in Seq(UpFrames) /\ <<>> \in Seq(DownFrames) /\ <<>> \in Seq(1 .. Last)
        /\ Untouched \in Seq(0 .. Last) /\ Len(<<>>) <= CallCap /\ 1 \in 1 .. Last + 1 /\ 0 \in 0 .. Last
        /\ Frame("error", 0) \in DownFrames
    BY BoundAssumption, FrameType DEF Untouched
  <2> QED
    BY <2>1 DEF Init, TypeOK
<1>3. Counts(<<>>, 0) /\ Len(<<>>) = 0
  BY CountsEmpty
<1>4. StoreInv
  <2>1. 0 \in 0 .. Last + 1 /\ Runs(up, FromCommand, UpNum, 0, 0)
    BY BoundAssumption, RunsEmpty DEF Init
  <2> QED
    BY <1>3, <2>1 DEF Init, StoreInv, Early, Over
<1>5. CallInv
  BY DEF Init, CallInv, Early, Over
<1>6. FlowInv
  <2>1. Taken = <<>>
    BY DEF Init, Taken, Early
  <2>2. 1 \in 1 .. Last + 2 /\ Len(Taken) + 1 = 1 /\ served + 1 = 1
    BY <1>3, <2>1, BoundAssumption DEF Init
  <2>3. Runs(ch, FromTool, DownNum, 1, 1) /\ Runs(down, FromTool, DownNum, 1, 1)
    BY RunsEmpty DEF Init
  <2> QED
    BY <1>3, <2>1, <2>2, <2>3 DEF Init, FlowInv
<1> QED
  BY <1>1, <1>2, <1>4, <1>5, <1>6 DEF ClientInv

\* A data frame is numbered.
LEMMA DataForms ==
    /\ \A f \in UpFrames : f.k \in 0 .. Last /\ (f.t = "data" => f.k \in 1 .. Last)
                           /\ (f.t # "data" => f.k = 0)
    /\ \A f \in DownFrames : f.k \in 0 .. Last /\ (f.t = "data" => f.k \in 1 .. Last)
    /\ UpNum \in [UpFrames -> Nat] /\ DownNum \in [DownFrames -> Nat]
<1>1. /\ \A f \in UpFrames : f.k \in 0 .. Last /\ (f.t = "data" => f.k \in 1 .. Last)
                             /\ (f.t # "data" => f.k = 0)
      /\ \A f \in DownFrames : f.k \in 0 .. Last /\ (f.t = "data" => f.k \in 1 .. Last)
  BY BoundAssumption DEF UpFrames, DownFrames, DataFrames
<1>2. \A f \in DownFrames : (IF f.t = "complete" THEN Last + 1 ELSE f.k) \in Nat
  BY <1>1, BoundAssumption
<1>3. \A f \in UpFrames : f.k \in Nat
  BY <1>1, BoundAssumption
<1> QED
  BY <1>1, <1>2, <1>3 DEF UpNum, DownNum

\* The handler that takes a frame returns, or keeps it and goes on.
LEMMA HandlerTakes ==
    ASSUME TakeFrame
    PROVE  /\ pc = "wait" /\ ch # <<>> /\ ch' = Tail(ch)
           /\ UNCHANGED <<kind, e2e, next, netVars, conn, up, down, readerVars, peerVars>>
           /\ \/ /\ Head(ch).t = "data" /\ UNCHANGED <<pc, result, pend>>
                 /\ \/ kind \in {"exec", "read"} /\ got' = Append(got, Head(ch).k) /\ UNCHANGED local
                    \/ kind = "download" /\ local' = Append(local, Head(ch).k) /\ UNCHANGED got
              \/ /\ pc' = "close" /\ pend' = FALSE /\ UNCHANGED <<got, local>>
                 /\ result' = "failed" \/ (Head(ch).t = "complete" /\ result' = "ok")
BY DEF TakeFrame, ExecHandler, ReadFileHandler, DownloadHandler, WriteFileHandler,
       UploadHandler, EditFileHandler, StatHandler, ListDirectoryHandler, SearchHandler,
       CapabilitiesHandler, Takes, Stays, Final, BadChunk, Collect, Inbound, Return

\* What a step does not change: most of all, what only one action changes.
LEMMA OnlyChanges ==
    ASSUME [Next]_vars
    PROVE  /\ kind' = kind /\ e2e' = e2e
           /\ stored' = stored \/ StoreChunk
           /\ (got' = got /\ local' = local) \/ TakeFrame \/ CreateLocal
           /\ ch' = ch \/ Request \/ TakeFrame \/ ReaderPut
<1> USE DEF mainVars, readerVars, callVars, peerVars, netVars
<1>1. CASE CommandStep
  <2>1. CASE TakeFrame
    BY <2>1, HandlerTakes
  <2> QED
    BY <1>1, <2>1 DEF CommandStep, Dial, RecvAck, SendNoise, RecvResp, RecvFails, BeginWrite, Request, SendChunk, CreateLocal,
       Cancelled, Close
<1>2. CASE ReaderStep
  BY <1>2 DEF ReaderStep, ReaderRecv, ReaderPut, ReaderEnds
<1>3. CASE PeerStep
  BY <1>3 DEF PeerStep, Admit, HangUp, Noise, StartTool, Spawn, ServeChunk, StoreChunk, ToolCompletes
<1>4. CASE PeerFailure \/ Timeout \/ Break \/ Stall \/ UNCHANGED vars
  BY <1>4 DEF PeerFailure, Dismiss, ToolFails, ToolGone, Timeout, Break, Stall, vars
<1> QED
  BY <1>1, <1>2, <1>3, <1>4 DEF Next

\* A type is kept.
LEMMA TypeStep == ClientInv /\ [Next]_vars => TypeOK'
<1> SUFFICES ASSUME ClientInv, [Next]_vars PROVE TypeOK'
  OBVIOUS
<1>t. TypeOK /\ ContractInv'
  BY ContractInvNext DEF ClientInv
<1>o. /\ kind' = kind /\ e2e' = e2e
      /\ stored' = stored \/ StoreChunk
      /\ (got' = got /\ local' = local) \/ TakeFrame \/ CreateLocal
      /\ ch' = ch \/ Request \/ TakeFrame \/ ReaderPut
  BY OnlyChanges
<1>1. /\ timer' \in {"live", "done"} /\ stalled' \in BOOLEAN /\ writing' \in BOOLEAN
      /\ conn' \in {"none", "open", "broken", "closed"}
      /\ rd' \in {"off", "recv", "put", "end"} /\ pend' \in BOOLEAN /\ peer' \in {"new", "admitted", "gone"}
  <2> USE DEF mainVars, readerVars, callVars, peerVars, netVars, TypeOK
  <2>1. CASE CommandStep
    <3>1. CASE TakeFrame
      BY <1>t, <3>1, HandlerTakes
    <3> QED
      BY <1>t, <2>1, <3>1 DEF CommandStep, Dial, RecvAck, SendNoise, RecvResp, RecvFails, BeginWrite, Request, SendChunk, CreateLocal,
         Cancelled, Close, DialFails, StartRouter, Return, EndWrite
  <2>2. CASE ReaderStep
    BY <1>t, <2>2 DEF ReaderStep, ReaderRecv, ReaderPut, ReaderEnds
  <2>3. CASE PeerStep
    BY <1>t, <2>3 DEF PeerStep, Admit, HangUp, Noise, StartTool, Spawn, ServeChunk, StoreChunk, ToolCompletes
  <2>4. CASE PeerFailure \/ Timeout \/ Break \/ Stall \/ UNCHANGED vars
    BY <1>t, <2>4 DEF PeerFailure, Dismiss, ToolFails, ToolGone, Timeout, Break, Stall, vars
  <2> QED
    BY <2>1, <2>2, <2>3, <2>4 DEF Next
<1>2. stored' \in Seq(1 .. Last)
  <2>1. CASE stored' = stored
    BY <1>t, <2>1 DEF TypeOK
  <2>2. CASE StoreChunk
    <3>1. up \in Seq(UpFrames) /\ up # <<>> /\ Head(up).t = "data"
      BY <1>t, <2>2 DEF TypeOK, StoreChunk
    <3>2. Head(up) \in UpFrames
      BY <3>1
    <3>3. Head(up).k \in 1 .. Last /\ stored \in Seq(1 .. Last)
      BY <1>t, <3>1, <3>2, DataForms DEF TypeOK
    <3>4. Append(stored, Head(up).k) \in Seq(1 .. Last)
      BY <3>3
    <3> QED
      BY <2>2, <3>3, <3>4 DEF StoreChunk
  <2> QED BY <1>o, <2>1, <2>2
<1>3. got' \in Seq(1 .. Last) /\ local' \in Seq(0 .. Last)
  <2>1. got \in Seq(1 .. Last) /\ local \in Seq(0 .. Last) /\ ch \in Seq(DownFrames)
    BY <1>t DEF TypeOK
  <2>2. CASE TakeFrame
    <3>1. ch # <<>>
      BY <2>2, HandlerTakes
    <3>2. Head(ch) \in DownFrames
      BY <2>1, <3>1
    <3>3. Head(ch).t = "data" => Head(ch).k \in 1 .. Last /\ Head(ch).k \in 0 .. Last
      BY <3>2, DataForms
    <3>4. Head(ch).t = "data" => Append(got, Head(ch).k) \in Seq(1 .. Last)
                                 /\ Append(local, Head(ch).k) \in Seq(0 .. Last)
      BY <2>1, <3>3
    <3> QED
      BY <2>1, <2>2, <3>4, HandlerTakes
  <2>3. CASE CreateLocal
    <3>1. <<>> \in Seq(0 .. Last)
      OBVIOUS
    <3> QED
      BY <2>1, <2>3, <3>1 DEF CreateLocal, Return
  <2> QED BY <1>o, <2>1, <2>2, <2>3
<1>4. Len(ch') <= CallCap
  <2>1. ch \in Seq(DownFrames) /\ Len(ch) <= CallCap /\ hand \in DownFrames
    BY <1>t DEF TypeOK
  <2>2. CASE Request
    BY <2>2, BoundAssumption DEF Request
  <2>3. CASE TakeFrame
    <3>1. ch # <<>> /\ ch' = Tail(ch)
      BY <2>3, HandlerTakes
    <3>2. Len(Tail(ch)) = Len(ch) - 1 /\ Len(ch) \in Nat
      BY <2>1, <3>1
    <3> QED
      BY <2>1, <3>1, <3>2, BoundAssumption
  <2>4. CASE ReaderPut
    <3>1. Len(ch) < CallCap /\ ch' = Append(ch, hand)
      BY <2>4 DEF ReaderPut
    <3>2. Len(Append(ch, hand)) = Len(ch) + 1 /\ Len(ch) \in Nat
      BY <2>1
    <3> QED
      BY <3>1, <3>2, BoundAssumption
  <2> QED BY <1>o, <2>1, <2>2, <2>3, <2>4
<1>5. next' \in 1 .. Last + 1 /\ ran' \in Nat
  BY <1>t, BoundAssumption DEF ContractInv, CallType
<1> QED
  BY <1>t, <1>o, <1>1, <1>2, <1>3, <1>4, <1>5 DEF TypeOK, ContractInv, CallType, ReportInv, Pcs, Tools

\* A call that waits is registered.
LEMMA CallStep == ClientInv /\ [Next]_vars => CallInv'
<1> SUFFICES ASSUME ClientInv, [Next]_vars PROVE CallInv'
  OBVIOUS
<1>t. TypeOK /\ ContractInv /\ CallInv
  BY DEF ClientInv
<1> USE <1>t DEF mainVars, readerVars, callVars, peerVars, netVars, CallInv, Early, Over,
                 DialFails, StartRouter, Return
<1>1. CASE Dial \/ RecvAck \/ SendNoise \/ RecvResp \/ RecvFails \/ BeginWrite
  BY <1>1 DEF Dial, RecvAck, SendNoise, RecvResp, RecvFails, BeginWrite
<1>2. CASE Request
  BY <1>2, BoundAssumption DEF Request, AfterRequest, TypeOK, Sending
<1>3. CASE SendChunk \/ CreateLocal \/ Cancelled \/ Close
  BY <1>3 DEF SendChunk, CreateLocal, Cancelled, Close
<1>4. CASE TakeFrame
  BY <1>4, HandlerTakes
<1>5. CASE ReaderStep
  BY <1>5 DEF ReaderStep, ReaderRecv, ReaderPut, ReaderEnds
<1>6. CASE PeerStep
  BY <1>6 DEF PeerStep, Admit, HangUp, Noise, StartTool, Spawn, ServeChunk, StoreChunk, ToolCompletes
<1>7. CASE PeerFailure \/ Timeout \/ Break \/ Stall \/ UNCHANGED vars
  BY <1>7 DEF PeerFailure, Dismiss, ToolFails, ToolGone, Timeout, Break, Stall, vars
<1> QED
  BY <1>1, <1>2, <1>3, <1>4, <1>5, <1>6, <1>7 DEF Next, CommandStep

\* The count of what goes to the daemon is untouched by other frames, and by a
\* command that returns.
LEMMA StoreKept ==
    ASSUME TypeOK, StoreInv, UNCHANGED <<tool, stored, ran, kind, next>>,
           pc' \in Early => pc \in Early, pc' \notin Early \cup Over => pc \notin Early \cup Over,
           \/ up' = up
           \/ \E f \in UpFrames : f \notin FromCommand /\ up' = Append(up, f)
           \/ up # <<>> /\ Head(up) \notin FromCommand /\ up' = Tail(up)
    PROVE  StoreInv'
<1>1. PICK a \in 0 .. Last + 1, b \in 0 .. Last + 1 :
        /\ Runs(up, FromCommand, UpNum, a, b)
        /\ pc \in Early => b = 0
        /\ pc \notin Early \cup Over => b = next
        /\ tool = "none" => a = 0
        /\ tool = "collect" => a = Len(stored) + 1
  BY DEF StoreInv
<1>2. a \in Nat /\ b \in Nat /\ up \in Seq(UpFrames) /\ UpNum \in [UpFrames -> Nat]
  BY BoundAssumption, DataForms DEF TypeOK
<1>3. Runs(up', FromCommand, UpNum, a, b)
  <2>1. ASSUME NEW f \in UpFrames, f \notin FromCommand PROVE Runs(Append(up, f), FromCommand, UpNum, a, b)
    BY <1>1, <1>2, <2>1, RunsAppendOther
  <2>2. up # <<>> /\ Head(up) \notin FromCommand => Runs(Tail(up), FromCommand, UpNum, a, b)
    BY <1>1, <1>2, RunsTail
  <2> QED
    BY <1>1, <2>1, <2>2
<1> QED
  BY <1>1, <1>3 DEF StoreInv

\* What the command sends arrives without a gap.
LEMMA StoreStep == ClientInv /\ [Next]_vars => StoreInv'
<1> SUFFICES ASSUME ClientInv, [Next]_vars PROVE StoreInv'
  OBVIOUS
<1>t. TypeOK /\ ContractInv /\ CallInv /\ StoreInv
  BY DEF ClientInv
<1>y. /\ up \in Seq(UpFrames) /\ stored \in Seq(1 .. Last) /\ Len(stored) \in Nat /\ next \in Nat /\ next \in 1 .. Last + 1
      /\ UpNum \in [UpFrames -> Nat] /\ \A f \in UpFrames : UpNum[f] = f.k
      /\ Last \in Nat \ {0}
  BY <1>t, BoundAssumption, DataForms DEF TypeOK, UpNum
<1>s. stored \in Seq(Nat) /\ Counts(stored, 0)
  <2>1. 1 .. Last \subseteq Nat
    BY <1>y
  <2> QED
    BY <1>t, <1>y, <2>1, SeqWider DEF StoreInv
<1>b. PICK a \in 0 .. Last + 1, b \in 0 .. Last + 1 :
        /\ Runs(up, FromCommand, UpNum, a, b)
        /\ pc \in Early => b = 0
        /\ pc \notin Early \cup Over => b = next
        /\ tool = "none" => a = 0
        /\ tool = "collect" => a = Len(stored) + 1
  BY <1>t DEF StoreInv
<1>n. a \in Nat /\ b \in Nat
  BY <1>y
<1>z. /\ tool = "none" => stored = <<>>
      /\ tool = "serve" => kind \notin Sending
      /\ tool = "collect" => kind \in Sending
      /\ kind \in Sending /\ ran # 0 => tool = "done" /\ stored = UpTo(Last)
  BY <1>t DEF StoreInv
<1>h. ASSUME up # <<>>, Head(up) \in FromCommand
      PROVE  Head(up).k = a /\ a + 1 \in 0 .. Last + 1 /\ Runs(Tail(up), FromCommand, UpNum, a + 1, b)
  <2>1. UpNum[Head(up)] = a /\ a < b /\ Runs(Tail(up), FromCommand, UpNum, a + 1, b)
    BY <1>b, <1>h, <1>n, <1>y, RunsHead
  <2>2. Head(up) \in UpFrames
    BY <1>h DEF FromCommand
  <2>3. a + 1 \in 0 .. Last + 1
    BY <1>n, <1>y, <2>1
  <2> QED
    BY <1>y, <2>1, <2>2, <2>3
<1> USE DEF mainVars, readerVars, callVars, peerVars, netVars
<1>1. CASE Dial \/ RecvAck \/ SendNoise
  <2>1. /\ UNCHANGED <<tool, stored, ran, kind, next>> /\ pc \in {"dial", "ack", "noise"}
        /\ pc' \in {"ack", "noise", "resp", "request", "done"}
        /\ \/ up' = up \/ up' = Append(up, Frame("hello", 0)) \/ up' = Append(up, Frame("noise", 0))
    BY <1>1 DEF Dial, RecvAck, SendNoise, DialFails, StartRouter
  <2>2. \A t \in {"hello", "noise"} : Frame(t, 0) \in UpFrames /\ Frame(t, 0) \notin FromCommand
    BY FrameType DEF FromCommand
  <2> QED
    BY <1>t, <2>1, <2>2, StoreKept DEF Early, Over
<1>2. CASE RecvResp \/ RecvFails
  <2>1. UNCHANGED <<tool, stored, ran, kind, next, up>> /\ pc \in {"ack", "resp"} /\ pc' \in {"request", "done"}
    BY <1>2 DEF RecvResp, RecvFails, DialFails, StartRouter
  <2> QED
    BY <1>t, <2>1, StoreKept DEF Early, Over
<1>3. CASE Request
  <2> DEFINE f == Frame("req", 0)
  <2>1. UNCHANGED <<tool, stored, ran, kind, next>> /\ pc = "request"
    BY <1>3 DEF Request
  <2>2. \/ pc' = "close" /\ up' = up
        \/ pc' \in {"create", "chunks", "wait"} /\ up' = Append(up, f)
    BY <1>3 DEF Request, AfterRequest, Return
  <2>3. f \in UpFrames /\ f \in FromCommand /\ UpNum[f] = 0
    <3>1. f \in UpFrames /\ f.t = "req"
      BY FrameType
    <3> QED
      BY <1>y, <3>1, DataForms DEF FromCommand
  <2> HIDE DEF f
  <2>4. CASE pc' = "close" /\ up' = up
    BY <1>t, <2>1, <2>4, StoreKept DEF Early, Over
  <2>5. CASE pc' \in {"create", "chunks", "wait"} /\ up' = Append(up, f)
    <3>1. b = 0 /\ next = 1
      BY <1>b, <1>t, <2>1 DEF CallInv, Early
    <3>2. Runs(up', FromCommand, UpNum, a, b + 1)
      BY <1>b, <1>n, <1>y, <2>3, <2>5, <3>1, RunsAppend
    <3>3. b + 1 \in 0 .. Last + 1 /\ b + 1 = next /\ pc' \notin Early \cup Over
      BY <1>y, <2>5, <3>1 DEF Early, Over
    <3> QED
      BY <1>b, <1>s, <1>z, <2>1, <3>2, <3>3 DEF StoreInv
  <2> QED BY <2>2, <2>4, <2>5
<1>4. CASE SendChunk
  <2> DEFINE f == Frame("data", next)
  <2>1. UNCHANGED <<tool, stored, ran, kind>> /\ pc = "chunks"
    BY <1>4 DEF SendChunk
  <2>2. \/ pc' = "close" /\ up' = up /\ next' = next
        \/ pc' \in {"chunks", "wait"} /\ up' = Append(up, f) /\ next' = next + 1
    BY <1>4 DEF SendChunk, Return
  <2>3. next \in 1 .. Last
    BY <1>t, <1>y, <2>1 DEF ContractInv, CallType
  <2>4. f \in UpFrames /\ f \in FromCommand /\ UpNum[f] = next
    <3>1. f \in UpFrames /\ f.t = "data" /\ f.k = next
      BY <2>3, FrameType
    <3> QED
      BY <1>y, <3>1 DEF FromCommand
  <2> HIDE DEF f
  <2>5. CASE pc' = "close" /\ up' = up /\ next' = next
    BY <1>t, <2>1, <2>5, StoreKept DEF Early, Over
  <2>6. CASE pc' \in {"chunks", "wait"} /\ up' = Append(up, f) /\ next' = next + 1
    <3>1. b = next
      BY <1>b, <2>1 DEF Early, Over
    <3>2. Runs(up', FromCommand, UpNum, a, b + 1)
      BY <1>b, <1>n, <1>y, <2>4, <2>6, <3>1, RunsAppend
    <3>3. b + 1 \in 0 .. Last + 1 /\ b + 1 = next' /\ pc' \notin Early \cup Over /\ pc' \notin Early
      BY <1>y, <2>3, <2>6, <3>1 DEF Early, Over
    <3> QED
      BY <1>b, <1>s, <1>z, <2>1, <3>2, <3>3 DEF StoreInv
  <2> QED BY <2>2, <2>5, <2>6
<1>5. CASE CreateLocal \/ Cancelled \/ Close
  <2>1. /\ UNCHANGED <<tool, stored, ran, kind, next, up>> /\ pc \in {"create", "wait", "close"}
        /\ pc' \in {"wait", "close", "done"} /\ (pc = "close" => pc' = "done")
    BY <1>5 DEF CreateLocal, Cancelled, Close, Return
  <2> QED
    BY <1>t, <2>1, StoreKept DEF Early, Over
<1>6. CASE TakeFrame
  <2>1. UNCHANGED <<tool, stored, ran, kind, next, up>> /\ pc = "wait" /\ pc' \in {"wait", "close"}
    BY <1>6, HandlerTakes
  <2> QED
    BY <1>t, <2>1, StoreKept DEF Early, Over
<1>7. CASE Admit \/ Noise
  <2>1. /\ UNCHANGED <<tool, stored, ran, kind, next, pc>> /\ up # <<>> /\ up' = Tail(up)
        /\ Head(up).t \in {"hello", "noise"}
    BY <1>7 DEF Admit, Noise
  <2> QED
    BY <1>t, <2>1, StoreKept DEF FromCommand
<1>8. CASE StartTool
  <2>1. /\ UNCHANGED <<stored, ran, kind, next, pc>> /\ up # <<>> /\ up' = Tail(up) /\ Head(up).t = "req"
        /\ tool' \in {"collect", "serve", "gone"}
        /\ tool' = "collect" => kind \in Sending
        /\ tool' = "serve" => kind \notin Sending
    <3>1. (tool' = IF kind \in Sending THEN "collect" ELSE "serve") \/ tool' = "gone"
      BY <1>8 DEF StartTool
    <3>2. /\ UNCHANGED <<stored, ran, kind, next, pc>> /\ up # <<>> /\ up' = Tail(up)
          /\ Head(up).t = "req"
      BY <1>8 DEF StartTool
    <3> QED
      BY <3>1, <3>2
  <2>2. Head(up) \in UpFrames
    BY <1>y, <2>1
  <2>3. Head(up) \in FromCommand /\ Head(up).k = 0
    BY <2>1, <2>2, DataForms DEF FromCommand
  <2>4. tool = "none" /\ ran = 0
    <3>1. ~NoReq(up)
      BY <1>y, <2>1, Received
    <3> QED
      BY <1>t, <3>1 DEF ContractInv, RequestInv
  <2>5. a = 0 /\ stored = <<>> /\ Len(stored) = 0 /\ a + 1 = Len(stored) + 1
    BY <1>h, <1>z, <2>1, <2>3, <2>4
  <2>6. Runs(up', FromCommand, UpNum, a + 1, b) /\ a + 1 \in 0 .. Last + 1
    BY <1>h, <2>1, <2>3
  <2> QED
    BY <1>b, <1>s, <2>1, <2>4, <2>5, <2>6 DEF StoreInv
<1>9. CASE StoreChunk
  <2>1. /\ UNCHANGED <<tool, ran, kind, next, pc>> /\ up # <<>> /\ up' = Tail(up) /\ Head(up).t = "data"
        /\ stored' = IF tool = "collect" THEN Append(stored, Head(up).k) ELSE stored
    BY <1>9 DEF StoreChunk
  <2>2. Head(up) \in UpFrames
    BY <1>y, <2>1
  <2>3. Head(up) \in FromCommand /\ Head(up).k \in 1 .. Last
    BY <2>1, <2>2, DataForms DEF FromCommand
  <2>4. Head(up).k = a /\ Runs(up', FromCommand, UpNum, a + 1, b) /\ a + 1 \in 0 .. Last + 1 /\ tool # "none"
    BY <1>b, <1>h, <2>1, <2>3
  <2>5. CASE tool = "collect"
    <3>1. a = Len(stored) + 1 /\ stored' = Append(stored, a) /\ a = 0 + Len(stored) + 1
      BY <1>b, <1>y, <2>1, <2>4, <2>5
    <3>2. Counts(stored', 0) /\ Len(stored') = Len(stored) + 1
      BY <1>n, <1>s, <3>1, CountsAppend
    <3>3. ~(kind \in Sending /\ ran # 0)
      BY <1>z, <2>5
    <3> QED
      BY <1>b, <1>z, <2>1, <2>4, <2>5, <3>1, <3>2, <3>3 DEF StoreInv
  <2>6. CASE tool # "collect"
    BY <1>b, <1>s, <1>z, <2>1, <2>4, <2>6 DEF StoreInv
  <2> QED BY <2>5, <2>6
<1>10. CASE Spawn
  <2>1. UNCHANGED <<up, pc, next, tool, stored, kind>> /\ kind \notin Sending
    BY <1>10 DEF Spawn, Sending
  <2> QED
    BY <1>b, <1>s, <1>z, <2>1 DEF StoreInv
<1>11. CASE ToolCompletes
  <2>1. /\ UNCHANGED <<up, pc, next, stored, kind>> /\ tool' = "done"
        /\ tool = "serve" \/ (tool = "collect" /\ stored # <<>> /\ stored[Len(stored)] = Last)
    BY <1>11 DEF ToolCompletes
  <2>2. kind \in Sending => stored = UpTo(Last)
    <3>1. SUFFICES ASSUME kind \in Sending PROVE stored = UpTo(Last)
      OBVIOUS
    <3>2. stored # <<>> /\ stored[Len(stored)] = Last
      BY <1>z, <2>1, <3>1
    <3>3. Len(stored) \in 1 .. Len(stored)
      BY <1>y, <3>2
    <3>4. Len(stored) = Last
      BY <1>s, <1>y, <3>2, <3>3 DEF Counts
    <3>5. UpTo(Last) \in Seq(Nat) /\ Len(UpTo(Last)) = Last /\ Counts(UpTo(Last), 0)
      BY <1>y DEF UpTo, Counts
    <3> QED
      BY <1>s, <3>4, <3>5, CountsEqual
  <2> QED
    BY <1>b, <1>s, <1>z, <2>1, <2>2 DEF StoreInv
<1>12. CASE ToolFails \/ ToolGone
  <2>1. /\ UNCHANGED <<up, pc, next, stored, kind, ran>> /\ tool' \in {"done", "gone"}
        /\ tool \in {"serve", "collect"}
    BY <1>12 DEF ToolFails, ToolGone
  <2>2. ~(kind \in Sending /\ ran # 0)
    BY <1>z, <2>1
  <2> QED
    BY <1>b, <1>s, <1>z, <2>1, <2>2 DEF StoreInv
<1>13. CASE BeginWrite \/ ReaderStep \/ HangUp \/ ServeChunk \/ Dismiss \/ Timeout \/ Break \/ Stall \/ UNCHANGED vars
  <2>1. UNCHANGED <<up, pc, next, tool, stored, kind, ran>>
    BY <1>13 DEF BeginWrite, ReaderStep, ReaderRecv, ReaderPut, ReaderEnds, HangUp, ServeChunk, Dismiss, Timeout, Break,
                 Stall, vars
  <2> QED
    BY <1>t, <2>1, StoreKept
<1> QED
  BY <1>1, <1>2, <1>3, <1>4, <1>5, <1>6, <1>7, <1>8, <1>9, <1>10, <1>11, <1>12, <1>13
  DEF Next, CommandStep, PeerStep, PeerFailure

\* A command that returns without success is of no interest.
LEMMA FlowOver == pc' \in Over /\ result' \in {"failed", "retry_safe"} => FlowInv'
BY DEF FlowInv

\* The count of what comes back is untouched by frames that are no data, and by
\* a reader that ends.
LEMMA FlowKept ==
    ASSUME TypeOK, FlowInv, UNCHANGED <<kind, result, ch, hand, served>>, Taken' = Taken,
           pc' \notin Over => pc \notin Over, Heard' => Heard,
           rd' # "end" => rd # "end" /\ (rd' = "put" <=> rd = "put"),
           \/ down' = down
           \/ \E f \in DownFrames : f \notin FromTool /\ down' = Append(down, f)
           \/ down # <<>> /\ Head(down) \notin FromTool /\ down' = Tail(down)
    PROVE  FlowInv'
<1>1. CASE kind \notin Streaming \/ pc' \in Over
  BY <1>1 DEF FlowInv
<1>2. CASE kind \in Streaming /\ pc' \notin Over
  <2>1. PICK p \in 1 .. Last + 2, r \in 1 .. Last + 2 :
          /\ Runs(ch, FromTool, DownNum, Len(Taken) + 1, p)
          /\ rd # "end" =>
                IF rd = "put" /\ hand \in FromTool
                THEN DownNum[hand] = p /\ Runs(down, FromTool, DownNum, p + 1, r)
                ELSE Runs(down, FromTool, DownNum, p, r)
          /\ Heard => r = served + 1
    BY <1>2 DEF FlowInv
  <2>2. ASSUME NEW x \in Nat, Runs(down, FromTool, DownNum, x, r)
        PROVE  Runs(down', FromTool, DownNum, x, r)
    <3>1. r \in Nat /\ down \in Seq(DownFrames) /\ DownNum \in [DownFrames -> Nat]
      BY BoundAssumption, DataForms DEF TypeOK
    <3>2. ASSUME NEW f \in DownFrames, f \notin FromTool PROVE Runs(Append(down, f), FromTool, DownNum, x, r)
      BY <2>2, <3>1, <3>2, RunsAppendOther
    <3>3. down # <<>> /\ Head(down) \notin FromTool => Runs(Tail(down), FromTool, DownNum, x, r)
      BY <2>2, <3>1, RunsTail
    <3> QED
      BY <2>2, <3>2, <3>3
  <2>3. p \in Nat /\ p + 1 \in Nat
    BY BoundAssumption
  <2>4. rd' # "end" =>
          IF rd' = "put" /\ hand' \in FromTool
          THEN DownNum[hand'] = p /\ Runs(down', FromTool, DownNum, p + 1, r)
          ELSE Runs(down', FromTool, DownNum, p, r)
    BY <2>1, <2>2, <2>3
  <2> QED
    BY <1>2, <2>1, <2>4 DEF FlowInv
<1> QED BY <1>1, <1>2

\* What a tool sends reaches the handler without a gap.
LEMMA FlowStep == ClientInv /\ [Next]_vars => FlowInv'
<1> SUFFICES ASSUME ClientInv, [Next]_vars PROVE FlowInv'
  OBVIOUS
<1>t. TypeOK /\ ContractInv /\ CallInv /\ StoreInv /\ FlowInv
  BY DEF ClientInv
<1> USE DEF mainVars, readerVars, callVars, peerVars, netVars
<1>1. CASE Dial \/ SendNoise
  <2>1. CASE result' = "retry_safe"
    <3>1. pc' = "done"
      BY <1>1, <1>t, <2>1 DEF Dial, SendNoise, DialFails, ContractInv, ReportInv
    <3> QED
      BY <2>1, <3>1, FlowOver DEF Over
  <2>2. CASE result' # "retry_safe"
    <3>1. /\ UNCHANGED <<kind, result, ch, hand, served, rd, tool, peer, got, local, down>>
          /\ pc \in {"dial", "noise"} /\ pc' \in {"ack", "resp"}
      BY <1>1, <2>2 DEF Dial, SendNoise, DialFails
    <3> QED
      BY <1>t, <3>1, FlowKept DEF Taken, Early, Over, Heard
  <2> QED BY <2>1, <2>2
<1>2. CASE RecvAck \/ RecvResp \/ RecvFails
  <2>1. CASE result' = "retry_safe"
    <3>1. pc' = "done"
      BY <1>2, <1>t, <2>1 DEF RecvAck, RecvResp, RecvFails, DialFails, StartRouter, ContractInv, ReportInv
    <3> QED
      BY <2>1, <3>1, FlowOver DEF Over
  <2>2. CASE result' # "retry_safe"
    <3>1. /\ UNCHANGED <<kind, result, ch, hand, served, tool, peer, got, local>>
          /\ pc \in {"ack", "resp"} /\ pc' \in {"request", "noise"}
          /\ down # <<>> /\ Head(down).t \in {"ack", "resp"} /\ down' = Tail(down)
          /\ rd' = rd \/ rd' = "recv"
      BY <1>2, <2>2 DEF RecvAck, RecvResp, RecvFails, DialFails, StartRouter
    <3>2. rd = "off"
      BY <1>t, <3>1 DEF CallInv
    <3> QED
      BY <1>t, <3>1, <3>2, FlowKept DEF Taken, Early, Over, Heard, FromTool
  <2> QED BY <2>1, <2>2
<1>3. CASE Request
  <2>1. CASE result' = "failed"
    <3>1. pc' = "close"
      BY <1>3, <1>t, <2>1 DEF Request, Return, ContractInv, ReportInv
    <3> QED
      BY <2>1, <3>1, FlowOver DEF Over
  <2>2. CASE result' # "failed"
    <3>1. /\ UNCHANGED <<kind, result, hand, served, rd, tool, peer, got, local, down>>
          /\ pc = "request" /\ pc' = AfterRequest /\ ch' = <<>>
      BY <1>3, <2>2 DEF Request, Return
    <3>2. ch = <<>>
      BY <1>t, <3>1 DEF CallInv, Early
    <3>3. pc' \notin Over /\ (kind = "download" => pc' = "create")
      <4>1. AfterRequest \in {"create", "chunks", "wait"} /\ (kind = "download" => AfterRequest = "create")
        BY DEF AfterRequest, Sending
      <4> QED
        BY <3>1, <4>1 DEF Over
    <3>4. Taken' = Taken
      BY <3>1, <3>3 DEF Taken, Early
    <3> QED
      BY <1>t, <3>1, <3>2, <3>4, FlowKept DEF Early, Over, Heard
  <2> QED BY <2>1, <2>2
<1>4. CASE SendChunk \/ Cancelled \/ CreateLocal
  <2>1. CASE result' = "failed"
    <3>1. pc' = "close"
      BY <1>4, <1>t, <2>1 DEF SendChunk, Cancelled, CreateLocal, Return, ContractInv, ReportInv
    <3> QED
      BY <2>1, <3>1, FlowOver DEF Over
  <2>2. CASE result' # "failed"
    <3>1. /\ UNCHANGED <<kind, result, ch, hand, served, rd, tool, peer, got, down>>
          /\ \/ pc = "chunks" /\ pc' \in {"chunks", "wait"} /\ UNCHANGED local
             \/ pc = "create" /\ pc' = "wait" /\ local' = <<>>
      BY <1>4, <2>2 DEF SendChunk, Cancelled, CreateLocal, Return
    <3>2. Taken' = Taken
      BY <1>t, <3>1 DEF Taken, CallInv, Early
    <3> QED
      BY <1>t, <3>1, <3>2, FlowKept DEF Over, Heard
  <2> QED BY <2>1, <2>2
<1>5. CASE Close
  <2>1. /\ UNCHANGED <<kind, result, ch, hand, served, rd, tool, peer, got, local, down>>
        /\ pc = "close" /\ pc' = "done"
    BY <1>5 DEF Close
  <2> QED
    BY <1>t, <2>1, FlowKept DEF Taken, Early, Over, Heard
<1>6. CASE Admit \/ Dismiss \/ Noise \/ ToolFails
  <2>1. /\ UNCHANGED <<kind, result, ch, hand, served, rd, pc, got, local>>
        /\ \/ down' = down
           \/ \E t \in {"ack", "resp", "error", "fail"} : down' = Append(down, Frame(t, 0))
        /\ UNCHANGED tool \/ tool' = "done"
        /\ peer' = "admitted" => peer = "admitted" \/ peer = "new"
    BY <1>6 DEF Admit, Dismiss, Noise, ToolFails, Says, ToClient
  <2>2. \A t \in {"ack", "resp", "error", "fail"} : Frame(t, 0) \in DownFrames /\ Frame(t, 0) \notin FromTool
    BY FrameType DEF FromTool
  <2>3. Heard' => Heard
    BY <1>t, <2>1 DEF Heard, CallInv
  <2>4. Taken' = Taken
    BY <2>1 DEF Taken
  <2> QED
    BY <1>t, <2>1, <2>2, <2>3, <2>4, FlowKept
<1>7. CASE StartTool
  <2>1. /\ UNCHANGED <<kind, result, ch, hand, served, rd, pc, got, local, down, peer>>
        /\ up # <<>> /\ Head(up).t = "req"
    BY <1>7 DEF StartTool
  <2>2. tool = "none"
    <3>1. ~NoReq(up)
      BY <1>t, <2>1, Received DEF TypeOK
    <3> QED
      BY <1>t, <3>1 DEF ContractInv, RequestInv
  <2> QED
    BY <1>t, <2>1, <2>2, FlowKept DEF Taken, Heard
<1>8. CASE BeginWrite \/ StoreChunk \/ Spawn \/ ToolGone \/ HangUp \/ ReaderEnds \/ Timeout \/ Break \/ Stall \/ UNCHANGED vars
  <2>1. /\ UNCHANGED <<kind, result, ch, hand, served, pc, got, local, down, peer>>
        /\ UNCHANGED tool \/ tool' = "gone"
        /\ UNCHANGED rd \/ rd' = "end"
    BY <1>8 DEF BeginWrite, StoreChunk, Spawn, ToolGone, HangUp, ReaderEnds, Timeout, Break, Stall, vars
  <2> QED
    BY <1>t, <2>1, FlowKept DEF Taken, Heard
<1>9. ASSUME kind \in Streaming, pc' \notin Over \/ result' = "ok",
             TakeFrame \/ ReaderRecv \/ ReaderPut \/ ServeChunk \/ ToolCompletes
      PROVE  FlowInv'
  <2>0. pc \notin Over \/ (pc = pc' /\ result = "ok")
    <3>1. pc \in Over => pc' = pc /\ result' = result
      BY <1>9, HandlerTakes DEF ReaderRecv, ReaderPut, ServeChunk, ToolCompletes, Over
    <3> QED
      BY <1>9, <3>1
  <2>1. CASE pc \in Over
    <3>1. UNCHANGED <<kind, pc, result, got, local>>
      BY <1>9, <2>1, HandlerTakes DEF ReaderRecv, ReaderPut, ServeChunk, ToolCompletes, Over
    <3>2. Taken' = Taken
      BY <3>1 DEF Taken
    <3> QED
      BY <1>t, <2>1, <3>1, <3>2 DEF FlowInv
  <2>2. CASE pc \notin Over
    <3> DEFINE n == Len(Taken)
    <3>a. result = "none"
      BY <1>t, <2>2 DEF ContractInv, ReportInv, Over
    <3>b. PICK p \in 1 .. Last + 2, r \in 1 .. Last + 2 :
            /\ Runs(ch, FromTool, DownNum, n + 1, p)
            /\ rd # "end" =>
                  IF rd = "put" /\ hand \in FromTool
                  THEN DownNum[hand] = p /\ Runs(down, FromTool, DownNum, p + 1, r)
                  ELSE Runs(down, FromTool, DownNum, p, r)
            /\ Heard => r = served + 1
      BY <1>9, <1>t, <2>2 DEF FlowInv
    <3>y. /\ ch \in Seq(DownFrames) /\ down \in Seq(DownFrames) /\ hand \in DownFrames
          /\ DownNum \in [DownFrames -> Nat] /\ served \in 0 .. Last /\ Last \in Nat \ {0}
          /\ \A f \in DownFrames : DownNum[f] = IF f.t = "complete" THEN Last + 1 ELSE f.k
      BY <1>t, BoundAssumption, DataForms DEF TypeOK, DownNum
    <3>s. Taken \in Seq(Nat) /\ Counts(Taken, 0) /\ n \in Nat
      <4>1. 1 .. Last \subseteq Nat /\ 0 .. Last \subseteq Nat
        BY <3>y
      <4>2. got \in Seq(Nat) /\ local \in Seq(Nat)
        BY <1>t, <4>1, SeqWider DEF TypeOK
      <4>3. Taken \in Seq(Nat)
        BY <4>2 DEF Taken
      <4> QED
        BY <1>9, <1>t, <3>a, <4>3 DEF FlowInv
    <3>n. p \in Nat /\ r \in Nat /\ n + 1 \in Nat /\ p + 1 \in Nat /\ r + 1 \in Nat
      BY <3>s, <3>y
    <3> HIDE DEF n
    <3>1. CASE TakeFrame
      <4>1. pc = "wait" /\ ch # <<>> /\ ch' = Tail(ch) /\ UNCHANGED <<kind, down, readerVars, peerVars>>
        BY <3>1, HandlerTakes
      <4>2. Head(ch) \in DownFrames
        BY <3>y, <4>1
      <4>3. Head(ch).t \in {"data", "complete"} =>
              DownNum[Head(ch)] = n + 1 /\ Runs(ch', FromTool, DownNum, n + 1 + 1, p)
        <5>1. Head(ch).t \in {"data", "complete"} => Head(ch) \in FromTool
          BY <4>2 DEF FromTool
        <5>2. Runs(ch, FromTool, DownNum, n + 1, p)
          BY <3>b
        <5>3. Head(ch) \in FromTool => DownNum[Head(ch)] = n + 1 /\ Runs(Tail(ch), FromTool, DownNum, n + 1 + 1, p)
          BY <3>n, <3>y, <4>1, <5>2, RunsHead
        <5> QED
          BY <4>1, <5>1, <5>3
      <4>4. CASE Head(ch).t = "data" /\ UNCHANGED <<pc, result>>
        <5>1. Head(ch).k = n + 1
          BY <3>y, <4>2, <4>3, <4>4
        <5>2. Taken' = Append(Taken, n + 1)
          <6>1. \/ kind \in {"exec", "read"} /\ got' = Append(got, n + 1) /\ UNCHANGED local
                \/ kind = "download" /\ local' = Append(local, n + 1) /\ UNCHANGED got
            BY <3>1, <4>1, <4>4, <5>1, HandlerTakes
          <6> QED
            BY <4>1, <4>4, <6>1 DEF Taken, Early
        <5>3. Counts(Taken', 0) /\ Len(Taken') = n + 1
          BY <3>s, <5>2, CountsAppend DEF n
        <5>4. Heard' = Heard
          BY <4>1 DEF Heard
        <5> QED
          BY <2>2, <3>a, <3>b, <4>1, <4>3, <4>4, <5>3, <5>4 DEF FlowInv
      <4>5. CASE pc' = "close" /\ result' = "failed"
        BY <4>5, FlowOver DEF Over
      <4>6. CASE pc' = "close" /\ Head(ch).t = "complete" /\ result' = "ok" /\ UNCHANGED <<got, local>>
        <5>1. n = Last
          BY <3>s, <3>y, <4>2, <4>3, <4>6
        <5>2. Taken' = Taken
          BY <4>1, <4>6 DEF Taken, Early
        <5> QED
          BY <3>s, <4>1, <4>6, <5>1, <5>2 DEF FlowInv, Over, n
      <4> QED
        BY <3>1, <4>4, <4>5, <4>6, HandlerTakes
    <3>2. CASE ReaderRecv
      <4>1. /\ rd = "recv" /\ down # <<>> /\ down' = Tail(down)
            /\ UNCHANGED <<kind, pc, result, got, local, ch, pend, tool, peer, served>>
            /\ IF Head(down).t \in {"data", "complete", "fail"} /\ pend
               THEN rd' = "put" /\ hand' = Head(down)
               ELSE UNCHANGED <<rd, hand>>
        BY <3>2 DEF ReaderRecv
      <4>2. Taken' = Taken /\ Heard' = Heard /\ Len(Taken') = n
        BY <4>1 DEF Taken, Heard, n
      <4>3. Head(down) \in DownFrames /\ Runs(down, FromTool, DownNum, p, r)
        BY <3>b, <3>y, <4>1
      <4>4. Head(down) \notin FromTool => Runs(down', FromTool, DownNum, p, r)
        BY <3>n, <3>y, <4>1, <4>3, RunsTail
      <4>5. Head(down) \in FromTool => DownNum[Head(down)] = p /\ p < r /\ Runs(down', FromTool, DownNum, p + 1, r)
        <5>1. Head(down) \in FromTool =>
                DownNum[Head(down)] = p /\ p < r /\ Runs(Tail(down), FromTool, DownNum, p + 1, r)
          <6>1. down \in Seq(DownFrames) /\ down # <<>> /\ DownNum \in [DownFrames -> Nat]
            BY <3>y, <4>1
          <6>2. Runs(down, FromTool, DownNum, p, r)
            BY <4>3
          <6> QED
            BY <3>n, <6>1, <6>2, RunsHead
        <5> QED
          BY <4>1, <5>1
      <4>6. Head(down) \in FromTool => pend
        <5>1. SUFFICES ASSUME ~pend, p < r PROVE FALSE
          BY <4>5
        <5>2. pc \in Early /\ ch = <<>>
          BY <1>t, <2>2, <5>1 DEF CallInv
        <5>3. n + 1 = p
          BY <3>b, <3>n, <5>2, RunsBounds
        <5>4. tool = "none" /\ served = 0
          <6>1. tool = "none"
            BY <1>t, <2>2, <5>2 DEF ContractInv, RequestInv, Asked, Early, Over
          <6> QED
            BY <1>t, <6>1 DEF CallInv
        <5>5. r = 1
          BY <3>b, <5>4 DEF Heard
        <5> QED
          BY <3>s, <5>1, <5>3, <5>5
      <4>7. IF rd' = "put" /\ hand' \in FromTool
            THEN DownNum[hand'] = p /\ Runs(down', FromTool, DownNum, p + 1, r)
            ELSE Runs(down', FromTool, DownNum, p, r)
        <5>1. CASE Head(down) \in FromTool
          <6>1. Head(down).t \in {"data", "complete"}
            BY <5>1 DEF FromTool
          <6> QED
            BY <4>1, <4>5, <4>6, <5>1, <6>1
        <5>2. CASE Head(down) \notin FromTool
          BY <4>1, <4>4, <5>2
        <5> QED BY <5>1, <5>2
      <4>8. Runs(ch', FromTool, DownNum, Len(Taken') + 1, p) /\ (Heard' => r = served' + 1)
        BY <3>b, <4>1, <4>2
      <4> QED
        BY <3>a, <3>s, <4>1, <4>2, <4>7, <4>8 DEF FlowInv
    <3>3. CASE ReaderPut
      <4>1. /\ rd = "put" /\ rd' = "recv" /\ ch' = Append(ch, hand)
            /\ UNCHANGED <<kind, pc, result, got, local, down, tool, peer, served>>
        BY <3>3 DEF ReaderPut
      <4>2. Taken' = Taken /\ Heard' = Heard /\ Len(Taken') = n
        BY <4>1 DEF Taken, Heard, n
      <4>3. CASE hand \in FromTool
        <5>1. DownNum[hand] = p /\ Runs(down, FromTool, DownNum, p + 1, r)
          BY <3>b, <4>1, <4>3
        <5>2. Runs(ch', FromTool, DownNum, n + 1, p + 1)
          BY <3>b, <3>n, <3>y, <4>1, <4>3, <5>1, RunsAppend
        <5>3. p + 1 \in 1 .. Last + 2
          <6>1. p + 1 <= r
            BY <3>n, <5>1, RunsBounds
          <6> QED
            BY <3>n, <3>y, <6>1
        <5> QED
          BY <3>a, <3>b, <3>s, <4>1, <4>2, <5>1, <5>2, <5>3 DEF FlowInv
      <4>4. CASE hand \notin FromTool
        <5>1. Runs(ch', FromTool, DownNum, n + 1, p)
          BY <3>b, <3>n, <3>y, <4>1, <4>4, RunsAppendOther
        <5>2. Runs(down', FromTool, DownNum, p, r)
          BY <3>b, <4>1, <4>4
        <5> QED
          BY <3>a, <3>b, <3>s, <4>1, <4>2, <5>1, <5>2 DEF FlowInv
      <4> QED BY <4>3, <4>4
    <3>4. ASSUME NEW f \in FromTool, UNCHANGED <<kind, pc, result, got, local, ch, rd, hand, peer>>,
                 down' = IF peer = "admitted" THEN Append(down, f) ELSE down,
                 peer = "admitted" => DownNum[f] = r /\ r + 1 \in 1 .. Last + 2,
                 Heard' => peer = "admitted" /\ served' = r
          PROVE  FlowInv'
      <4>1. Taken' = Taken /\ Len(Taken') = n /\ f \in DownFrames
        BY <3>4 DEF Taken, FromTool, n
      <4>2. CASE peer = "admitted"
        <5>1. ASSUME NEW x \in Nat, Runs(down, FromTool, DownNum, x, r)
              PROVE  Runs(down', FromTool, DownNum, x, r + 1)
          <6>1. Runs(Append(down, f), FromTool, DownNum, x, r + 1)
            BY <3>4, <3>n, <3>y, <4>1, <4>2, <5>1, RunsAppend
          <6> QED
            BY <3>4, <4>2, <6>1
        <5>2. rd' # "end" =>
                IF rd' = "put" /\ hand' \in FromTool
                THEN DownNum[hand'] = p /\ Runs(down', FromTool, DownNum, p + 1, r + 1)
                ELSE Runs(down', FromTool, DownNum, p, r + 1)
          BY <3>4, <3>b, <3>n, <5>1
        <5>3. Heard' => r + 1 = served' + 1
          BY <3>4
        <5> QED
          BY <3>4, <3>a, <3>b, <3>s, <4>1, <4>2, <5>2, <5>3 DEF FlowInv
      <4>3. CASE peer # "admitted"
        BY <3>4, <3>a, <3>b, <3>s, <4>1, <4>3 DEF FlowInv
      <4> QED BY <4>2, <4>3
    <3>5. CASE ServeChunk
      <4> DEFINE f == Frame("data", served + 1)
      <4>1. /\ tool = "serve" /\ served < Last /\ served' = served + 1 /\ tool' = tool
            /\ UNCHANGED <<kind, pc, result, got, local, ch, rd, hand, peer>>
            /\ down' = IF peer = "admitted" THEN Append(down, f) ELSE down
        BY <3>5 DEF ServeChunk, ToClient
      <4>2. f \in FromTool /\ DownNum[f] = served + 1
        <5>1. served + 1 \in 1 .. Last
          BY <3>y, <4>1
        <5>2. f \in DownFrames /\ f.t = "data" /\ f.k = served + 1
          BY <5>1, FrameType
        <5> QED
          BY <3>y, <5>2 DEF FromTool
      <4> HIDE DEF f
      <4>3. peer = "admitted" => r = served + 1 /\ r + 1 \in 1 .. Last + 2
        BY <3>b, <3>y, <4>1 DEF Heard
      <4>4. Heard' => peer = "admitted"
        BY <4>1 DEF Heard
      <4> QED
        BY <3>4, <4>1, <4>2, <4>3, <4>4
    <3>6. CASE ToolCompletes
      <4> DEFINE f == Frame("complete", 0)
      <4>1. /\ tool \in {"serve", "collect"} /\ (tool = "serve" => served = Last) /\ tool' = "done"
            /\ UNCHANGED <<kind, pc, result, got, local, ch, rd, hand, peer, served>>
            /\ down' = IF peer = "admitted" THEN Append(down, f) ELSE down
        BY <1>9, <3>6 DEF ToolCompletes, ToClient
      <4>2. f \in FromTool /\ DownNum[f] = Last + 1
        <5>1. f \in DownFrames /\ f.t = "complete"
          BY FrameType
        <5> QED
          BY <3>y, <5>1 DEF FromTool
      <4> HIDE DEF f
      <4>3. tool = "serve"
        BY <1>9, <1>t, <4>1 DEF StoreInv, Streaming, Sending
      <4>4. peer = "admitted" => r = Last + 1 /\ r + 1 \in 1 .. Last + 2
        BY <3>b, <3>y, <4>1, <4>3 DEF Heard
      <4>5. ~Heard'
        BY <4>1 DEF Heard
      <4> QED
        BY <3>4, <4>1, <4>2, <4>4, <4>5
    <3> QED
      BY <1>9, <3>1, <3>2, <3>3, <3>5, <3>6
  <2> QED BY <2>1, <2>2
<1>10. ASSUME kind \notin Streaming \/ ~(pc' \notin Over \/ result' = "ok"),
              TakeFrame \/ ReaderRecv \/ ReaderPut \/ ServeChunk \/ ToolCompletes
       PROVE  FlowInv'
  <2>1. kind' = kind /\ ContractInv'
    BY <1>t, OnlyChanges, ContractInvNext
  <2> QED
    BY <1>10, <2>1 DEF FlowInv, ContractInv, ReportInv, Over
<1> QED
  BY <1>1, <1>2, <1>3, <1>4, <1>5, <1>6, <1>7, <1>8, <1>9, <1>10
  DEF Next, CommandStep, ReaderStep, PeerStep, PeerFailure

\* The invariant holds in every reachable state.
LEMMA ClientInvHolds == Spec => []ClientInv
<1>1. ClientInv /\ [Next]_vars => ClientInv'
  BY TypeStep, ContractInvNext, StoreStep, CallStep, FlowStep DEF ClientInv
<1> QED
  BY <1>1, ClientInvInit, PTL DEF Spec

\* Every variable stays in its type, and the call's channel within its capacity.
THEOREM ClientTypeCorrect == Spec => []TypeOK
<1>1. ClientInv => TypeOK
  BY DEF ClientInv
<1> QED
  BY <1>1, ClientInvHolds, PTL

\* A command that reports success has the whole answer, or the daemon has the
\* whole file, wherever its goroutines, the links or the peer were interrupted.
THEOREM SuccessIsComplete == Spec => []OkIsComplete
<1>1. ASSUME ClientInv PROVE OkIsComplete
  <2> SUFFICES ASSUME result = "ok" PROVE OkIsComplete
    BY DEF OkIsComplete
  <2>1. TypeOK /\ ContractInv /\ StoreInv /\ FlowInv
    BY <1>1 DEF ClientInv
  <2>2. pc \in Over
    BY <2>1 DEF ContractInv, ReportInv, Over
  <2>3. kind \in Sending => stored = UpTo(Last)
    <3>1. ran # 0
      BY <2>1 DEF ContractInv, CompleteInv
    <3> QED
      BY <2>1, <3>1 DEF StoreInv
  <2>4. kind \in Streaming => Taken = UpTo(Last)
    <3> SUFFICES ASSUME kind \in Streaming PROVE Taken = UpTo(Last)
      OBVIOUS
    <3>1. 1 .. Last \subseteq Nat /\ 0 .. Last \subseteq Nat /\ Last \in Nat
      BY BoundAssumption
    <3>2. got \in Seq(Nat) /\ local \in Seq(Nat)
      BY <2>1, <3>1, SeqWider DEF TypeOK
    <3>3. Taken \in Seq(Nat)
      BY <3>2 DEF Taken
    <3>4. Counts(Taken, 0) /\ Len(Taken) = Last
      BY <2>1 DEF FlowInv
    <3>5. UpTo(Last) \in Seq(Nat) /\ Len(UpTo(Last)) = Last /\ Counts(UpTo(Last), 0)
      BY <3>1 DEF UpTo, Counts
    <3> QED
      BY <3>3, <3>4, <3>5, CountsEqual
  <2> QED
    BY <2>2, <2>3, <2>4 DEF OkIsComplete, Taken, Streaming, Early, Over
<1> QED
  BY <1>1, ClientInvHolds, PTL
=============================================================================
