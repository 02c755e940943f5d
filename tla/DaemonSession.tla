--------------------------- MODULE DaemonSession ---------------------------
(***************************************************************************)
(* One connection of the daemon (cmd/agbridge/daemon.go, runDaemonSession  *)
(* and daemonState): the dispatcher reads frames one at a time; a file     *)
(* transfer or a forwarded TCP stream has a goroutine of its own, and the  *)
(* dispatcher hands it the frames that follow through a bounded channel    *)
(* found in s.writes or s.streams.  tools.WriteFile, tools.UploadChunks    *)
(* and tools.HandleStreamOpen are the bodies of the goroutines.            *)
(*                                                                         *)
(* The bridge's frames of one transfer arrive in order, those of different *)
(* transfers in any order, and it may stop at any time.  Encryption is in  *)
(* module Channel.                                                         *)
(***************************************************************************)
EXTENDS Naturals, Sequences

CONSTANTS
    Files,       \* ReqIDs of file_write and upload requests
    Streams,     \* StreamIDs of forwarded TCP connections
    Last,        \* data frames the bridge sends for each of them
    WriteCap,    \* capacity of writeSlot.inbound (8)
    StreamCap,   \* capacity of streamSlot.inbound (64)
    MayFail      \* whether tools and dials may fail before their input ends

ASSUME IdAssumption == Files \cap Streams = {}
ASSUME BoundAssumption == Last \in Nat \ {0} /\ WriteCap \in Nat \ {0} /\ StreamCap \in Nat \ {0}
ASSUME FailAssumption == MayFail \in BOOLEAN

Ids == Files \cup Streams
Frames == 1 .. Last
Places == {"none", "start", "loop", "next", "rename", "emit", "delete", "done"}
Answers == {"none", "ok", "err", "blank"}
Cap(i) == IF i \in Files THEN WriteCap ELSE StreamCap
Recv == [at |-> "recv"]
Put(i, k) == [at |-> "put", id |-> i, k |-> k]
End == [at |-> "end"]
Posts == {Recv, End} \cup {Put(i, k) : i \in Ids, k \in Frames}
\* The frames 1 .. n in order.
UpTo(n) == [k \in 1 .. n |-> k]

VARIABLES
    sent,    \* frames of each transfer the dispatcher has read (the first opens it)
    link,    \* the websocket connection: "up" or "down"
    ctx,     \* sessionCtx: "live" or "done"
    proc,    \* the process: running, told to stop by SIGTERM, or gone
    disp,    \* the dispatcher: in Recv, blocked on a channel, or returned
    slots,   \* the keys of s.writes and s.streams
    chan,    \* contents of each inbound channel
    h,       \* where each goroutine is
    tmp,     \* chunks in the temporary file, or data written to the TCP connection
    hand,    \* data a stream's copying goroutine has taken and is writing
    cancelled, \* streams whose own context is cancelled
    file,    \* destination files: what was renamed into place
    result,  \* the FileComplete each transfer's tool returned
    answer   \* the FileComplete the bridge was sent

vars == <<sent, link, ctx, proc, disp, slots, chan, h, tmp, hand, cancelled, file, result, answer>>
connVars == <<link, ctx, proc>>
dataVars == <<tmp, hand, file, result, answer>>

Goto(i, p) == h' = [h EXCEPT ![i] = p]
-----------------------------------------------------------------------------
(* The dispatcher *)

\* The dispatcher, parked in Recv, gets frame k of transfer i.
Receives(i, k) == disp = Recv /\ link = "up" /\ sent[i] = k /\ sent' = [sent EXCEPT ![i] = k + 1]

\* Back to Recv, which returns at once when the session is over.
Again == IF ctx = "live" THEN Recv ELSE End

\* FileWriteRequest, UploadRequest, StreamOpen: beginWrite or beginStream
\* registers the slot, then the goroutine is started.
Open(i) ==
    /\ Receives(i, 0)
    /\ slots' = slots \cup {i}
    /\ Goto(i, "start") /\ disp' = Again
    /\ UNCHANGED <<connVars, chan, dataVars, cancelled>>

\* deliverFileChunk, deliverStreamData: look the slot up, drop the frame if
\* there is none ...
Deliver(i) ==
    /\ sent[i] \in 1 .. Last /\ Receives(i, sent[i])
    /\ disp' = IF i \in slots THEN Put(i, sent[i]) ELSE Again
    /\ UNCHANGED <<connVars, slots, chan, h, dataVars, cancelled>>

\* Faulty variant: a full channel takes one frame too many.
Enqueue_Overflow ==
    /\ disp.at = "put" /\ Len(chan[disp.id]) <= Cap(disp.id)
    /\ chan' = [chan EXCEPT ![disp.id] = Append(@, disp.k)]
    /\ disp' = Again
    /\ UNCHANGED <<sent, connVars, slots, h, dataVars, cancelled>>

\* Faulty variant: the send does not block, and a full channel loses the frame.
Enqueue_DropWhenFull ==
    /\ disp.at = "put"
    /\ chan' = IF Len(chan[disp.id]) < Cap(disp.id)
               THEN [chan EXCEPT ![disp.id] = Append(@, disp.k)] ELSE chan
    /\ disp' = Again
    /\ UNCHANGED <<sent, connVars, slots, h, dataVars, cancelled>>

\* ... and put it into the channel when there is room ...
Enqueue ==
    /\ disp.at = "put" /\ Len(chan[disp.id]) < Cap(disp.id)
    /\ chan' = [chan EXCEPT ![disp.id] = Append(@, disp.k)]
    /\ disp' = Again
    /\ UNCHANGED <<sent, connVars, slots, h, dataVars, cancelled>>

\* Faulty variant: Recv does not look at the context, so the frames that
\* follow the dropped one are still delivered.
EnqueueAbort_Continues ==
    /\ disp.at = "put" /\ ctx = "done"
    /\ disp' = Recv
    /\ UNCHANGED <<sent, connVars, slots, chan, h, dataVars, cancelled>>

\* ... unless the session ends first.
EnqueueAbort ==
    /\ disp.at = "put" /\ ctx = "done"
    /\ disp' = Again
    /\ UNCHANGED <<sent, connVars, slots, chan, h, dataVars, cancelled>>

\* StreamClose: closeStream cancels the stream's context.
CloseStream(s) ==
    /\ Receives(s, Last + 1)
    /\ cancelled' = IF s \in slots THEN cancelled \cup {s} ELSE cancelled
    /\ disp' = Again
    /\ UNCHANGED <<connVars, slots, chan, h, dataVars>>

\* Recv fails: runDaemonSession returns, and the deferred cancel ends the session.
Return ==
    /\ disp = Recv /\ link = "down"
    /\ disp' = End /\ ctx' = "done"
    /\ UNCHANGED <<sent, link, proc, slots, chan, h, dataVars, cancelled>>

\* The connection breaks.
LinkLost ==
    /\ link = "up" /\ link' = "down"
    /\ UNCHANGED <<sent, ctx, proc, disp, slots, chan, h, dataVars, cancelled>>

\* SIGTERM cancels the parent context, of this session and of the dial loop
\* that follows it when its connection is lost.
Sigterm ==
    /\ proc = "run" /\ proc' = "stopping" /\ ctx' = "done"
    /\ UNCHANGED <<sent, link, disp, slots, chan, h, dataVars, cancelled>>

\* runDaemon closes the connection and returns as soon as runDaemonSession has,
\* without waiting for a goroutine: the process exits with its files as they are.
ProcessExits ==
    /\ proc = "stopping" /\ disp = End
    /\ proc' = "gone" /\ link' = "down"
    /\ UNCHANGED <<sent, ctx, disp, slots, chan, h, dataVars, cancelled>>

\* The watchdog closes the connection once sessionCtx is done.
Watchdog ==
    /\ ctx = "done" /\ link = "up" /\ link' = "down"
    /\ UNCHANGED <<sent, ctx, proc, disp, slots, chan, h, dataVars, cancelled>>
-----------------------------------------------------------------------------
(* handleWrite and handleUpload *)

\* The tool returns r and removes the temporary file.
GiveUp(f, r) ==
    /\ tmp' = [tmp EXCEPT ![f] = <<>>]
    /\ result' = [result EXCEPT ![f] = r]
    /\ Goto(f, "emit")

\* CreateTemp, then the loop over the chunks; a failure goes to the answer.
StartWrite(f) ==
    /\ h[f] = "start"
    /\ \/ Goto(f, "loop") /\ UNCHANGED <<tmp, result>>
       \/ MayFail /\ GiveUp(f, "err")
    /\ UNCHANGED <<sent, connVars, disp, slots, chan, hand, file, answer, cancelled>>

\* The top of the loop looks at the context.  When it is done the tool returns
\* an empty FileComplete, which has no Err, and its error is dropped.
LoopTop(f) ==
    /\ h[f] = "loop"
    /\ \/ ctx = "live" /\ Goto(f, "next") /\ UNCHANGED <<tmp, result>>
       \/ ctx = "done" /\ GiveUp(f, "blank")
    /\ UNCHANGED <<sent, connVars, disp, slots, chan, hand, file, answer, cancelled>>

\* nextChunk from the channel; write it, or fail (size cap, disk); on eof stop.
NextChunk(f) ==
    /\ h[f] = "next" /\ chan[f] # <<>>
    /\ chan' = [chan EXCEPT ![f] = Tail(@)]
    /\ \/ /\ tmp' = [tmp EXCEPT ![f] = Append(@, Head(chan[f]))]
          /\ Goto(f, IF Head(chan[f]) = Last THEN "rename" ELSE "loop")
          /\ UNCHANGED result
       \/ MayFail /\ GiveUp(f, "err")
    /\ UNCHANGED <<sent, connVars, disp, slots, hand, file, answer, cancelled>>

\* Faulty variant: nextChunk waits for a chunk and nothing else.
ChunkAbort_Never(f) == FALSE

\* The session ended: nextChunk returns ctx.Err().
ChunkAbort(f) ==
    /\ h[f] = "next" /\ ctx = "done"
    /\ GiveUp(f, "err")
    /\ UNCHANGED <<sent, connVars, disp, slots, chan, hand, file, answer, cancelled>>

\* Close, check size and hash (upload), chmod and rename, or remove and fail.
Rename(f) ==
    /\ h[f] = "rename"
    /\ \/ file' = [file EXCEPT ![f] = tmp[f]] /\ GiveUp(f, "ok")
       \/ MayFail /\ GiveUp(f, "err") /\ UNCHANGED file
    /\ UNCHANGED <<sent, connVars, disp, slots, chan, hand, answer, cancelled>>

\* Faulty variant: the answer is sent whatever the state of the context.
Emit_IgnoresContext(f) ==
    /\ h[f] = "emit" /\ Goto(f, "delete")
    /\ answer' = IF link = "up" THEN [answer EXCEPT ![f] = result[f]] ELSE answer
    /\ UNCHANGED <<sent, connVars, disp, slots, chan, tmp, hand, file, result, cancelled>>

\* emitFileComplete: wss.Conn.Send refuses when the context is done, and fails
\* when the link is down.
Emit(f) ==
    /\ h[f] = "emit" /\ Goto(f, "delete")
    /\ answer' = IF ctx = "live" /\ link = "up" THEN [answer EXCEPT ![f] = result[f]] ELSE answer
    /\ UNCHANGED <<sent, connVars, disp, slots, chan, tmp, hand, file, result, cancelled>>
-----------------------------------------------------------------------------
(* handleStreamOpen and tools.HandleStreamOpen *)

\* Refuse a forbidden port, dial, answer StreamAck.
Dial(s) ==
    /\ h[s] = "start"
    /\ Goto(s, "loop") \/ (MayFail /\ Goto(s, "delete"))
    /\ UNCHANGED <<sent, connVars, disp, slots, chan, dataVars, cancelled>>

\* The copying goroutine takes data from the channel ...
Take(s) ==
    /\ h[s] = "loop" /\ hand[s] = <<>> /\ chan[s] # <<>>
    /\ hand' = [hand EXCEPT ![s] = <<Head(chan[s])>>]
    /\ chan' = [chan EXCEPT ![s] = Tail(@)]
    /\ UNCHANGED <<sent, connVars, disp, slots, h, tmp, file, result, answer, cancelled>>

\* ... and writes it to the TCP connection, which blocks as long as the peer
\* does not read.
WriteTCP(s) ==
    /\ h[s] = "loop" /\ hand[s] # <<>>
    /\ tmp' = [tmp EXCEPT ![s] = @ \o hand[s]]
    /\ hand' = [hand EXCEPT ![s] = <<>>]
    /\ UNCHANGED <<sent, connVars, disp, slots, chan, h, file, result, answer, cancelled>>

\* The remote end closes the connection or it fails: a copying goroutine
\* returns and cancels the stream.
RemoteClosed(s) ==
    /\ h[s] = "loop" /\ s \notin cancelled
    /\ cancelled' = cancelled \cup {s}
    /\ UNCHANGED <<sent, connVars, disp, slots, chan, h, dataVars>>

\* The stream's context is done: close the TCP connection, send StreamClose.
StopStream(s) ==
    /\ h[s] = "loop" /\ (s \in cancelled \/ ctx = "done")
    /\ hand' = [hand EXCEPT ![s] = <<>>]
    /\ Goto(s, "delete")
    /\ UNCHANGED <<sent, connVars, disp, slots, chan, tmp, file, result, answer, cancelled>>
-----------------------------------------------------------------------------
\* Faulty variant: the slot is not deleted.
DeleteSlot_Leak(i) ==
    /\ h[i] = "delete" /\ Goto(i, "done")
    /\ UNCHANGED <<sent, connVars, disp, slots, chan, dataVars, cancelled>>

\* The deferred delete of the slot, and of the stream's context.
DeleteSlot(i) ==
    /\ h[i] = "delete" /\ Goto(i, "done")
    /\ slots' = slots \ {i}
    /\ UNCHANGED <<sent, connVars, disp, chan, dataVars, cancelled>>

Init ==
    /\ sent = [i \in Ids |-> 0]
    /\ link = "up" /\ ctx = "live" /\ proc = "run" /\ disp = Recv
    /\ slots = {}
    /\ chan = [i \in Ids |-> <<>>] /\ tmp = [i \in Ids |-> <<>>]
    /\ h = [i \in Ids |-> "none"]
    /\ hand = [s \in Ids |-> <<>>]
    /\ cancelled = {}
    /\ file = [i \in Ids |-> <<>>]
    /\ result = [i \in Ids |-> "none"] /\ answer = [i \in Ids |-> "none"]

Dispatch ==
    \/ \E i \in Ids : Open(i) \/ Deliver(i)
    \/ \E s \in Streams : CloseStream(s)

DispatcherStep == Enqueue \/ EnqueueAbort \/ Return

\* No goroutine outlives the process.
GoroutineStep(i) ==
    /\ proc # "gone"
    /\ \/ /\ i \in Files
          /\ StartWrite(i) \/ LoopTop(i) \/ NextChunk(i) \/ ChunkAbort(i) \/ Rename(i) \/ Emit(i)
       \/ i \in Streams /\ (Dial(i) \/ StopStream(i))
       \/ DeleteSlot(i)

CopyStep(s) == proc # "gone" /\ (Take(s) \/ WriteTCP(s) \/ RemoteClosed(s))

Next ==
    \/ Dispatch \/ DispatcherStep
    \/ LinkLost \/ Sigterm \/ ProcessExits \/ Watchdog
    \/ \E i \in Ids : GoroutineStep(i)
    \/ \E s \in Streams : CopyStep(s)

\* Goroutines that can run do run, until the process exits.  Nothing is assumed
\* of the bridge, of the network or of the remote end of a stream.
Fairness ==
    /\ WF_vars(DispatcherStep) /\ WF_vars(Watchdog) /\ WF_vars(ProcessExits)
    /\ \A i \in Ids : WF_vars(GoroutineStep(i))

Spec == Init /\ [][Next]_vars
FairSpec == Spec /\ Fairness
-----------------------------------------------------------------------------
(* Properties *)

\* Every variable stays in its type, and channels within their capacity.
TypeOK ==
    /\ sent \in [Ids -> 0 .. Last + 2]
    /\ link \in {"up", "down"} /\ ctx \in {"live", "done"}
    /\ proc \in {"run", "stopping", "gone"}
    /\ disp \in Posts
    /\ slots \subseteq Ids /\ cancelled \subseteq Streams
    /\ chan \in [Ids -> Seq(Frames)] /\ \A i \in Ids : Len(chan[i]) <= Cap(i)
    /\ h \in [Ids -> Places]
    /\ tmp \in [Ids -> Seq(Frames)] /\ file \in [Ids -> Seq(Frames)]
    /\ hand \in [Ids -> Seq(Frames)] /\ \A i \in Ids : Len(hand[i]) <= 1
    /\ result \in [Ids -> Answers]
    /\ answer \in [Ids -> Answers]

\* A slot is in the map exactly while its goroutine lives: the dispatcher
\* cannot deliver into a transfer that was never started, and none is leaked.
SlotHasGoroutine == \A i \in Ids : i \in slots <=> h[i] \notin {"none", "done"}

InFlight(i) == IF disp.at = "put" /\ disp.id = i THEN <<disp.k>> ELSE <<>>

\* As long as the session and the transfer live, every frame that the
\* dispatcher read is on disk (or in the TCP connection), in hand, in the
\* channel or about to be put there, once and in order.
NothingLost ==
    \A i \in Ids : h[i] \in {"loop", "next"} /\ ctx = "live" =>
        tmp[i] \o hand[i] \o chan[i] \o InFlight(i)
            = UpTo(IF sent[i] > Last THEN Last ELSE sent[i] - 1)

\* The destination file is untouched or complete: no failure, cancellation or
\* lost connection leaves a partial file (writefile.go:22).
FileIsAtomic == \A f \in Files : file[f] \in {<<>>, UpTo(Last)}

\* The bridge is told that a file was written only when it was.  The empty
\* FileComplete of a cancelled transfer reads as success to the bridge, which
\* takes an answer without Err for one (handlers_file.go).
ToldIsWritten == \A f \in Files : answer[f] \in {"ok", "blank"} => file[f] = UpTo(Last)

\* A file transfer keeps the promise of module Transfer: it changes its
\* destination at most once, to the whole content, and answers at most once,
\* after that and truthfully; a file reported as failed is not replaced later.
Promise == INSTANCE Transfer WITH
    Transfers <- Files, Old <- <<>>, Whole <- UpTo(Last),
    stored <- [f \in Files |-> file[f]], told <- [f \in Files |-> answer[f]]
KeepsPromise == Promise!Spec

\* daemon.go:214: once sessionCtx is done, the dispatcher returns and every
\* goroutine of the session ends, its temporary file or TCP connection released
\* and its slot deleted, unless a SIGTERM ends the process first.  That one is
\* never held up, by a full channel or otherwise; it does not wait for the
\* goroutines (daemon.go:89), so it may leave temporary files behind.
GoroutinesEnd ==
    /\ ctx = "done" ~> \/ /\ disp = End /\ slots = {}
                          /\ \A i \in Ids : h[i] \in {"none", "done"} /\ hand[i] = <<>>
                          /\ \A f \in Files : tmp[f] = <<>>
                       \/ proc = "gone"
    /\ proc = "stopping" ~> proc = "gone"
=============================================================================
