---------------------------- MODULE DaemonProofs ----------------------------
(***************************************************************************)
(* What the daemon does with the requests that concern files: module       *)
(* DaemonSession, from the connection to the disk, and module Files, from  *)
(* the disk to the answer.                                                 *)
(*                                                                         *)
(* First, what becomes of the frames of a transfer or stream between the   *)
(* dispatcher and the disk, and of what the bridge is told, for any number *)
(* of transfers and streams, frames and channel capacities.                *)
(***************************************************************************)
EXTENDS DaemonSession, Files, Counting, FiniteSetTheorems, SequenceTheorems, WellFoundedInduction, TLAPS

\* The frame the dispatcher is blocked with is the last one it read, and its
\* transfer was started; the dispatcher has returned only from a session that
\* has ended.
DispatcherInv ==
    /\ disp.at = "put" => h[disp.id] # "none" /\ disp.k = sent[disp.id] - 1
    /\ disp.at = "end" => ctx = "done"

\* Frames of transfer i that the dispatcher has read, the opening one aside.
Arrived(i) == IF sent[i] > Last THEN Last ELSE sent[i] - 1
Pending(i) == IF disp.at = "put" /\ disp.id = i THEN 1 ELSE 0

\* What is written, in hand and in the channel goes on without a gap; and
\* until the dispatcher returns that is, with the frame it is blocked with,
\* everything it has read.  (A frame is dropped only with the end of the
\* session, and the dispatcher delivers none after it.)
Flows(i) ==
    /\ Counts(tmp[i], 0) /\ Counts(hand[i], Len(tmp[i]))
    /\ Counts(chan[i], Len(tmp[i]) + Len(hand[i]))
    /\ disp.at # "end" =>
        Len(tmp[i]) + Len(hand[i]) + Len(chan[i]) + Pending(i) = Arrived(i)

\* A transfer that was not opened has no frames; one that is about to be
\* renamed into place has all of them.
FlowOf(i) ==
    /\ h[i] = "none" <=> sent[i] = 0
    /\ h[i] = "none" => tmp[i] = <<>> /\ hand[i] = <<>> /\ chan[i] = <<>>
    /\ h[i] \in {"start", "loop", "next"} => Flows(i)
    /\ h[i] = "rename" => tmp[i] = UpTo(Last)
    /\ i \in Files => hand[i] = <<>>
    /\ h[i] \in {"next", "rename", "emit"} => i \in Files

FlowInv == \A i \in Ids : FlowOf(i)

\* A tool returns "ok" exactly when its file is in place, and the empty
\* FileComplete only after the end of the session, when Send refuses it.  It
\* returns before the answer is sent, and the answer is the last thing sent.
AnswerInv ==
    \A f \in Files :
        /\ result[f] = "ok" <=> file[f] = UpTo(Last)
        /\ result[f] = "blank" => ctx = "done"
        /\ h[f] \in {"emit", "delete", "done"} <=> result[f] # "none"
        /\ answer[f] # "none" => h[f] \in {"delete", "done"}

SessionInv ==
    TypeOK /\ SlotHasGoroutine /\ DispatcherInv /\ FlowInv /\ AnswerInv /\ FileIsAtomic /\ ToldIsWritten
-----------------------------------------------------------------------------
(* Operators *)

\* The three kinds of places the dispatcher can be in are told apart by their
\* first field (Recv, the blocked select, the return).
LEMMA DispForms ==
    /\ Recv.at = "recv" /\ End.at = "end" /\ Recv # End
    /\ \A i, k : Put(i, k).at = "put" /\ Put(i, k).id = i /\ Put(i, k).k = k
BY DEF Recv, End, Put

\* What TypeOK says of the dispatcher, by cases.
LEMMA DispCases ==
    ASSUME TypeOK
    PROVE  \/ disp = Recv \/ disp = End
           \/ disp.at = "put" /\ disp.id \in Ids /\ disp.k \in Frames /\ disp = Put(disp.id, disp.k)
<1>1. disp = Recv \/ disp = End \/ \E i \in Ids, k \in Frames : disp = Put(i, k)
  BY DEF TypeOK, Posts
<1> QED
  BY <1>1, DispForms

\* The frames 1 .. n in order are a count from zero.
LEMMA UpToCounts ==
    ASSUME NEW n \in Nat
    PROVE  UpTo(n) \in Seq(Nat) /\ Len(UpTo(n)) = n /\ Counts(UpTo(n), 0)
<1>1. UpTo(n) \in [1 .. n -> Nat]
  BY DEF UpTo
<1>2. UpTo(n) \in Seq(Nat) /\ Len(UpTo(n)) = n
  BY <1>1
<1> QED
  BY <1>2 DEF UpTo, Counts

\* There is at least one frame, so a destination that was not replaced is told
\* from one that was.
LEMMA WholeIsNotEmpty == UpTo(Last) # <<>>
BY BoundAssumption, UpToCounts

\* Frames are natural numbers.
LEMMA FramesAreNat == \A q \in Seq(Frames) : q \in Seq(Nat) /\ Len(q) \in Nat
<1>1. Frames \subseteq Nat
  BY BoundAssumption DEF Frames
<1>2. ASSUME NEW q \in Seq(Frames) PROVE q \in Seq(Nat) /\ Len(q) \in Nat
  <2>1. Len(q) \in Nat /\ q \in [1 .. Len(q) -> Frames]
    OBVIOUS
  <2>2. q \in [1 .. Len(q) -> Nat]
    BY <1>1, <2>1
  <2> QED
    BY <2>1, <2>2
<1> QED
  BY <1>2

\* A goroutine that goes from one place to another.
LEMMA Moves ==
    ASSUME h \in [Ids -> Places], NEW i \in Ids, NEW p \in Places, Goto(i, p)
    PROVE  h' \in [Ids -> Places] /\ h'[i] = p /\ \A j \in Ids \ {i} : h'[j] = h[j]
BY DEF Goto

\* A channel with one frame more, or without its first.
LEMMA Queue ==
    ASSUME NEW S, NEW q \in Seq(S)
    PROVE  /\ \A x \in S : /\ Append(q, x) \in Seq(S) /\ Len(Append(q, x)) = Len(q) + 1
                           /\ <<x>> \in Seq(S) /\ Len(<<x>>) = 1
           /\ <<>> \in Seq(S) /\ Len(<<>>) = 0 /\ Len(q) \in Nat
           /\ q # <<>> => /\ Head(q) \in S /\ Tail(q) \in Seq(S)
                          /\ Len(q) > 0 /\ Len(Tail(q)) = Len(q) - 1
OBVIOUS
-----------------------------------------------------------------------------
(* Types *)

\* Every variable starts in its type.
LEMMA TypeInit == Init => TypeOK
<1>1. <<>> \in Seq(Frames) /\ Len(<<>>) = 0
  OBVIOUS
<1>2. 0 \in 0 .. Last + 2 /\ \A i \in Ids : 0 <= Cap(i)
  BY BoundAssumption DEF Cap
<1> QED
  BY <1>1, <1>2 DEF Init, TypeOK, Posts, Places, Answers

\* No step of the dispatcher, a goroutine or the surroundings leaves the
\* types; the channel send is only taken with room in the channel.
LEMMA TypeStep == TypeOK /\ [Next]_vars => TypeOK'
<1> SUFFICES ASSUME TypeOK, [Next]_vars PROVE TypeOK'
  OBVIOUS
<1>1. Again \in Posts /\ End \in Posts
  BY DEF Again, Posts
<1>2. ASSUME NEW i \in Ids, NEW k, Receives(i, k) PROVE sent' \in [Ids -> 0 .. Last + 2] \/ k > Last + 1
  BY <1>2, BoundAssumption DEF TypeOK, Receives
<1>3. ASSUME NEW i \in Ids, Open(i) PROVE TypeOK'
  <2>1. sent' \in [Ids -> 0 .. Last + 2]
    BY <1>2, <1>3, BoundAssumption DEF Open
  <2> QED
    BY <1>1, <2>1, <1>3 DEF TypeOK, Open, Receives, Goto, connVars, dataVars, Places
<1>4. ASSUME NEW i \in Ids, Deliver(i) PROVE TypeOK'
  <2>1. sent[i] \in Frames /\ sent' \in [Ids -> 0 .. Last + 2]
    BY <1>2, <1>4, BoundAssumption DEF Deliver, Frames
  <2>2. disp' \in Posts
    BY <1>1, <1>4, <2>1 DEF Deliver, Posts
  <2>3. UNCHANGED <<link, ctx, proc, slots, chan, h, tmp, hand, file, result, answer, cancelled>>
    BY <1>4 DEF Deliver, connVars, dataVars
  <2> QED
    BY <2>1, <2>2, <2>3 DEF TypeOK
<1>5. ASSUME NEW s \in Streams, CloseStream(s) PROVE TypeOK'
  <2>1. s \in Ids /\ sent' \in [Ids -> 0 .. Last + 2]
    <3>1. s \in Ids /\ Receives(s, Last + 1)
      BY <1>5 DEF CloseStream, Ids
    <3>2. ~ (Last + 1 > Last + 1)
      BY BoundAssumption
    <3> QED
      BY <3>1, <3>2, <1>2
  <2> QED
    BY <1>1, <2>1, <1>5 DEF TypeOK, CloseStream, Receives, connVars, dataVars
<1>6. CASE Enqueue
  <2>1. disp.id \in Ids /\ disp.k \in Frames
    BY <1>6, DispCases, DispForms DEF Enqueue
  <2>2. chan[disp.id] \in Seq(Frames) /\ Len(chan[disp.id]) \in Nat /\ Cap(disp.id) \in Nat
    BY <2>1, FramesAreNat, BoundAssumption DEF TypeOK, Cap
  <2>3. /\ Append(chan[disp.id], disp.k) \in Seq(Frames)
        /\ Len(Append(chan[disp.id], disp.k)) <= Cap(disp.id)
    BY <2>1, <2>2, Queue, <1>6 DEF Enqueue
  <2>4. chan' \in [Ids -> Seq(Frames)] /\ \A i \in Ids : Len(chan'[i]) <= Cap(i)
    BY <2>1, <2>3, <1>6 DEF TypeOK, Enqueue
  <2> QED
    BY <1>1, <2>4, <1>6 DEF TypeOK, Enqueue, connVars, dataVars
<1>7. CASE EnqueueAbort \/ Return \/ LinkLost \/ Sigterm \/ ProcessExits \/ Watchdog
  BY <1>1, <1>7 DEF TypeOK, EnqueueAbort, Return, LinkLost, Sigterm, ProcessExits, Watchdog, connVars, dataVars
<1>8. ASSUME NEW i \in Files, NEW r \in Answers, GiveUp(i, r)
      PROVE  tmp' \in [Ids -> Seq(Frames)] /\ result' \in [Ids -> Answers] /\ h' \in [Ids -> Places]
  <2>1. i \in Ids /\ "emit" \in Places /\ <<>> \in Seq(Frames)
    BY DEF Ids, Places
  <2>2. tmp \in [Ids -> Seq(Frames)] /\ result \in [Ids -> Answers] /\ h \in [Ids -> Places]
    BY DEF TypeOK
  <2>3. h' \in [Ids -> Places]
    BY <2>1, <2>2, <1>8, Moves DEF GiveUp
  <2> QED
    BY <2>1, <2>2, <2>3, <1>8 DEF GiveUp
<1>9. "err" \in Answers /\ "blank" \in Answers /\ "ok" \in Answers
  BY DEF Answers
<1>10. ASSUME NEW i \in Files, StartWrite(i) \/ LoopTop(i) \/ ChunkAbort(i) PROVE TypeOK'
  <2>1. tmp' \in [Ids -> Seq(Frames)] /\ result' \in [Ids -> Answers] /\ h' \in [Ids -> Places]
    <3>1. CASE UNCHANGED <<tmp, result>> /\ \E p \in {"loop", "next"} : Goto(i, p)
      <4>1. i \in Ids /\ h \in [Ids -> Places] /\ \E p \in Places : Goto(i, p)
        BY <3>1 DEF TypeOK, Ids, Places
      <4>2. h' \in [Ids -> Places]
        BY <4>1, Moves
      <4> QED
        BY <3>1, <4>2 DEF TypeOK
    <3>2. CASE \E r \in Answers : GiveUp(i, r)
      BY <3>2, <1>8
    <3> QED
      BY <3>1, <3>2, <1>9, <1>10 DEF StartWrite, LoopTop, ChunkAbort
  <2>2. UNCHANGED <<sent, link, ctx, proc, disp, slots, chan, hand, file, answer, cancelled>>
    BY <1>10 DEF StartWrite, LoopTop, ChunkAbort, connVars
  <2> QED
    BY <2>1, <2>2 DEF TypeOK
<1>11. ASSUME NEW i \in Files, NextChunk(i) PROVE TypeOK'
  <2>1. i \in Ids /\ chan[i] \in Seq(Frames) /\ chan[i] # <<>> /\ tmp[i] \in Seq(Frames)
    BY <1>11 DEF TypeOK, NextChunk, Ids
  <2>2. /\ Tail(chan[i]) \in Seq(Frames) /\ Len(Tail(chan[i])) <= Len(chan[i])
        /\ Append(tmp[i], Head(chan[i])) \in Seq(Frames)
    BY <2>1, Queue
  <2>3. Len(Tail(chan[i])) <= Cap(i)
    <3>1. Len(chan[i]) \in Nat /\ Len(Tail(chan[i])) \in Nat /\ Cap(i) \in Nat /\ Len(chan[i]) <= Cap(i)
      BY <2>1, <2>2, FramesAreNat, BoundAssumption DEF TypeOK, Cap
    <3> QED BY <3>1, <2>2
  <2>4. chan' \in [Ids -> Seq(Frames)] /\ \A j \in Ids : Len(chan'[j]) <= Cap(j)
    BY <2>1, <2>2, <2>3, <1>11 DEF TypeOK, NextChunk
  <2>5. tmp' \in [Ids -> Seq(Frames)] /\ result' \in [Ids -> Answers] /\ h' \in [Ids -> Places]
    <3>1. CASE /\ tmp' = [tmp EXCEPT ![i] = Append(@, Head(chan[i]))] /\ result' = result
               /\ \E p \in {"rename", "loop"} : Goto(i, p)
      <4>1. h \in [Ids -> Places] /\ \E p \in Places : Goto(i, p)
        BY <3>1 DEF TypeOK, Places
      <4>2. h' \in [Ids -> Places]
        BY <2>1, <4>1, Moves
      <4>3. tmp \in [Ids -> Seq(Frames)] /\ result \in [Ids -> Answers]
        BY DEF TypeOK
      <4> QED
        BY <3>1, <4>2, <4>3, <2>1, <2>2
    <3>2. CASE GiveUp(i, "err")
      BY <3>2, <1>8, <1>9
    <3> QED
      BY <3>1, <3>2, <1>11 DEF NextChunk
  <2>6. UNCHANGED <<sent, link, ctx, proc, disp, slots, hand, file, answer, cancelled>>
    BY <1>11 DEF NextChunk, connVars
  <2> QED
    BY <2>4, <2>5, <2>6 DEF TypeOK
<1>12. ASSUME NEW i \in Files, Rename(i) PROVE TypeOK'
  <2>1. tmp' \in [Ids -> Seq(Frames)] /\ result' \in [Ids -> Answers] /\ h' \in [Ids -> Places]
    BY <1>8, <1>9, <1>12 DEF Rename
  <2>2. file' \in [Ids -> Seq(Frames)]
    <3>1. i \in Ids /\ tmp \in [Ids -> Seq(Frames)] /\ file \in [Ids -> Seq(Frames)]
      BY DEF TypeOK, Ids
    <3>2. file' = file \/ file' = [file EXCEPT ![i] = tmp[i]]
      BY <1>12 DEF Rename
    <3> QED
      BY <3>1, <3>2
  <2>3. UNCHANGED <<sent, link, ctx, proc, disp, slots, chan, hand, answer, cancelled>>
    BY <1>12 DEF Rename, connVars
  <2> QED
    BY <2>1, <2>2, <2>3 DEF TypeOK
<1>13. ASSUME NEW i \in Files, Emit(i) PROVE TypeOK'
  <2>1. answer' \in [Ids -> Answers] /\ h' \in [Ids -> Places]
    BY <1>13 DEF TypeOK, Emit, Goto, Ids, Places
  <2> QED
    BY <2>1, <1>13 DEF TypeOK, Emit, connVars
<1>14. ASSUME NEW i \in Ids, Dial(i) \/ StopStream(i) \/ DeleteSlot(i) PROVE TypeOK'
  <2>1. h' \in [Ids -> Places]
    <3>1. h \in [Ids -> Places] /\ \E p \in Places : Goto(i, p)
      BY <1>14 DEF TypeOK, Dial, StopStream, DeleteSlot, Places
    <3> QED
      BY <3>1, Moves
  <2>2. hand' \in [Ids -> Seq(Frames)] /\ \A j \in Ids : Len(hand'[j]) <= 1
    <3>1. CASE StopStream(i)
      BY <3>1, Queue DEF TypeOK, StopStream
    <3>2. CASE hand' = hand
      BY <3>2 DEF TypeOK
    <3> QED BY <3>1, <3>2, <1>14 DEF Dial, DeleteSlot, dataVars
  <2> QED
    BY <2>1, <2>2, <1>14 DEF TypeOK, Dial, StopStream, DeleteSlot, connVars, dataVars
<1>15. ASSUME NEW s \in Streams, Take(s) PROVE TypeOK'
  <2>1. s \in Ids /\ chan[s] \in Seq(Frames) /\ chan[s] # <<>>
    BY <1>15 DEF TypeOK, Take, Ids
  <2>2. /\ Tail(chan[s]) \in Seq(Frames) /\ Len(Tail(chan[s])) <= Len(chan[s])
        /\ <<Head(chan[s])>> \in Seq(Frames) /\ Len(<<Head(chan[s])>>) = 1
    BY <2>1, Queue
  <2>3. Len(Tail(chan[s])) <= Cap(s)
    <3>1. Len(chan[s]) \in Nat /\ Len(Tail(chan[s])) \in Nat /\ Cap(s) \in Nat /\ Len(chan[s]) <= Cap(s)
      BY <2>1, <2>2, FramesAreNat, BoundAssumption DEF TypeOK, Cap
    <3> QED BY <3>1, <2>2
  <2>4. chan' \in [Ids -> Seq(Frames)] /\ \A j \in Ids : Len(chan'[j]) <= Cap(j)
    BY <2>1, <2>2, <2>3, <1>15 DEF TypeOK, Take
  <2>5. hand' \in [Ids -> Seq(Frames)] /\ \A j \in Ids : Len(hand'[j]) <= 1
    BY <2>1, <2>2, <1>15 DEF TypeOK, Take
  <2> QED
    BY <2>4, <2>5, <1>15 DEF TypeOK, Take, connVars
<1>16. ASSUME NEW s \in Streams, WriteTCP(s) PROVE TypeOK'
  <2>1. s \in Ids /\ tmp[s] \o hand[s] \in Seq(Frames)
    BY DEF TypeOK, Ids
  <2>2. hand' \in [Ids -> Seq(Frames)] /\ \A j \in Ids : Len(hand'[j]) <= 1
    BY <1>16, <2>1, Queue DEF TypeOK, WriteTCP
  <2>3. tmp' \in [Ids -> Seq(Frames)]
    BY <2>1, <1>16 DEF TypeOK, WriteTCP
  <2> QED
    BY <2>2, <2>3, <1>16 DEF TypeOK, WriteTCP, connVars
<1>17. ASSUME NEW s \in Streams, RemoteClosed(s) PROVE TypeOK'
  BY <1>17 DEF TypeOK, RemoteClosed, connVars, dataVars
<1>18. CASE UNCHANGED vars
  BY <1>18 DEF TypeOK, vars
<1> QED
  BY <1>3, <1>4, <1>5, <1>6, <1>7, <1>10, <1>11, <1>12, <1>13, <1>14, <1>15, <1>16, <1>17, <1>18
  DEF Next, Dispatch, DispatcherStep, GoroutineStep, CopyStep, Ids
-----------------------------------------------------------------------------
(* Slots and the dispatcher *)

\* Only opening a transfer adds its slot and starts its goroutine, and only
\* the end of the goroutine deletes the slot.
LEMMA SlotStep == TypeOK /\ SlotHasGoroutine /\ [Next]_vars => SlotHasGoroutine'
<1> SUFFICES ASSUME TypeOK, SlotHasGoroutine, [Next]_vars PROVE SlotHasGoroutine'
  OBVIOUS
<1>0. h \in [Ids -> Places] /\ {"start", "loop", "next", "rename", "emit", "delete", "done"} \subseteq Places
  BY DEF TypeOK, Places
<1>1. ASSUME NEW i \in Ids, Open(i) \/ DeleteSlot(i) PROVE SlotHasGoroutine'
  <2>1. CASE Open(i)
    BY <2>1, <1>0 DEF SlotHasGoroutine, Open, Goto
  <2>2. CASE DeleteSlot(i)
    BY <2>2, <1>0 DEF SlotHasGoroutine, DeleteSlot, Goto
  <2> QED BY <1>1, <2>1, <2>2
<1>2. ASSUME NEW i \in Files, StartWrite(i) \/ LoopTop(i) \/ NextChunk(i) \/ ChunkAbort(i) \/ Rename(i)
      PROVE  SlotHasGoroutine'
  <2>1. /\ h[i] \in {"start", "loop", "next", "rename"} /\ slots' = slots
        /\ \E p \in {"loop", "next", "rename", "emit"} : h' = [h EXCEPT ![i] = p]
    BY <1>2 DEF StartWrite, LoopTop, NextChunk, ChunkAbort, Rename, GiveUp, Goto
  <2> QED
    BY <2>1 DEF TypeOK, SlotHasGoroutine, Ids
<1>3. ASSUME NEW i \in Ids, Emit(i) \/ Dial(i) \/ StopStream(i) PROVE SlotHasGoroutine'
  BY <1>3 DEF TypeOK, SlotHasGoroutine, Emit, Dial, StopStream, Goto
<1>4. CASE UNCHANGED <<slots, h>>
  BY <1>4 DEF SlotHasGoroutine
<1>5. \/ \E i \in Ids : Open(i) \/ DeleteSlot(i) \/ Emit(i) \/ Dial(i) \/ StopStream(i)
      \/ \E i \in Files : StartWrite(i) \/ LoopTop(i) \/ NextChunk(i) \/ ChunkAbort(i) \/ Rename(i)
      \/ UNCHANGED <<slots, h>>
  BY DEF Next, vars, Dispatch, DispatcherStep, GoroutineStep, Ids, Deliver, CloseStream, Enqueue,
         EnqueueAbort, Return, LinkLost, Sigterm, ProcessExits, Watchdog, CopyStep, Take, WriteTCP,
         RemoteClosed
<1> QED
  BY <1>1, <1>2, <1>3, <1>4, <1>5

\* What the goroutines do, as the dispatcher sees it: none of them undoes its
\* start, and no step but one of the dispatcher reads a frame.
LEMMA GoroutinesKeep ==
    ASSUME TypeOK, NEW i \in Ids,
           GoroutineStep(i) \/ (i \in Streams /\ (Take(i) \/ WriteTCP(i) \/ RemoteClosed(i)))
    PROVE  /\ UNCHANGED <<sent, link, ctx, disp>>
           /\ \A j \in Ids : h'[j] = "none" <=> h[j] = "none"
<1>1. UNCHANGED <<sent, link, ctx, disp>>
  BY DEF GoroutineStep, StartWrite, LoopTop, NextChunk, ChunkAbort, Rename, Emit, Dial, StopStream,
         DeleteSlot, Take, WriteTCP, RemoteClosed, connVars
<1>2. \/ h' = h
      \/ /\ h[i] # "none"
         /\ \E p \in {"loop", "next", "rename", "emit", "delete", "done"} : h' = [h EXCEPT ![i] = p]
  BY DEF GoroutineStep, StartWrite, LoopTop, NextChunk, ChunkAbort, Rename, Emit, Dial, StopStream,
         DeleteSlot, Take, WriteTCP, RemoteClosed, GiveUp, Goto
<1>3. \A j \in Ids : h'[j] = "none" <=> h[j] = "none"
  BY <1>2 DEF TypeOK
<1> QED
  BY <1>1, <1>3

\* The dispatcher stays with the frame it read until it is put or given up,
\* and returns to a Recv that fails once the session has ended.
LEMMA DispatcherStepInv ==
    TypeOK /\ SlotHasGoroutine /\ DispatcherInv /\ [Next]_vars => DispatcherInv'
<1> SUFFICES ASSUME TypeOK, SlotHasGoroutine, DispatcherInv, [Next]_vars PROVE DispatcherInv'
  OBVIOUS
<1> USE DispForms
<1>1. Again = Recv \/ (Again = End /\ ctx = "done")
  BY DEF Again, TypeOK
<1>2. ASSUME NEW i \in Ids, Open(i) PROVE DispatcherInv'
  BY <1>1, <1>2 DEF Open, DispatcherInv, connVars
<1>3. ASSUME NEW i \in Ids, Deliver(i) PROVE DispatcherInv'
  <2>1. CASE i \in slots
    <3>1. disp'.at = "put" /\ disp'.id = i /\ disp'.k = sent[i] /\ h' = h
      BY <2>1, <1>3 DEF Deliver
    <3>2. sent'[i] - 1 = sent[i]
      BY <1>3 DEF Deliver, Receives, TypeOK
    <3> QED
      BY <2>1, <3>1, <3>2 DEF DispatcherInv, SlotHasGoroutine
  <2>2. CASE i \notin slots
    BY <2>2, <1>1, <1>3 DEF Deliver, DispatcherInv, connVars
  <2> QED BY <2>1, <2>2
<1>4. ASSUME NEW s \in Streams, CloseStream(s) PROVE DispatcherInv'
  BY <1>1, <1>4 DEF CloseStream, DispatcherInv, connVars
<1>5. CASE Enqueue \/ EnqueueAbort
  BY <1>1, <1>5 DEF Enqueue, EnqueueAbort, DispatcherInv, connVars
<1>6. CASE Return
  BY <1>6 DEF Return, DispatcherInv
<1>7. CASE LinkLost \/ Sigterm \/ ProcessExits \/ Watchdog
  BY <1>7 DEF LinkLost, Sigterm, ProcessExits, Watchdog, DispatcherInv
<1>8. ASSUME NEW i \in Ids,
             GoroutineStep(i) \/ (i \in Streams /\ (Take(i) \/ WriteTCP(i) \/ RemoteClosed(i)))
      PROVE  DispatcherInv'
  <2>1. UNCHANGED <<sent, ctx, disp>> /\ \A j \in Ids : h'[j] = "none" <=> h[j] = "none"
    BY <1>8, GoroutinesKeep
  <2>2. disp.at = "put" => disp.id \in Ids
    BY DispCases
  <2> QED
    BY <2>1, <2>2 DEF DispatcherInv
<1>9. CASE UNCHANGED vars
  BY <1>9 DEF vars, DispatcherInv
<1> QED
  BY <1>2, <1>3, <1>4, <1>5, <1>6, <1>7, <1>8, <1>9
  DEF Next, Dispatch, DispatcherStep, CopyStep, Ids
-----------------------------------------------------------------------------
(* The files and the answers *)

\* A file is renamed into place when all of its frames are in the temporary
\* file, and reported written after that; the empty FileComplete of a session
\* that has ended is refused by Send.
LEMMA AnswerStep ==
    TypeOK /\ FlowInv /\ AnswerInv /\ FileIsAtomic /\ ToldIsWritten /\ [Next]_vars
        => AnswerInv' /\ FileIsAtomic' /\ ToldIsWritten'
<1> SUFFICES ASSUME TypeOK, FlowInv, AnswerInv, FileIsAtomic, ToldIsWritten, [Next]_vars
             PROVE  AnswerInv' /\ FileIsAtomic' /\ ToldIsWritten'
  OBVIOUS
<1>0. /\ h \in [Ids -> Places] /\ result \in [Ids -> Answers] /\ answer \in [Ids -> Answers]
      /\ file \in [Ids -> Seq(Frames)] /\ ctx \in {"live", "done"} /\ Files \subseteq Ids
  BY DEF TypeOK, Ids
<1>1. ASSUME UNCHANGED <<file, result, answer>>, ctx' \in {ctx, "done"},
             \A g \in Files : /\ h'[g] \in {"emit", "delete", "done"} <=> h[g] \in {"emit", "delete", "done"}
                              /\ h[g] \in {"delete", "done"} => h'[g] \in {"delete", "done"}
      PROVE  AnswerInv' /\ FileIsAtomic' /\ ToldIsWritten'
  BY <1>1, <1>0 DEF AnswerInv, FileIsAtomic, ToldIsWritten
<1>2. ASSUME NEW i \in Ids, Open(i) PROVE AnswerInv' /\ FileIsAtomic' /\ ToldIsWritten'
  <2>1. UNCHANGED <<file, result, answer, ctx>> /\ h' = [h EXCEPT ![i] = "start"]
    BY <1>2 DEF Open, connVars, dataVars, Goto
  <2>2. h[i] = "none"
    BY <1>2 DEF Open, Receives, FlowInv, FlowOf
  <2> QED BY <1>0, <1>1, <2>1, <2>2
<1>3. ASSUME NEW i \in Ids, (i \in Streams /\ (Dial(i) \/ StopStream(i))) \/ DeleteSlot(i)
      PROVE  AnswerInv' /\ FileIsAtomic' /\ ToldIsWritten'
  <2>1. /\ UNCHANGED <<file, result, answer, ctx>>
        /\ \/ i \notin Files /\ \E p \in {"loop", "delete"} : h' = [h EXCEPT ![i] = p]
           \/ h[i] = "delete" /\ h' = [h EXCEPT ![i] = "done"]
    BY <1>3, IdAssumption DEF Dial, StopStream, DeleteSlot, connVars, dataVars, Goto
  <2> QED BY <1>0, <1>1, <2>1
<1>4. CASE UNCHANGED <<file, result, answer, h>> /\ ctx' \in {ctx, "done"}
  BY <1>4, <1>1
<1>5. ASSUME NEW f \in Files, StartWrite(f) \/ LoopTop(f) \/ NextChunk(f) \/ ChunkAbort(f)
      PROVE  AnswerInv' /\ FileIsAtomic' /\ ToldIsWritten'
  <2>1. UNCHANGED <<file, answer, ctx>> /\ h[f] \in {"start", "loop", "next"}
    BY <1>5 DEF StartWrite, LoopTop, NextChunk, ChunkAbort, connVars
  <2>2. CASE result' = result /\ \E p \in {"loop", "next", "rename"} : h' = [h EXCEPT ![f] = p]
    BY <2>1, <2>2, <1>0, <1>1
  <2>3. CASE \E r \in {"err", "blank"} : /\ r = "blank" => ctx = "done"
                                         /\ result' = [result EXCEPT ![f] = r]
                                         /\ h' = [h EXCEPT ![f] = "emit"]
    BY <2>1, <2>3, <1>0 DEF AnswerInv, FileIsAtomic, ToldIsWritten
  <2> QED
    BY <2>2, <2>3, <1>5 DEF StartWrite, LoopTop, NextChunk, ChunkAbort, GiveUp, Goto
<1>6. ASSUME NEW f \in Files, Rename(f) PROVE AnswerInv' /\ FileIsAtomic' /\ ToldIsWritten'
  <2>1. tmp[f] = UpTo(Last)
    BY <1>0, <1>6 DEF Rename, FlowInv, FlowOf
  <2>2. UNCHANGED <<answer, ctx>> /\ h[f] = "rename" /\ h' = [h EXCEPT ![f] = "emit"]
    BY <1>6 DEF Rename, GiveUp, Goto, connVars
  <2>3. \/ file' = [file EXCEPT ![f] = UpTo(Last)] /\ result' = [result EXCEPT ![f] = "ok"]
        \/ file' = file /\ result' = [result EXCEPT ![f] = "err"]
    BY <2>1, <1>6 DEF Rename, GiveUp
  <2>4. \A g \in Files : file'[g] = file[g] \/ file'[g] = UpTo(Last)
    BY <1>0, <2>3
  <2>5. FileIsAtomic' /\ ToldIsWritten'
    BY <2>2, <2>4 DEF FileIsAtomic, ToldIsWritten
  <2>6. AnswerInv'
    BY <1>0, <2>2, <2>3 DEF AnswerInv
  <2> QED BY <2>5, <2>6
<1>7. ASSUME NEW f \in Files, Emit(f) PROVE AnswerInv' /\ FileIsAtomic' /\ ToldIsWritten'
  <2>1. /\ UNCHANGED <<file, result, ctx>> /\ h[f] = "emit" /\ h' = [h EXCEPT ![f] = "delete"]
        /\ answer' = answer \/ (ctx = "live" /\ answer' = [answer EXCEPT ![f] = result[f]])
    BY <1>7 DEF Emit, Goto, connVars
  <2> QED
    BY <2>1, <1>0 DEF AnswerInv, FileIsAtomic, ToldIsWritten
<1>8. \/ \E i \in Ids : Open(i) \/ (i \in Streams /\ (Dial(i) \/ StopStream(i))) \/ DeleteSlot(i)
      \/ \E f \in Files : \/ StartWrite(f) \/ LoopTop(f) \/ NextChunk(f) \/ ChunkAbort(f)
                          \/ Rename(f) \/ Emit(f)
      \/ UNCHANGED <<file, result, answer, h>> /\ ctx' \in {ctx, "done"}
  BY DEF Next, vars, Dispatch, DispatcherStep, GoroutineStep, Ids, Deliver, CloseStream, Enqueue,
         EnqueueAbort, Return, LinkLost, Sigterm, ProcessExits, Watchdog, CopyStep, Take, WriteTCP,
         RemoteClosed, connVars, dataVars
<1> QED
  BY <1>2, <1>3, <1>4, <1>5, <1>6, <1>7, <1>8
-----------------------------------------------------------------------------
(* The flow of frames *)

\* A step of another transfer, or one that only makes the dispatcher return,
\* leaves the flow of this one alone.
LEMMA FlowKept ==
    ASSUME NEW i \in Ids, FlowOf(i), sent'[i] = sent[i], h'[i] = h[i], tmp'[i] = tmp[i],
           hand'[i] = hand[i], chan'[i] = chan[i],
           disp'.at # "end" => disp.at # "end" /\ Pending(i)' = Pending(i)
    PROVE  FlowOf(i)'
BY DEF FlowOf, Flows, Arrived

\* The sequences of one transfer as counts: their types.
LEMMA FlowTypes ==
    ASSUME TypeOK, NEW i \in Ids
    PROVE  /\ sent[i] \in Nat /\ h[i] \in Places
           /\ tmp[i] \in Seq(Nat) /\ hand[i] \in Seq(Nat) /\ chan[i] \in Seq(Nat)
           /\ Len(tmp[i]) \in Nat /\ Len(hand[i]) \in Nat /\ Len(chan[i]) \in Nat
<1>1. /\ tmp[i] \in Seq(Frames) /\ hand[i] \in Seq(Frames) /\ chan[i] \in Seq(Frames)
      /\ sent[i] \in 0 .. Last + 2 /\ h[i] \in Places
  BY DEF TypeOK
<1>2. sent[i] \in Nat
  BY <1>1, BoundAssumption
<1> QED
  BY <1>1, <1>2, FramesAreNat

\* Opening a transfer starts its flow with nothing read.
LEMMA FlowOpen ==
    ASSUME TypeOK, NEW i \in Ids, NEW j \in Ids, FlowOf(i), Open(j)
    PROVE  FlowOf(i)'
<1> USE DispForms
<1>1. disp.at = "recv" /\ disp'.at # "put" /\ UNCHANGED <<tmp, hand, chan>>
  BY DEF Open, Receives, Again, connVars, dataVars
<1>2. Pending(i) = 0 /\ Pending(i)' = 0
  BY <1>1 DEF Pending
<1>3. /\ sent \in [Ids -> 0 .. Last + 2] /\ h \in [Ids -> Places]
      /\ sent' = [sent EXCEPT ![j] = 1] /\ h' = [h EXCEPT ![j] = "start"] /\ sent[j] = 0
  BY DEF Open, Receives, Goto, TypeOK
<1>4. CASE i = j
  <2>1. h[i] = "none" /\ sent'[i] = 1 /\ h'[i] = "start"
    BY <1>3, <1>4 DEF FlowOf
  <2>2. tmp'[i] = <<>> /\ hand'[i] = <<>> /\ chan'[i] = <<>>
    BY <1>1, <2>1 DEF FlowOf
  <2>3. Arrived(i)' = 0
    BY <2>1, BoundAssumption DEF Arrived
  <2>4. Flows(i)'
    BY <1>2, <2>2, <2>3, CountsEmpty DEF Flows
  <2> QED
    BY <2>1, <2>2, <2>4 DEF FlowOf
<1>5. CASE i # j
  BY <1>1, <1>2, <1>3, <1>5, FlowKept
<1> QED BY <1>4, <1>5

\* The frame read is the one the dispatcher holds, and it is held for every
\* transfer whose goroutine has not ended.
LEMMA FlowDeliver ==
    ASSUME TypeOK, SlotHasGoroutine, NEW i \in Ids, NEW j \in Ids, FlowOf(i), Deliver(j)
    PROVE  FlowOf(i)'
<1> USE DispForms
<1>1. /\ disp.at = "recv" /\ UNCHANGED <<tmp, hand, chan, h>>
      /\ disp' = IF j \in slots THEN Put(j, sent[j]) ELSE Again
  BY DEF Deliver, Receives, connVars, dataVars
<1>2. /\ sent \in [Ids -> 0 .. Last + 2] /\ sent[j] \in 1 .. Last
      /\ sent' = [sent EXCEPT ![j] = sent[j] + 1]
  BY DEF Deliver, Receives, TypeOK
<1>3. Pending(i) = 0
  BY <1>1 DEF Pending
<1>4. CASE i = j
  <2>1. sent'[i] = sent[i] + 1 /\ sent[i] \in 1 .. Last /\ sent[i] # 0 /\ sent'[i] # 0
    BY <1>2, <1>4, BoundAssumption
  <2>2. CASE i \in slots
    <3>1. disp'.at = "put" /\ disp'.id = i
      BY <1>1, <1>4, <2>2
    <3>2. Pending(i)' = 1
      BY <3>1 DEF Pending
    <3>3. Arrived(i)' = Arrived(i) + 1 /\ Arrived(i) \in Nat
      BY <2>1, BoundAssumption DEF Arrived
    <3>4. Flows(i) => Flows(i)'
      <4>1. Len(tmp[i]) \in Nat /\ Len(hand[i]) \in Nat /\ Len(chan[i]) \in Nat
        BY FlowTypes
      <4> QED
        <5>1. tmp'[i] = tmp[i] /\ hand'[i] = hand[i] /\ chan'[i] = chan[i] /\ disp.at # "end"
          BY <1>1
        <5>2. ASSUME NEW l \in Nat, NEW m \in Nat, NEW n \in Nat, l + m + n + Pending(i) = Arrived(i)
              PROVE  l + m + n + Pending(i)' = Arrived(i)'
          BY <5>2, <1>3, <3>2, <3>3
        <5> SUFFICES ASSUME Flows(i) PROVE Flows(i)'
          OBVIOUS
        <5>3. Len(tmp[i]) + Len(hand[i]) + Len(chan[i]) + Pending(i)' = Arrived(i)'
          BY <4>1, <5>1, <5>2 DEF Flows
        <5> QED
          BY <5>1, <5>3 DEF Flows
    <3> QED
      BY <1>1, <2>1, <3>4 DEF FlowOf
  <2>3. CASE i \notin slots
    <3>1. h[i] = "done"
      BY <2>1, <2>3 DEF SlotHasGoroutine, FlowOf
    <3> QED
      BY <1>1, <3>1, <2>1 DEF FlowOf
  <2> QED BY <2>2, <2>3
<1>5. CASE i # j
  <2>1. disp'.at # "end" => Pending(i)' = 0
    BY <1>1, <1>5 DEF Pending, Again
  <2> QED
    BY <1>1, <1>2, <1>3, <1>5, <2>1, FlowKept
<1> QED BY <1>4, <1>5

\* The frame put into a channel goes on where what is there ends.
LEMMA FlowEnqueue ==
    ASSUME TypeOK, DispatcherInv, NEW i \in Ids, FlowOf(i), Enqueue
    PROVE  FlowOf(i)'
<1> USE DispForms
<1> DEFINE d == disp.id
<1>1. /\ d \in Ids /\ disp.k \in Frames /\ disp.at = "put" /\ disp'.at # "put" /\ h[d] # "none"
      /\ disp.k = sent[d] - 1
  BY DispCases DEF Enqueue, DispatcherInv, Again
<1>2. /\ UNCHANGED <<sent, h, tmp, hand>> /\ chan \in [Ids -> Seq(Frames)]
      /\ chan' = [chan EXCEPT ![d] = Append(@, disp.k)]
  BY DEF Enqueue, dataVars, TypeOK
<1>3. Pending(i)' = 0
  BY <1>1 DEF Pending
<1>4. CASE i = d
  <2>1. Pending(i) = 1
    BY <1>1, <1>4 DEF Pending
  <2>2. Arrived(i) = disp.k /\ disp.k \in Nat /\ Arrived(i)' = Arrived(i)
    BY <1>1, <1>2, <1>4, FlowTypes, BoundAssumption DEF Arrived, Frames
  <2>3. chan'[i] = Append(chan[i], disp.k)
    BY <1>1, <1>2, <1>4
  <2>4. ASSUME Flows(i) PROVE Flows(i)'
    <3> DEFINE a == Len(tmp[i]) + Len(hand[i])
    <3>0. Len(tmp[i]) \in Nat /\ Len(hand[i]) \in Nat /\ chan[i] \in Seq(Nat) /\ Len(chan[i]) \in Nat
      BY FlowTypes
    <3>1. Counts(chan[i], a) /\ a + Len(chan[i]) + 1 = disp.k
      BY <1>1, <2>1, <2>2, <2>4 DEF Flows
    <3>2. a \in Nat /\ chan[i] \in Seq(Nat) /\ Len(chan[i]) \in Nat
      <4>1. \A l, m \in Nat : l + m \in Nat
        OBVIOUS
      <4> QED
        BY <3>0, <4>1
    <3>3. Len(chan'[i]) = Len(chan[i]) + 1 /\ Counts(chan'[i], a)
      <4> HIDE DEF a
      <4>1. disp.k = a + Len(chan[i]) + 1 /\ disp.k \in Nat
        BY <2>2, <3>1
      <4>2. Counts(Append(chan[i], disp.k), a) /\ Len(Append(chan[i], disp.k)) = Len(chan[i]) + 1
        BY <3>1, <3>2, <4>1, CountsAppend
      <4> QED
        BY <2>3, <4>2
    <3>4. a + Len(chan'[i]) + 0 = Arrived(i)'
      <4> HIDE DEF a
      <4> QED
        BY <2>2, <3>1, <3>2, <3>3
    <3> QED
      BY <1>2, <1>3, <2>4, <3>3, <3>4 DEF Flows
  <2> QED
    BY <1>1, <1>2, <1>4, <2>4 DEF FlowOf
<1>5. CASE i # d
  <2>1. Pending(i) = 0 /\ chan'[i] = chan[i] /\ disp.at # "end"
    BY <1>1, <1>2, <1>5 DEF Pending
  <2> QED
    BY <1>2, <1>3, <2>1, FlowKept
<1> QED BY <1>4, <1>5

\* A chunk goes from the channel to the temporary file; after the last one
\* the file has all of them.
LEMMA FlowNextChunk ==
    ASSUME TypeOK, NEW i \in Files, FlowOf(i), NextChunk(i)
    PROVE  FlowOf(i)'
<1>1. i \in Ids /\ h[i] = "next" /\ chan[i] # <<>> /\ h \in [Ids -> Places]
  BY DEF NextChunk, Ids, TypeOK
<1>2. Flows(i) /\ hand[i] = <<>> /\ UNCHANGED <<sent, disp, hand>> /\ sent[i] # 0
  BY <1>1 DEF FlowOf, NextChunk
<1>3. CASE GiveUp(i, "err")
  BY <1>1, <1>2, <1>3, Moves DEF FlowOf, GiveUp, Places
<1>4. CASE /\ tmp' = [tmp EXCEPT ![i] = Append(@, Head(chan[i]))]
           /\ Goto(i, IF Head(chan[i]) = Last THEN "rename" ELSE "loop")
  <2> DEFINE t == tmp[i]
             c == chan[i]
  <2>1. t \in Seq(Nat) /\ Len(t) \in Nat /\ c \in Seq(Nat) /\ Len(c) \in Nat /\ Len(hand[i]) = 0
    BY <1>1, <1>2, FlowTypes
  <2>2. Counts(t, 0) /\ Counts(c, Len(t))
    BY <1>2, <2>1 DEF Flows
  <2>3. /\ Head(c) = Len(t) + 1 /\ Tail(c) \in Seq(Nat) /\ Len(Tail(c)) = Len(c) - 1
        /\ Counts(Tail(c), Len(t) + 1)
    BY <1>1, <2>1, <2>2, CountsTail
  <2>4. /\ Append(t, Head(c)) \in Seq(Nat) /\ Len(Append(t, Head(c))) = Len(t) + 1
        /\ Counts(Append(t, Head(c)), 0)
    <3>1. Head(c) \in Nat /\ Head(c) = 0 + Len(t) + 1 /\ 0 \in Nat
      BY <2>1, <2>3
    <3> HIDE DEF t, c
    <3> QED
      BY <2>1, <2>2, <3>1, CountsAppend
  <2>5. tmp'[i] = Append(t, Head(c)) /\ chan'[i] = Tail(c)
    BY <1>1, <1>4 DEF NextChunk, TypeOK
  <2>6. h'[i] = IF Head(c) = Last THEN "rename" ELSE "loop"
    BY <1>1, <1>4 DEF Goto
  <2>7. Pending(i)' = Pending(i) /\ Arrived(i)' = Arrived(i)
    BY <1>2 DEF Pending, Arrived
  <2>8. Flows(i)'
    <3>1. disp'.at # "end" => Len(t) + 0 + Len(c) + Pending(i) = Arrived(i)
      BY <1>2, <2>1 DEF Flows
    <3>2. Len(t) + 1 + 0 = Len(t) + 1 /\ Len(t) + 1 + 0 + (Len(c) - 1) = Len(t) + 0 + Len(c)
      <4> HIDE DEF t, c
      <4> QED BY <2>1
    <3> HIDE DEF t, c
    <3>3. /\ Counts(tmp'[i], 0) /\ Counts(hand'[i], Len(tmp'[i]))
          /\ Counts(chan'[i], Len(tmp'[i]) + Len(hand'[i]))
      <4>1. Len(tmp'[i]) = Len(t) + 1 /\ hand'[i] = <<>> /\ Len(hand'[i]) = 0
        BY <1>2, <2>1, <2>4, <2>5
      <4>2. Len(t) + 1 \in Nat /\ Len(t) + 1 + 0 = Len(t) + 1
        BY <2>1
      <4>3. Counts(hand'[i], Len(t) + 1)
        BY <4>1, <4>2, CountsEmpty
      <4> QED
        BY <2>3, <2>4, <2>5, <4>1, <4>2, <4>3
    <3>4. disp'.at # "end" =>
            Len(tmp'[i]) + Len(hand'[i]) + Len(chan'[i]) + Pending(i)' = Arrived(i)'
      BY <1>2, <2>1, <2>3, <2>4, <2>5, <2>7, <3>1, <3>2
    <3> QED
      BY <3>3, <3>4 DEF Flows
  <2>9. CASE Head(c) = Last
    <3>1. tmp'[i] = UpTo(Last)
      <4> HIDE DEF t, c
      <4>1. Last \in Nat /\ Len(tmp'[i]) = Last /\ tmp'[i] \in Seq(Nat) /\ Counts(tmp'[i], 0)
        BY <2>3, <2>4, <2>5, <2>9, BoundAssumption
      <4>2. UpTo(Last) \in Seq(Nat) /\ Len(UpTo(Last)) = Last /\ Counts(UpTo(Last), 0)
        BY <4>1, UpToCounts
      <4> QED
        BY <4>1, <4>2, CountsEqual
    <3> QED
      BY <1>1, <1>2, <2>6, <2>9, <3>1 DEF FlowOf
  <2>10. CASE Head(c) # Last
    BY <1>1, <1>2, <2>6, <2>8, <2>10 DEF FlowOf
  <2> QED BY <2>9, <2>10
<1> QED
  BY <1>3, <1>4 DEF NextChunk
\* The other steps of a file's goroutine: a tool that gives up leaves nothing
\* in the temporary file, and nothing is required of it after that.
LEMMA FlowFile ==
    ASSUME TypeOK, NEW i \in Files, FlowOf(i),
           StartWrite(i) \/ LoopTop(i) \/ ChunkAbort(i) \/ Rename(i) \/ Emit(i)
    PROVE  FlowOf(i)'
<1>1. i \in Ids /\ h \in [Ids -> Places]
  BY DEF Ids, TypeOK
<1>2. UNCHANGED <<sent, disp, chan, hand>>
  BY DEF StartWrite, LoopTop, ChunkAbort, Rename, Emit
<1>3. h[i] # "none" /\ hand[i] = <<>> /\ sent[i] # 0
  BY DEF StartWrite, LoopTop, ChunkAbort, Rename, Emit, FlowOf
<1>4. CASE h[i] \in {"start", "loop"} /\ tmp' = tmp /\ \E p \in {"loop", "next"} : Goto(i, p)
  <2>1. h'[i] \in {"loop", "next"}
    BY <1>1, <1>4 DEF Goto
  <2>2. Flows(i)
    BY <1>4 DEF FlowOf
  <2>3. Flows(i)'
    BY <1>2, <1>4, <2>2 DEF Flows, Pending, Arrived
  <2> QED
    BY <1>2, <1>3, <2>1, <2>3 DEF FlowOf
<1>5. CASE \E p \in {"emit", "delete"} : Goto(i, p)
  <2>1. h'[i] \in {"emit", "delete"}
    BY <1>1, <1>5 DEF Goto
  <2> QED
    BY <1>2, <1>3, <2>1 DEF FlowOf
<1> QED
  BY <1>4, <1>5 DEF StartWrite, LoopTop, ChunkAbort, Rename, Emit, GiveUp

\* The copying goroutine of a stream passes frames on one at a time.
LEMMA FlowStream ==
    ASSUME TypeOK, NEW i \in Streams, FlowOf(i), Take(i) \/ WriteTCP(i)
    PROVE  FlowOf(i)'
<1> DEFINE t == tmp[i]
           q == hand[i]
           c == chan[i]
<1>1. i \in Ids /\ h[i] = "loop" /\ h' = h /\ UNCHANGED <<sent, disp>> /\ i \notin Files
  BY IdAssumption DEF Ids, Take, WriteTCP
<1>2. Flows(i) /\ sent[i] # 0
  BY <1>1 DEF FlowOf
<1>3. /\ t \in Seq(Nat) /\ q \in Seq(Nat) /\ c \in Seq(Nat)
      /\ Len(t) \in Nat /\ Len(q) \in Nat /\ Len(c) \in Nat
  BY <1>1, FlowTypes
<1>4. Pending(i)' = Pending(i) /\ Arrived(i)' = Arrived(i)
  BY <1>1 DEF Pending, Arrived
<1>5. Counts(t, 0) /\ Counts(q, Len(t)) /\ Counts(c, Len(t) + Len(q))
  BY <1>2 DEF Flows
<1>6. disp'.at # "end" => Len(t) + Len(q) + Len(c) + Pending(i) = Arrived(i)
  BY <1>1, <1>2 DEF Flows
<1>7. CASE Take(i)
  <2>1. q = <<>> /\ c # <<>> /\ tmp'[i] = t /\ hand'[i] = <<Head(c)>> /\ chan'[i] = Tail(c)
    BY <1>1, <1>7 DEF Take, TypeOK
  <2> HIDE DEF t, q, c
  <2>2. Len(q) = 0 /\ Len(t) + Len(q) = Len(t) /\ Counts(c, Len(t))
    BY <1>3, <1>5, <2>1
  <2>3. /\ Head(c) = Len(t) + 1 /\ Len(Tail(c)) = Len(c) - 1 /\ Counts(Tail(c), Len(t) + 1)
    BY <1>3, <2>1, <2>2, CountsTail
  <2>4. Len(hand'[i]) = 1 /\ Counts(hand'[i], Len(t))
    BY <1>3, <2>1, <2>3, CountsSingle
  <2>5. disp'.at # "end" =>
          Len(tmp'[i]) + Len(hand'[i]) + Len(chan'[i]) + Pending(i)' = Arrived(i)'
    <3>1. Len(tmp'[i]) + Len(hand'[i]) + Len(chan'[i]) = Len(t) + Len(q) + Len(c)
      BY <1>3, <2>1, <2>2, <2>3, <2>4
    <3> QED
      BY <3>1, <1>4, <1>6
  <2>6. Flows(i)'
    BY <1>5, <2>1, <2>3, <2>4, <2>5 DEF Flows
  <2> QED
    BY <1>1, <1>2, <2>6 DEF FlowOf
<1>8. CASE WriteTCP(i)
  <2>1. tmp'[i] = t \o q /\ hand'[i] = <<>> /\ chan'[i] = c
    BY <1>1, <1>8 DEF WriteTCP, TypeOK
  <2> HIDE DEF t, q, c
  <2>2. Counts(q, 0 + Len(t)) /\ 0 \in Nat
    BY <1>3, <1>5
  <2>3. /\ t \o q \in Seq(Nat) /\ Len(t \o q) = Len(t) + Len(q) /\ Counts(t \o q, 0)
    BY <1>3, <1>5, <2>2, CountsConcat
  <2>4. /\ Len(tmp'[i]) \in Nat /\ Len(tmp'[i]) = Len(t) + Len(q) /\ Len(hand'[i]) = 0
        /\ Len(tmp'[i]) + Len(hand'[i]) = Len(t) + Len(q)
    BY <1>3, <2>1, <2>3
  <2>5. Counts(hand'[i], Len(tmp'[i]))
    BY <2>1, <2>4, CountsEmpty
  <2>6. disp'.at # "end" =>
          Len(tmp'[i]) + Len(hand'[i]) + Len(chan'[i]) + Pending(i)' = Arrived(i)'
    BY <1>4, <1>6, <2>1, <2>4
  <2>7. Flows(i)'
    BY <1>5, <2>1, <2>3, <2>4, <2>5, <2>6 DEF Flows
  <2> QED
    BY <1>1, <1>2, <2>7 DEF FlowOf
<1> QED BY <1>7, <1>8

\* Every step keeps the flow of every transfer.
LEMMA FlowStep ==
    TypeOK /\ SlotHasGoroutine /\ DispatcherInv /\ FlowInv /\ [Next]_vars => FlowInv'
<1> SUFFICES ASSUME TypeOK, SlotHasGoroutine, DispatcherInv, FlowInv, [Next]_vars, NEW i \in Ids
             PROVE  FlowOf(i)'
  BY DEF FlowInv
<1>0. FlowOf(i) /\ h \in [Ids -> Places]
  BY DEF FlowInv, TypeOK
<1>1. ASSUME NEW j \in Ids, Open(j) \/ Deliver(j) PROVE FlowOf(i)'
  BY <1>0, <1>1, FlowOpen, FlowDeliver
<1>2. ASSUME NEW s \in Streams, CloseStream(s) PROVE FlowOf(i)'
  <2>1. s \in Ids /\ sent[s] = Last + 1 /\ sent' = [sent EXCEPT ![s] = Last + 2]
        /\ disp = Recv /\ disp' = Again /\ UNCHANGED <<h, tmp, hand, chan>>
    <3>1. Last + 1 + 1 = Last + 2
      BY BoundAssumption
    <3> QED
      BY <3>1, <1>2 DEF CloseStream, Receives, dataVars, Ids
  <2>2. disp.at = "recv" /\ disp'.at # "put" /\ Pending(i) = 0 /\ Pending(i)' = 0
    BY <2>1, DispForms DEF Again, Pending
  <2>3. Arrived(i)' = Arrived(i) /\ (sent'[i] = 0 <=> sent[i] = 0)
    BY <2>1, BoundAssumption DEF Arrived, TypeOK
  <2>4. Flows(i) => Flows(i)'
    BY <2>1, <2>2, <2>3 DEF Flows
  <2> QED
    BY <1>0, <2>1, <2>3, <2>4 DEF FlowOf
<1>3. CASE Enqueue
  BY <1>0, <1>3, FlowEnqueue
<1>4. CASE EnqueueAbort \/ Return
  <2>1. disp' = End /\ UNCHANGED <<sent, h, tmp, hand, chan>>
    BY <1>4 DEF EnqueueAbort, Return, Again, dataVars
  <2> QED
    BY <1>0, <2>1, DispForms, FlowKept
<1>5. CASE UNCHANGED <<sent, disp, h, tmp, hand, chan>>
  BY <1>0, <1>5, FlowKept DEF Pending
<1>6. ASSUME NEW j \in Ids, j # i,
             GoroutineStep(j) \/ (j \in Streams /\ (Take(j) \/ WriteTCP(j)))
      PROVE  FlowOf(i)'
  <2>1. UNCHANGED <<sent, disp>>
    BY <1>6, GoroutinesKeep
  <2>2. h'[i] = h[i] /\ tmp'[i] = tmp[i] /\ hand'[i] = hand[i] /\ chan'[i] = chan[i]
    BY <1>0, <1>6 DEF GoroutineStep, StartWrite, LoopTop, NextChunk, ChunkAbort, Rename, Emit, GiveUp,
       Goto, Dial, StopStream, DeleteSlot, Take, WriteTCP, TypeOK, dataVars
  <2> QED
    BY <1>0, <2>1, <2>2, FlowKept DEF Pending
<1>7. ASSUME i \in Files, \/ StartWrite(i) \/ LoopTop(i) \/ NextChunk(i)
                          \/ ChunkAbort(i) \/ Rename(i) \/ Emit(i)
      PROVE  FlowOf(i)'
  BY <1>0, <1>7, FlowFile, FlowNextChunk
<1>8. ASSUME i \in Streams, Take(i) \/ WriteTCP(i) PROVE FlowOf(i)'
  BY <1>0, <1>8, FlowStream
<1>9. ASSUME i \in Streams, Dial(i) \/ StopStream(i) PROVE FlowOf(i)'
  <2>1. i \notin Files /\ UNCHANGED <<sent, disp, tmp, chan>> /\ h[i] \in {"start", "loop"}
    BY <1>9, IdAssumption DEF Dial, StopStream, dataVars
  <2>2. CASE hand' = hand /\ h'[i] = "loop"
    <3>1. Flows(i)
      BY <1>0, <2>1 DEF FlowOf
    <3>2. Flows(i)'
      BY <2>1, <2>2, <3>1 DEF Flows, Pending, Arrived
    <3> QED
      BY <1>0, <2>1, <2>2, <3>2 DEF FlowOf
  <2>3. CASE h'[i] = "delete"
    BY <1>0, <2>1, <2>3 DEF FlowOf
  <2> QED
    BY <1>0, <1>9, <2>2, <2>3 DEF Dial, StopStream, Goto, dataVars
<1>10. CASE DeleteSlot(i)
  <2>1. UNCHANGED <<sent, hand>> /\ h[i] = "delete" /\ h'[i] = "done"
    BY <1>0, <1>10 DEF DeleteSlot, Goto, dataVars
  <2> QED
    BY <1>0, <2>1 DEF FlowOf
<1>11. \/ \E j \in Ids : Open(j) \/ Deliver(j)
       \/ \E s \in Streams : CloseStream(s)
       \/ Enqueue \/ EnqueueAbort \/ Return
       \/ UNCHANGED <<sent, disp, h, tmp, hand, chan>>
       \/ \E j \in Ids : GoroutineStep(j)
       \/ \E s \in Streams : Take(s) \/ WriteTCP(s)
  BY DEF Next, vars, Dispatch, DispatcherStep, LinkLost, Sigterm, ProcessExits, Watchdog, CopyStep,
         RemoteClosed, dataVars
<1> QED
  BY <1>1, <1>2, <1>3, <1>4, <1>5, <1>6, <1>7, <1>8, <1>9, <1>10, <1>11 DEF GoroutineStep, Ids
-----------------------------------------------------------------------------
(* The theorems *)

\* The invariant holds at the start of a session ...
LEMMA SessionInvInit == Init => SessionInv
<1> SUFFICES ASSUME Init PROVE SessionInv
  OBVIOUS
<1>1. TypeOK
  BY TypeInit
<1>2. SlotHasGoroutine /\ AnswerInv /\ FileIsAtomic /\ ToldIsWritten
  <2>1. UpTo(Last) # <<>>
    BY WholeIsNotEmpty
  <2> QED
    BY <2>1 DEF Init, SlotHasGoroutine, AnswerInv, FileIsAtomic, ToldIsWritten, Ids
<1>3. DispatcherInv
  BY DispForms DEF Init, DispatcherInv
<1>4. FlowInv
  BY DEF Init, FlowInv, FlowOf
<1> QED
  BY <1>1, <1>2, <1>3, <1>4 DEF SessionInv

\* ... and every step keeps it.
LEMMA SessionInvStep == SessionInv /\ [Next]_vars => SessionInv'
BY TypeStep, SlotStep, DispatcherStepInv, FlowStep, AnswerStep DEF SessionInv

\* The invariant of a session.
LEMMA SessionInvHolds == Spec => []SessionInv
<1>1. Init => SessionInv
  BY SessionInvInit
<1>2. SessionInv /\ [Next]_vars => SessionInv'
  BY SessionInvStep
<1> QED
  BY <1>1, <1>2, PTL DEF Spec

\* No channel of a transfer or stream is ever filled beyond its capacity, and
\* every variable stays in its type (writeSlot.inbound, streamSlot.inbound).
THEOREM SessionTypeCorrect == Spec => []TypeOK
<1>1. SessionInv => TypeOK
  BY DEF SessionInv
<1> QED
  BY <1>1, SessionInvHolds, PTL

\* s.writes and s.streams hold a slot exactly while its goroutine lives
\* (beginWrite, beginStream and the deferred deletes).
THEOREM SlotsHaveGoroutines == Spec => []SlotHasGoroutine
<1>1. SessionInv => SlotHasGoroutine
  BY DEF SessionInv
<1> QED
  BY <1>1, SessionInvHolds, PTL

\* From the invariant: while the session lives the dispatcher has not
\* returned, so what is written, in hand, in the channel and held by the
\* dispatcher is together all that was read.
LEMMA FlowIsComplete == SessionInv => NothingLost
<1> SUFFICES ASSUME SessionInv, NEW i \in Ids, h[i] \in {"loop", "next"}, ctx = "live"
             PROVE  tmp[i] \o hand[i] \o chan[i] \o InFlight(i) = UpTo(Arrived(i))
  BY DEF NothingLost, Arrived
<1> DEFINE t == tmp[i]
           q == hand[i]
           c == chan[i]
           d == InFlight(i)
<1>1. TypeOK /\ DispatcherInv /\ Flows(i) /\ disp.at # "end"
  BY DEF SessionInv, FlowInv, FlowOf, DispatcherInv
<1>2. /\ t \in Seq(Nat) /\ q \in Seq(Nat) /\ c \in Seq(Nat)
      /\ Len(t) \in Nat /\ Len(q) \in Nat /\ Len(c) \in Nat
  BY <1>1, FlowTypes
<1>3. /\ Counts(t, 0) /\ Counts(q, Len(t)) /\ Counts(c, Len(t) + Len(q))
      /\ Len(t) + Len(q) + Len(c) + Pending(i) = Arrived(i)
  BY <1>1 DEF Flows
<1>4. Arrived(i) \in Nat /\ (disp.at = "put" /\ disp.id = i => disp.k = Arrived(i))
  <2>1. sent[i] \in Nat /\ sent[i] # 0
    BY <1>1, FlowTypes DEF SessionInv, FlowInv, FlowOf
  <2>2. disp.at = "put" => disp.k \in 1 .. Last
    BY <1>1, DispCases, DispForms DEF Frames
  <2> QED
    BY <1>1, <2>1, <2>2, BoundAssumption DEF Arrived, DispatcherInv
<1> DEFINE a == Len(t) + Len(q) + Len(c)
<1>5. d \in Seq(Nat) /\ Len(d) = Pending(i) /\ Counts(d, a)
  <2> HIDE DEF t, q, c
  <2>1. a \in Nat
    BY <1>2
  <2>2. CASE disp.at = "put" /\ disp.id = i
    <3>1. Pending(i) = 1 /\ d = <<disp.k>>
      BY <2>2 DEF Pending, InFlight
    <3> HIDE DEF a
    <3>2. d = <<a + 1>>
      BY <3>1, <1>3, <1>4, <2>2 DEF a
    <3> QED
      BY <2>1, <3>1, <3>2, CountsSingle
  <2>3. CASE ~ (disp.at = "put" /\ disp.id = i)
    <3>1. Pending(i) = 0 /\ d = <<>>
      BY <2>3 DEF Pending, InFlight
    <3> QED
      BY <2>1, <3>1, CountsEmpty
  <2> QED BY <2>2, <2>3
<1> HIDE DEF t, q, c, d
<1>6. t \o q \in Seq(Nat) /\ Len(t \o q) = Len(t) + Len(q) /\ Counts(t \o q, 0)
  BY <1>2, <1>3, CountsConcat
<1>7. /\ (t \o q) \o c \in Seq(Nat) /\ Len((t \o q) \o c) = a /\ Counts((t \o q) \o c, 0)
  <2>1. Counts(c, 0 + Len(t \o q))
    BY <1>2, <1>3, <1>6
  <2> QED
    BY <1>2, <1>6, <2>1, CountsConcat
<1>8. /\ ((t \o q) \o c) \o d \in Seq(Nat) /\ Len(((t \o q) \o c) \o d) = Arrived(i)
      /\ Counts(((t \o q) \o c) \o d, 0)
  <2>1. Counts(d, 0 + Len((t \o q) \o c))
    BY <1>2, <1>5, <1>7
  <2> QED
    BY <1>3, <1>5, <1>7, <2>1, CountsConcat
<1>9. ((t \o q) \o c) \o d = UpTo(Arrived(i))
  <2>1. /\ UpTo(Arrived(i)) \in Seq(Nat) /\ Len(UpTo(Arrived(i))) = Arrived(i)
        /\ Counts(UpTo(Arrived(i)), 0)
    BY <1>4, UpToCounts
  <2> QED
    BY <1>8, <2>1, CountsEqual
<1> QED
  BY <1>9 DEF t, q, c, d

\* As long as a session and a transfer live, no frame that the dispatcher read
\* is lost, repeated or reordered between deliverFileChunk or
\* deliverStreamData and the disk or the TCP connection.
THEOREM NothingIsLost == Spec => []NothingLost
<1>1. SessionInv => NothingLost
  BY FlowIsComplete
<1> QED
  BY <1>1, SessionInvHolds, PTL

\* The destination of a write is untouched or complete, whatever fails
\* (writefile.go:22).
THEOREM FilesAreAtomic == Spec => []FileIsAtomic
<1>1. SessionInv => FileIsAtomic
  BY DEF SessionInv
<1> QED
  BY <1>1, SessionInvHolds, PTL

\* A FileComplete without an error reaches the bridge only when the file is
\* in place: the empty one of a cancelled transfer is never sent.
THEOREM ToldIsTrue == Spec => []ToldIsWritten
<1>1. SessionInv => ToldIsWritten
  BY DEF SessionInv
<1> QED
  BY <1>1, SessionInvHolds, PTL

\* A rename is Store and an answer that is sent is Tell; no other step changes
\* a destination or an answer.
LEMMA PromiseStep ==
    SessionInv /\ [Next]_vars => [Promise!Next]_(Promise!vars)
<1> SUFFICES ASSUME SessionInv, [Next]_vars
             PROVE  Promise!Next \/ UNCHANGED Promise!vars
  OBVIOUS
<1>0. /\ file \in [Ids -> Seq(Frames)] /\ answer \in [Ids -> Answers] /\ result \in [Ids -> Answers]
      /\ Files \subseteq Ids
  BY DEF SessionInv, TypeOK, Ids
<1>1. CASE UNCHANGED <<file, answer>>
  BY <1>1 DEF Promise!vars
<1>2. ASSUME NEW f \in Files, Rename(f) PROVE Promise!Next \/ UNCHANGED Promise!vars
  <2>1. h[f] = "rename" /\ answer' = answer
    BY <1>2 DEF Rename
  <2>2. tmp[f] = UpTo(Last) /\ answer[f] = "none" /\ file[f] = <<>>
    BY <1>0, <2>1 DEF SessionInv, FlowInv, FlowOf, AnswerInv, FileIsAtomic
  <2>3. CASE file' = file
    BY <1>1, <2>1, <2>3
  <2>4. CASE file' = [file EXCEPT ![f] = UpTo(Last)]
    <3>1. [g \in Files |-> file'[g]] = [[g \in Files |-> file[g]] EXCEPT ![f] = UpTo(Last)]
      BY <1>0, <2>4
    <3>2. Promise!Store(f)
      BY <2>1, <2>2, <3>1 DEF Promise!Store
    <3> QED
      BY <3>2 DEF Promise!Next
  <2> QED
    BY <1>2, <2>2, <2>3, <2>4 DEF Rename
<1>3. ASSUME NEW f \in Files, Emit(f) PROVE Promise!Next \/ UNCHANGED Promise!vars
  <2>1. h[f] = "emit" /\ file' = file
    BY <1>3 DEF Emit
  <2>2. CASE answer' = answer
    BY <1>1, <2>1, <2>2
  <2>3. CASE ctx = "live" /\ answer' = [answer EXCEPT ![f] = result[f]]
    <3>1. /\ answer[f] = "none" /\ file[f] \in {<<>>, UpTo(Last)}
          /\ \/ result[f] = "ok" /\ file[f] = UpTo(Last)
             \/ result[f] = "err" /\ file[f] # UpTo(Last)
      BY <1>0, <2>1, <2>3 DEF SessionInv, AnswerInv, FileIsAtomic, Answers
    <3>2. [g \in Files |-> answer'[g]] = [[g \in Files |-> answer[g]] EXCEPT ![f] = result[f]]
      BY <1>0, <2>3
    <3>3. Promise!Tell(f)
      BY <2>1, <3>1, <3>2 DEF Promise!Tell
    <3> QED
      BY <3>3 DEF Promise!Next
  <2> QED
    BY <1>3, <2>2, <2>3 DEF Emit
<1>4. \/ \E f \in Files : Rename(f) \/ Emit(f)
      \/ UNCHANGED <<file, answer>>
  BY DEF Next, vars, Dispatch, DispatcherStep, GoroutineStep, Open, Deliver, CloseStream, Enqueue,
         EnqueueAbort, Return, LinkLost, Sigterm, ProcessExits, Watchdog, StartWrite, LoopTop,
         NextChunk, ChunkAbort, Dial, StopStream, DeleteSlot, CopyStep, Take, WriteTCP, RemoteClosed, dataVars
<1> QED
  BY <1>1, <1>2, <1>3, <1>4

\* A session keeps the promise of module Transfer about each of its files: it
\* is replaced at most once, by the whole content, and one answer at most is
\* sent after that, true and final (WriteFile, UploadChunks, emitFileComplete).
THEOREM TransferKeepsPromise == Spec => KeepsPromise
<1>1. Init => Promise!Init
  <2>1. Files \subseteq Ids
    BY DEF Ids
  <2> QED
    BY <2>1 DEF Init, Promise!Init
<1>2. SessionInv /\ [Next]_vars => [Promise!Next]_(Promise!vars)
  BY PromiseStep
<1> QED
  BY <1>1, <1>2, SessionInvHolds, PTL DEF Spec, KeepsPromise, Promise!Spec
-----------------------------------------------------------------------------
(***************************************************************************)
(* Second, that no interleaving of edits and reads of a path, and no stop  *)
(* of the daemon or the machine between two system calls, leaves a part of *)
(* a content at it, takes the one way to undo an edit away, or shows a     *)
(* read two contents, for any number of calls and any requests.            *)
(***************************************************************************)

\* How far an edit is says what it has done: it matched what it read, its
\* temporary file is complete and flushed before the rename and gone after it,
\* and a call that was refused has left none.
Active == {"backup", "fill", "tmp", "rename", "glob", "prune"}
EditInv(e) ==
    /\ ed[e].pc = "idle" => e \notin synced \cup linked \cup temps
    /\ ed[e].pc \in {"idle", "backup"} => ed[e].try = <<>>
    /\ ed[e].pc = "fill" => ed[e].try # <<>>
    /\ ed[e].pc \in Active => ed[e].req \in EditRequests /\ Matches(ed[e].req, ed[e].read)
    /\ ed[e].pc # "done" => ed[e].told = None /\ ed[e].err = "ok"
    /\ ed[e].pc \in {"backup", "fill", "tmp", "rename"} => e \notin linked
    /\ ed[e].pc = "rename" => e \in temps \cap synced /\ data[e] = Apply(ed[e].req, ed[e].read)
    /\ ed[e].pc \in {"glob", "prune"} \/ ed[e].told = "ok" => e \in linked /\ e \notin temps
    /\ ed[e].told \notin {None, "ok"} => e \notin temps \cup linked
    /\ e \in linked => e \in synced /\ data[e] = Apply(ed[e].req, ed[e].read)
                        /\ Matches(ed[e].req, ed[e].read)

\* What is at the path, or may be there after a loss of power, was put there.
PathInv == path \in linked /\ "orig" \in synced /\ data["orig"] \in Contents

\* Every backup has the name that an edit chose, and so have those about to be
\* removed, and it is dated no later than the latest write of such an edit.
Wrote(f, n) == ed[f].try = <<n>>
WritesInv ==
    /\ \A e \in Editors :
        /\ ed[e].try = <<>> => ed[e].backup = <<>> /\ ed[e].low = 0 /\ ed[e].high = 0
        /\ ed[e].backup \in {<<>>, ed[e].try}
        /\ \A n \in ed[e].victims : \E f \in Editors : Wrote(f, n)
    /\ \A b \in bak : \E f \in Editors : Wrote(f, b.name) /\ b.at <= ed[f].high

\* As long as too few other edits have written a backup that is dated as late as
\* that of e may be, and none has used its name, it is there and nobody is about
\* to remove it.
Later(e) == {f \in Editors \ {e} : ed[f].high >= ed[e].low}
Safe(e) ==
    /\ ed[e].try # <<>> /\ ~lost
    /\ Cardinality(Later(e)) < Keep
    /\ \A f \in Editors \ {e} : ed[f].try # ed[e].try
KeptInv(e) ==
    Safe(e) => /\ \E b \in bak : /\ Wrote(e, b.name) /\ ed[e].low <= b.at
                                 /\ ed[e].backup # <<>> => b.data = ed[e].read
               /\ \A g \in Editors : \A n \in ed[g].victims : ~Wrote(e, n)

\* A read has sent the part of what it opened that ends at its position.
ReadInv(r) ==
    /\ rd[r].pc = "loop" =>
        /\ rd[r].req \in ReadRequests
        /\ rd[r].inode \in linked \ {None} /\ rd[r].base = data[rd[r].inode]
        /\ rd[r].pos = rd[r].req.offset + Len(rd[r].got)
        /\ rd[r].got = SubSeq(rd[r].base, rd[r].req.offset + 1, rd[r].pos)
        /\ Len(rd[r].got) > 0 => rd[r].pos <= Len(rd[r].base)
        /\ rd[r].req.limit > 0 => Len(rd[r].got) <= rd[r].req.limit
    /\ rd[r].pc # "done" => rd[r].told = None
    /\ rd[r].pc = "idle" => rd[r].got = <<>>

\* FilesTypeOK but for the temporary files, which EditInv speaks of.
DataType ==
    /\ data \in [Inodes -> Seq(Tokens)]
    /\ path \in Inodes \cup {None} /\ linked \subseteq Inodes \cup {None}
    /\ synced \subseteq Inodes /\ temps \subseteq Editors
    /\ lost \in BOOLEAN
    /\ cut \subseteq Editors \cup Readers
BackupType ==
    /\ bak \subseteq [name : Names, data : Seq(Tokens), at : Times]
    /\ \A b, c \in bak : b.name = c.name => b = c
CallType ==
    /\ ed \in [Editors -> EditCall] /\ rd \in [Readers -> ReadCall]
    /\ \A e \in Editors : Len(ed[e].backup) <= 1 /\ Len(ed[e].try) <= 1

FilesInv ==
    /\ FilesTypeOK /\ PathInv /\ WritesInv /\ ReadIsSnapshot
    /\ \A e \in Editors : EditInv(e) /\ KeptInv(e)
    /\ \A r \in Readers : ReadInv(r)
-----------------------------------------------------------------------------
(* Induction, and the sequence that an edit makes *)

Below == {p \in Nat \X Nat : p[1] < p[2]}

\* A set of numbers has a least one (from the library's theorem on
\* well-founded relations).
LEMMA LeastNumber ==
    ASSUME NEW T \in SUBSET Nat, T # {}
    PROVE  \E m \in T : \A k \in T : m <= k
<1>1. IsWellFoundedOn(OpToRel(<, Nat), Nat)
  BY NatLessThanWellFounded
<1>2. OpToRel(<, Nat) = Below
  BY DEF OpToRel, Below
<1>3. IsWellFoundedOn(Below, Nat)
  BY <1>1, <1>2, Zenon
<1>4. \A x, y \in Nat : <<x, y>> \in Below <=> x < y
  BY DEF Below
<1>5. PICK m \in T : \A k \in T : ~ (<<k, m>> \in Below)
  BY <1>3, WFMin, Zenon
<1>6. ASSUME NEW k \in T PROVE m <= k
  <2>1. m \in Nat /\ k \in Nat
    OBVIOUS
  <2>2. ~ (k < m)
    BY <1>4, <1>5, <2>1, Zenon
  <2> QED BY <2>1, <2>2
<1> QED BY <1>6, Zenon

\* Induction: a set that has zero and with each number the next has them all.
LEMMA AllNumbers ==
    ASSUME NEW T, 0 \in T, \A n \in T \cap Nat : n + 1 \in T
    PROVE  Nat \subseteq T
<1> SUFFICES ASSUME Nat \ T # {} PROVE FALSE
  OBVIOUS
<1>1. PICK m \in Nat \ T : \A k \in Nat \ T : m <= k
  <2>1. Nat \ T \in SUBSET Nat
    OBVIOUS
  <2> QED BY <2>1, LeastNumber, Zenon
<1>2. m # 0 /\ m \in Nat /\ m - 1 \in Nat /\ (m - 1) + 1 = m
  BY <1>1
<1>3. m - 1 \in T
  BY <1>1, <1>2
<1>4. m \in T
  <2> DEFINE k == m - 1
  <2>1. k \in T \cap Nat /\ k + 1 = m
    BY <1>2, <1>3
  <2> HIDE DEF k
  <2> QED BY <2>1, Zenon
<1> QED BY <1>1, <1>4

\* g joins the first n sequences of q, one after the other.
Joins(g, q, n) == g = [i \in 1 .. n |-> IF i = 1 THEN q[i] ELSE g[i - 1] \o q[i]]

\* The function that FlattenSeq is defined by exists, by induction.
LEMMA JoinExists ==
    ASSUME NEW q, NEW n \in Nat
    PROVE  \E g : Joins(g, q, n)
<1> DEFINE T == {k \in Nat : \E g : Joins(g, q, k)}
<1>1. 0 \in T
  <2>1. Joins([i \in 1 .. 0 |-> q], q, 0)
    BY DEF Joins
  <2> QED BY <2>1
<1>2. ASSUME NEW k \in T \cap Nat PROVE k + 1 \in T
  <2>1. PICK g : Joins(g, q, k)
    OBVIOUS
  <2> DEFINE new == [i \in 1 .. k + 1 |-> IF i = 1 THEN q[i] ELSE g[i - 1] \o q[i]]
  <2>2. \A i \in 1 .. k : new[i] = g[i]
    <3>1. \A i \in 1 .. k : [j \in 1 .. k |-> IF j = 1 THEN q[j] ELSE g[j - 1] \o q[j]][i]
                            = IF i = 1 THEN q[i] ELSE g[i - 1] \o q[i]
      OBVIOUS
    <3>2. \A i \in 1 .. k : g[i] = IF i = 1 THEN q[i] ELSE g[i - 1] \o q[i]
      BY <2>1, <3>1, Zenon DEF Joins
    <3>3. \A i \in 1 .. k : i \in 1 .. k + 1
      OBVIOUS
    <3> QED BY <3>2, <3>3
  <2>3. \A i \in 1 .. k + 1 : i # 1 => i - 1 \in 1 .. k
    OBVIOUS
  <2>4. \A i \in 1 .. k + 1 : new[i] = IF i = 1 THEN q[i] ELSE new[i - 1] \o q[i]
    <3> TAKE i \in 1 .. k + 1
    <3>1. new[i] = IF i = 1 THEN q[i] ELSE g[i - 1] \o q[i]
      OBVIOUS
    <3>2. i # 1 => new[i - 1] = g[i - 1]
      BY <2>2, <2>3
    <3> HIDE DEF new
    <3> QED BY <3>1, <3>2, Zenon
  <2>5. new = [i \in 1 .. k + 1 |-> IF i = 1 THEN q[i] ELSE new[i - 1] \o q[i]]
    <3>1. \A i \in 1 .. k + 1 : (IF i = 1 THEN q[i] ELSE g[i - 1] \o q[i]) = IF i = 1 THEN q[i] ELSE new[i - 1] \o q[i]
      BY <2>4
    <3> QED BY <3>1
  <2> HIDE DEF new
  <2>6. Joins(new, q, k + 1)
    BY <2>5, Zenon DEF Joins
  <2> QED BY <2>6
<1> HIDE DEF T
<1>3. n \in T
  BY <1>1, <1>2, AllNumbers
<1> QED BY <1>3 DEF T

\* FlattenSeq joins sequences to a sequence.
LEMMA FlattenType ==
    ASSUME NEW S, NEW q \in Seq(Seq(S))
    PROVE  Seqs!FlattenSeq(q) \in Seq(S)
<1>1. CASE Len(q) = 0
  <2>1. q = <<>>
    BY <1>1
  <2>2. Seqs!FlattenSeq(q) = q
    BY <1>1 DEF Seqs!FlattenSeq
  <2>3. <<>> \in Seq(S)
    OBVIOUS
  <2> QED BY <2>1, <2>2, <2>3
<1>2. CASE Len(q) # 0
  <2> DEFINE flatten == CHOOSE flatten : flatten = [i \in 1 .. Len(q) |-> IF i = 1 THEN q[i] ELSE flatten[i - 1] \o q[i]]
  <2>1. \E g : Joins(g, q, Len(q))
    <3>1. Len(q) \in Nat
      OBVIOUS
    <3> QED BY <3>1, JoinExists, Zenon
  <2>2. flatten = [i \in 1 .. Len(q) |-> IF i = 1 THEN q[i] ELSE flatten[i - 1] \o q[i]]
    BY <2>1 DEF Joins
  <2>3. Seqs!FlattenSeq(q) = flatten[Len(q)]
    BY <1>2 DEF Seqs!FlattenSeq
  <2> HIDE DEF flatten
  <2> DEFINE T == {k \in Nat : k \in 1 .. Len(q) => flatten[k] \in Seq(S)}
  <2>4. 0 \in T
    OBVIOUS
  <2>5. ASSUME NEW k \in T \cap Nat PROVE k + 1 \in T
    <3> SUFFICES ASSUME k + 1 \in 1 .. Len(q) PROVE flatten[k + 1] \in Seq(S)
      OBVIOUS
    <3>1. flatten[k + 1] = IF k + 1 = 1 THEN q[k + 1] ELSE flatten[(k + 1) - 1] \o q[k + 1]
      BY <2>2
    <3>2. q[k + 1] \in Seq(S)
      OBVIOUS
    <3>3. CASE k = 0
      BY <3>1, <3>2, <3>3
    <3>4. CASE k # 0
      <4>1. (k + 1) - 1 = k /\ k + 1 # 1 /\ k \in 1 .. Len(q)
        BY <3>4
      <4>2. flatten[k] \in Seq(S)
        BY <4>1
      <4>3. flatten[k + 1] = flatten[k] \o q[k + 1]
        BY <3>1, <4>1
      <4> QED BY <3>2, <4>2, <4>3
    <3> QED BY <3>3, <3>4
  <2> HIDE DEF T
  <2>6. Len(q) \in T
    BY <2>4, <2>5, AllNumbers
  <2> QED BY <2>3, <2>6, <1>2 DEF T
<1> QED BY <1>1, <1>2

\* Replacing in a content gives a content.
LEMMA ApplyType ==
    ASSUME NEW req \in EditRequests, NEW s \in Seq(Tokens)
    PROVE  Apply(req, s) \in Seq(Tokens)
<1> DEFINE q == [i \in DOMAIN s |-> IF s[i] = req.old THEN req.new ELSE <<s[i]>>]
<1>1. req.new \in Seq(Tokens)
  BY CallAssumption
<1>2. \A i \in DOMAIN s : <<s[i]>> \in Seq(Tokens)
  OBVIOUS
<1>3. DOMAIN s = 1 .. Len(s) /\ Len(s) \in Nat
  OBVIOUS
<1>4. q \in Seq(Seq(Tokens))
  BY <1>1, <1>2, <1>3
<1> HIDE DEF q
<1>5. Seqs!FlattenSeq(q) \in Seq(Tokens)
  BY <1>4, FlattenType
<1> QED BY <1>5 DEF Apply, q
-----------------------------------------------------------------------------
(* Types *)

\* The parts of FilesTypeOK.
LEMMA TypeParts ==
    /\ FilesTypeOK <=> /\ DataType /\ BackupType /\ CallType
                        /\ \A e \in Editors : ed[e].pc = "rename" => e \in temps
    /\ FilesTypeOK' <=> /\ DataType' /\ BackupType' /\ CallType'
                         /\ \A e \in Editors : ed'[e].pc = "rename" => e \in temps'
<1>1. FilesTypeOK <=> /\ DataType /\ BackupType /\ CallType
                      /\ \A e \in Editors : ed[e].pc = "rename" => e \in temps
  BY DEF FilesTypeOK, DataType, BackupType, CallType
<1>2. FilesTypeOK' <=> /\ DataType' /\ BackupType' /\ CallType'
                       /\ \A e \in Editors : ed'[e].pc = "rename" => e \in temps'
  BY DEF FilesTypeOK, DataType, BackupType, CallType
<1> QED BY <1>1, <1>2

\* What a call of EditFile is made of.
LEMMA CallForms ==
    ASSUME NEW x \in EditCall
    PROVE  /\ x.pc \in {"idle", "backup", "fill", "tmp", "rename", "glob", "prune", "done"}
           /\ x.req \in EditRequests \cup {<<>>} /\ x.read \in Seq(Tokens)
           /\ x.try \in Seq(Names) /\ x.backup \in Seq(Names)
           /\ x.low \in Nat /\ x.high \in Nat /\ x.victims \in SUBSET Names
           /\ x.err \in Errs /\ x.told \in Errs \cup {None}
  BY DEF EditCall

\* Changing one of its fields leaves it one.
LEMMA CallUpdates ==
    ASSUME NEW x \in EditCall
    PROVE  /\ \A v \in {"idle", "backup", "fill", "tmp", "rename", "glob", "prune", "done"} : [x EXCEPT !.pc = v] \in EditCall
           /\ \A v \in EditRequests : [x EXCEPT !.req = v] \in EditCall
           /\ \A v \in Seq(Tokens) : [x EXCEPT !.read = v] \in EditCall
           /\ \A v \in Seq(Names) : [x EXCEPT !.try = v] \in EditCall /\ [x EXCEPT !.backup = v] \in EditCall
           /\ \A v \in Nat : [x EXCEPT !.low = v] \in EditCall /\ [x EXCEPT !.high = v] \in EditCall
           /\ \A v \in SUBSET Names : [x EXCEPT !.victims = v] \in EditCall
           /\ \A v \in Errs : [x EXCEPT !.err = v] \in EditCall
           /\ \A v \in Errs \cup {None} : [x EXCEPT !.told = v] \in EditCall
  BY DEF EditCall

\* A step of one edit changes its call only.
OneCall(e, x) == x \in EditCall /\ ed' = [ed EXCEPT ![e] = x]
LEMMA OneCallStep ==
    ASSUME CallType, NEW e \in Editors, NEW x, OneCall(e, x)
    PROVE  /\ ed'[e] = x /\ \A f \in Editors \ {e} : ed'[f] = ed[f]
           /\ ed' \in [Editors -> EditCall]
  BY DEF CallType, OneCall

\* x differs from y in what says how far the edit is and what it answers.
SameBackup(x, y) ==
    /\ x.try = y.try /\ x.backup = y.backup /\ x.low = y.low /\ x.high = y.high
    /\ x.victims = y.victims

\* A call that ends answers what its last step says, or nobody.
LEMMA AnswerForm ==
    ASSUME NEW e \in Editors, NEW x \in EditCall, EditAnswer(e, x)
    PROVE  \E y : /\ OneCall(e, y) /\ SameBackup(y, x) /\ y.pc = "done"
                  /\ y.req = x.req /\ y.read = x.read
                  /\ y.told = IF e \in cut THEN None ELSE x.err
<1> DEFINE y == [x EXCEPT !.pc = "done", !.told = IF e \in cut THEN None ELSE x.err]
<1>1. y \in EditCall
  BY DEF EditCall
<1>2. /\ y.try = x.try /\ y.backup = x.backup /\ y.low = x.low /\ y.high = x.high
      /\ y.victims = x.victims /\ y.pc = "done" /\ y.req = x.req /\ y.read = x.read
      /\ y.told = IF e \in cut THEN None ELSE x.err
  BY DEF EditCall
<1>3. ed' = [ed EXCEPT ![e] = y]
  BY DEF EditAnswer
<1> HIDE DEF y
<1> QED BY <1>1, <1>2, <1>3 DEF OneCall, SameBackup

\* EditRead goes on with a request that matches, or answers an error.
LEMMA EditReadForm ==
    ASSUME DataType, CallType, NEW e \in Editors, EditRead(e), EditInv(e)
    PROVE  \E x : /\ OneCall(e, x) /\ SameBackup(x, ed[e])
                  /\ \/ /\ x.pc = "backup" /\ x.told = None /\ x.err = "ok"
                        /\ x.req \in EditRequests /\ Matches(x.req, x.read)
                     \/ x.pc = "done" /\ x.told # "ok"
<1>1. PICK req \in EditRequests :
        LET s == data[path]
            next == [ed[e] EXCEPT !.req = req, !.read = s]
        IN IF path = None THEN EditAnswer(e, [ed[e] EXCEPT !.req = req, !.err = "not_found"])
           ELSE IF Matches(req, s) /\ Len(s) <= MaxFile
                THEN ed' = [ed EXCEPT ![e] = [next EXCEPT !.pc = "backup"]]
                ELSE EditAnswer(e, [next EXCEPT !.err = Refusal(req, s)])
  BY DEF EditRead
<1>2. ed[e] \in EditCall /\ ed[e].told = None /\ ed[e].err = "ok"
  BY DEF CallType, EditRead, EditInv
<1>3. CASE path = None
  <2> DEFINE x == [ed[e] EXCEPT !.req = req, !.err = "not_found"]
  <2>1. x \in EditCall /\ SameBackup(x, ed[e]) /\ x.err = "not_found"
    BY <1>2 DEF EditCall, Errs, SameBackup
  <2>2. EditAnswer(e, x)
    BY <1>1, <1>3
  <2> HIDE DEF x
  <2>3. PICK y : /\ OneCall(e, y) /\ SameBackup(y, x) /\ y.pc = "done"
                 /\ y.told = IF e \in cut THEN None ELSE x.err
    BY <2>1, <2>2, AnswerForm
  <2>4. y.told # "ok"
    BY <2>1, <2>3 DEF None
  <2> QED BY <2>1, <2>3, <2>4 DEF SameBackup
<1>4. CASE path # None
  <2> DEFINE s == data[path]
  <2>1. s \in Seq(Tokens)
    BY <1>4 DEF DataType
  <2> HIDE DEF s
  <2>2. CASE Matches(req, s) /\ Len(s) <= MaxFile
    <3> DEFINE x == [ed[e] EXCEPT !.req = req, !.read = s, !.pc = "backup"]
    <3>1. x \in EditCall /\ SameBackup(x, ed[e])
      BY <1>2, <2>1 DEF EditCall, SameBackup
    <3>2. x.pc = "backup" /\ x.told = None /\ x.err = "ok" /\ x.req = req /\ x.read = s
      BY <1>2 DEF EditCall
    <3>3. ed' = [ed EXCEPT ![e] = x]
      BY <1>1, <1>4, <2>2 DEF s
    <3> HIDE DEF x
    <3> QED BY <2>2, <3>1, <3>2, <3>3 DEF OneCall
  <2>3. CASE ~(Matches(req, s) /\ Len(s) <= MaxFile)
    <3> DEFINE x == [ed[e] EXCEPT !.req = req, !.read = s, !.err = Refusal(req, s)]
    <3>0. Refusal(req, s) \in Errs \ {"ok"}
      BY DEF Refusal, Errs
    <3>1. x \in EditCall /\ SameBackup(x, ed[e]) /\ x.err = Refusal(req, s)
      BY <1>2, <2>1, <3>0 DEF EditCall, SameBackup
    <3>2. EditAnswer(e, x)
      BY <1>1, <1>4, <2>3 DEF s
    <3> HIDE DEF x
    <3>3. PICK y : /\ OneCall(e, y) /\ SameBackup(y, x) /\ y.pc = "done"
                   /\ y.told = IF e \in cut THEN None ELSE x.err
      BY <3>1, <3>2, AnswerForm
    <3>4. y.told # "ok"
      BY <3>0, <3>1, <3>3 DEF None
    <3> QED BY <3>1, <3>3, <3>4 DEF SameBackup
  <2> QED BY <2>2, <2>3
<1> QED BY <1>3, <1>4

\* The call e goes to p, and has the same request, content and backup.
Goes(e, x, p) ==
    OneCall(e, x) /\ SameBackup(x, ed[e]) /\ x.pc = p /\ x.req = ed[e].req /\ x.read = ed[e].read

\* A step that is part of an edit leaves its answer alone.
LEMMA GoesForm ==
    ASSUME CallType, NEW e \in Editors, NEW p \in Active, ed' = [ed EXCEPT ![e].pc = p]
    PROVE  \E x : Goes(e, x, p) /\ x.told = ed[e].told /\ x.err = ed[e].err
<1> DEFINE x == [ed[e] EXCEPT !.pc = p]
<1>1. ed[e] \in EditCall
  BY DEF CallType
<1>2. x \in EditCall
  BY <1>1 DEF EditCall, Active
<1>3. SameBackup(x, ed[e]) /\ x.pc = p /\ x.req = ed[e].req /\ x.read = ed[e].read
      /\ x.told = ed[e].told /\ x.err = ed[e].err
  BY <1>1 DEF EditCall, SameBackup
<1>4. ed' = [ed EXCEPT ![e] = x]
  OBVIOUS
<1> HIDE DEF x
<1> QED BY <1>2, <1>3, <1>4 DEF Goes, OneCall

\* An edit that ends answers "ok" when it was carried out, an error when it
\* failed, and nobody when its session is over.
LEMMA EndForm ==
    ASSUME CallType, NEW e \in Editors, EditCancelled(e) \/ EditFails(e) \/ EditDone(e), EditInv(e)
    PROVE  \E x : /\ Goes(e, x, "done")
                  /\ EditCancelled(e) => x.told = None
                  /\ EditFails(e) => x.told \in {None, "write_failed"}
                  /\ EditDone(e) => x.told \in {None, "ok"}
<1>1. ed[e] \in EditCall /\ (EditCancelled(e) => ed[e].err = "ok")
  BY DEF CallType, EditCancelled, EditInv
<1>2. CASE EditCancelled(e)
  <2>1. EditAnswer(e, ed[e]) /\ e \in cut /\ ~EditFails(e) /\ ~EditDone(e)
    BY <1>2 DEF EditCancelled, EditFails, EditDone
  <2>2. PICK y : /\ OneCall(e, y) /\ SameBackup(y, ed[e]) /\ y.pc = "done"
                 /\ y.req = ed[e].req /\ y.read = ed[e].read
                 /\ y.told = IF e \in cut THEN None ELSE ed[e].err
    BY <1>1, <2>1, AnswerForm
  <2> QED BY <2>1, <2>2 DEF Goes
<1>3. ASSUME NEW err \in {"write_failed", "ok"}, EditAnswer(e, [ed[e] EXCEPT !.err = err])
      PROVE  \E x : Goes(e, x, "done") /\ x.told \in {None, err}
  <2> DEFINE x == [ed[e] EXCEPT !.err = err]
  <2>1. x \in EditCall /\ SameBackup(x, ed[e]) /\ x.err = err /\ x.req = ed[e].req /\ x.read = ed[e].read
    BY <1>1 DEF EditCall, Errs, SameBackup
  <2>2. EditAnswer(e, x)
    BY <1>3
  <2> HIDE DEF x
  <2>3. PICK y : /\ OneCall(e, y) /\ SameBackup(y, x) /\ y.pc = "done"
                 /\ y.req = x.req /\ y.read = x.read
                 /\ y.told = IF e \in cut THEN None ELSE x.err
    BY <2>1, <2>2, AnswerForm
  <2> QED BY <2>1, <2>3 DEF Goes, SameBackup
<1>4. CASE EditFails(e)
  <2>1. EditAnswer(e, [ed[e] EXCEPT !.err = "write_failed"]) /\ ~EditCancelled(e) /\ ~EditDone(e)
    BY <1>4 DEF EditCancelled, EditFails, EditDone
  <2>2. \E x : Goes(e, x, "done") /\ x.told \in {None, "write_failed"}
    BY <1>3, <2>1
  <2> QED BY <2>1, <2>2, Zenon
<1>5. CASE EditDone(e)
  <2>1. EditAnswer(e, [ed[e] EXCEPT !.err = "ok"]) /\ ~EditCancelled(e) /\ ~EditFails(e)
    BY <1>5 DEF EditCancelled, EditFails, EditDone
  <2>2. \E x : Goes(e, x, "done") /\ x.told \in {None, "ok"}
    BY <1>3, <2>1
  <2> QED BY <2>1, <2>2, Zenon
<1> QED BY <1>2, <1>4, <1>5

\* The name of a backup is a name.
LEMMA NameType ==
    ASSUME NEW stamp \in Stamps, NEW s \in Seq(Tokens)
    PROVE  Name(stamp, s) \in Names /\ <<Name(stamp, s)>> \in Seq(Names) /\ Len(<<Name(stamp, s)>>) = 1
<1>1. Name(stamp, s) \in Names
  BY DEF Name, Names
<1>2. \A S : \A n \in S : <<n>> \in Seq(S) /\ Len(<<n>>) = 1
  OBVIOUS
<1> QED BY <1>1, <1>2, Zenon

\* A time is a number.
LEMMA TimeType ==
    ASSUME NEW at \in Times
    PROVE  at \in Nat
  BY LimitAssumption DEF Times

\* What a write that is dated "at" does to the dates of e's backup.
Dates(e, x, at) == x.low \in Nat /\ x.high \in Nat /\ x.low <= at /\ at <= x.high /\ ed[e].high <= x.high

\* Creating, filling, listing and removing backups.
LEMMA OpenForm ==
    ASSUME CallType, WritesInv, NEW e \in Editors, EditInv(e), BackupOpen(e)
    PROVE  \E stamp \in Stamps, at \in Times :
              /\ bak' = Written(Name(stamp, ed[e].read), <<>>, at)
              /\ \E x : /\ OneCall(e, x) /\ x.pc = "fill" /\ x.try = <<Name(stamp, ed[e].read)>>
                        /\ x.backup = ed[e].backup /\ x.victims = ed[e].victims
                        /\ Dates(e, x, at)
                        /\ x.req = ed[e].req /\ x.read = ed[e].read
                        /\ x.told = ed[e].told /\ x.err = ed[e].err
<1>0. PICK stamp \in Stamps, at \in Times :
        /\ bak' = Written(Name(stamp, ed[e].read), <<>>, at)
        /\ ed' = [ed EXCEPT ![e] = [@ EXCEPT !.pc = "fill", !.try = <<Name(stamp, ed[e].read)>>,
                                             !.low = at, !.high = at]]
  BY DEF BackupOpen
<1> DEFINE n == <<Name(stamp, ed[e].read)>>
           x == [ed[e] EXCEPT !.pc = "fill", !.try = n, !.low = at, !.high = at]
<1>1. ed[e] \in EditCall /\ ed[e].high = 0
  BY DEF CallType, BackupOpen, EditInv, WritesInv
<1>2. ed[e].read \in Seq(Tokens) /\ at \in Nat
  BY <1>1, TimeType DEF EditCall
<1>3. n \in Seq(Names)
  BY <1>2, NameType
<1> HIDE DEF n
<1>4. /\ x \in EditCall /\ x.pc = "fill" /\ x.try = n
      /\ x.backup = ed[e].backup /\ x.victims = ed[e].victims
      /\ x.low = at /\ x.high = at
      /\ x.req = ed[e].req /\ x.read = ed[e].read
      /\ x.told = ed[e].told /\ x.err = ed[e].err
  BY <1>1, <1>2, <1>3 DEF EditCall
<1>5. ed' = [ed EXCEPT ![e] = x]
  BY <1>0 DEF n
<1> HIDE DEF x
<1>6. OneCall(e, x) /\ Dates(e, x, at)
  BY <1>1, <1>2, <1>4, <1>5 DEF Dates, OneCall
<1>7. \E y : /\ OneCall(e, y) /\ y.pc = "fill" /\ y.try = n
             /\ y.backup = ed[e].backup /\ y.victims = ed[e].victims
             /\ Dates(e, y, at)
             /\ y.req = ed[e].req /\ y.read = ed[e].read
             /\ y.told = ed[e].told /\ y.err = ed[e].err
  BY <1>4, <1>6, Zenon
<1> QED BY <1>0, <1>7, Zenon DEF n

\* A backup that is filled, or is not and is not answered.
LEMMA FillForm ==
    ASSUME CallType, NEW e \in Editors, BackupFill(e)
    PROVE  \E at \in Times, s \in {<<>>, ed[e].read} :
              /\ bak' = IF Without(ed[e].try[1]) = bak THEN bak ELSE Written(ed[e].try[1], s, at)
              /\ \E x : /\ OneCall(e, x) /\ x.pc = "tmp" /\ x.try = ed[e].try
                        /\ x.backup \in {<<>>, ed[e].try} /\ x.victims = ed[e].victims
                        /\ x.backup # <<>> => s = ed[e].read
                        /\ Dates(e, x, at) /\ x.low <= ed[e].low
                        /\ x.req = ed[e].req /\ x.read = ed[e].read
                        /\ x.told = ed[e].told /\ x.err = ed[e].err
<1>0. PICK at \in Times, ok \in BOOLEAN :
        /\ bak' = IF Without(ed[e].try[1]) = bak THEN bak
                  ELSE Written(ed[e].try[1], IF ok THEN ed[e].read ELSE <<>>, at)
        /\ ed' = [ed EXCEPT ![e] = [@ EXCEPT !.pc = "tmp", !.backup = IF ok THEN ed[e].try ELSE <<>>,
                                             !.low = Least(ed[e].low, at), !.high = Most(ed[e].high, at)]]
  BY DEF BackupFill
<1> DEFINE s == IF ok THEN ed[e].read ELSE <<>>
           n == IF ok THEN ed[e].try ELSE <<>>
           lo == Least(ed[e].low, at)
           hi == Most(ed[e].high, at)
           x == [ed[e] EXCEPT !.pc = "tmp", !.backup = n, !.low = lo, !.high = hi]
<1>1. ed[e] \in EditCall /\ ed[e].low \in Nat /\ ed[e].high \in Nat /\ at \in Nat
  BY TimeType, CallForms DEF CallType
<1>2. lo \in Nat /\ hi \in Nat /\ lo <= at /\ at <= hi /\ ed[e].high <= hi /\ lo <= ed[e].low
  BY <1>1 DEF Least, Most
<1>3. n \in Seq(Names) /\ n \in {<<>>, ed[e].try} /\ s \in {<<>>, ed[e].read} /\ (n # <<>> => s = ed[e].read)
  <2>1. ed[e].try \in Seq(Names) /\ <<>> \in Seq(Names)
    BY <1>1, CallForms
  <2> QED BY <2>1
<1>4. ed' = [ed EXCEPT ![e] = x]
  BY <1>0
<1>5. bak' = IF Without(ed[e].try[1]) = bak THEN bak ELSE Written(ed[e].try[1], s, at)
  BY <1>0
<1> HIDE DEF lo, hi, n, s
<1>6. /\ x \in EditCall /\ x.pc = "tmp" /\ x.try = ed[e].try
      /\ x.backup = n /\ x.victims = ed[e].victims
      /\ x.low = lo /\ x.high = hi
      /\ x.req = ed[e].req /\ x.read = ed[e].read
      /\ x.told = ed[e].told /\ x.err = ed[e].err
  BY <1>1, <1>2, <1>3 DEF EditCall
<1> HIDE DEF x
<1>7. OneCall(e, x) /\ Dates(e, x, at) /\ x.low <= ed[e].low
  BY <1>2, <1>4, <1>6 DEF OneCall, Dates
<1>8. x.backup \in {<<>>, ed[e].try} /\ (x.backup # <<>> => s = ed[e].read)
  BY <1>3, <1>6
<1> QED BY <1>3, <1>5, <1>6, <1>7, <1>8

\* The backups that e is about to remove.
Removing(e, x, p, v) ==
    /\ OneCall(e, x) /\ x.pc = p /\ x.victims = v
    /\ x.try = ed[e].try /\ x.backup = ed[e].backup
    /\ x.low = ed[e].low /\ x.high = ed[e].high
    /\ x.req = ed[e].req /\ x.read = ed[e].read
    /\ x.told = ed[e].told /\ x.err = ed[e].err

LEMMA GlobForm ==
    ASSUME BackupType, CallType, NEW e \in Editors, Glob(e)
    PROVE  \E w \in Outdated : \E x : Removing(e, x, "prune", {b.name : b \in w})
<1>0. PICK w \in Outdated :
        ed' = [ed EXCEPT ![e] = [@ EXCEPT !.pc = "prune", !.victims = {b.name : b \in w}]]
  BY DEF Glob
<1> DEFINE v == {b.name : b \in w}
           x == [ed[e] EXCEPT !.pc = "prune", !.victims = v]
<1>1. ed[e] \in EditCall
  BY DEF CallType
<1>2. v \in SUBSET Names
  BY DEF BackupType, Outdated
<1> HIDE DEF v
<1>3. x \in EditCall
  BY <1>1, <1>2 DEF EditCall
<1>4. /\ x.pc = "prune" /\ x.victims = v
      /\ x.try = ed[e].try /\ x.backup = ed[e].backup
      /\ x.low = ed[e].low /\ x.high = ed[e].high
      /\ x.req = ed[e].req /\ x.read = ed[e].read
      /\ x.told = ed[e].told /\ x.err = ed[e].err
  BY <1>1 DEF EditCall
<1>5. ed' = [ed EXCEPT ![e] = x]
  BY <1>0 DEF v
<1> HIDE DEF x
<1> QED BY <1>3, <1>4, <1>5 DEF Removing, OneCall, v

LEMMA PruneForm ==
    ASSUME CallType, NEW e \in Editors, Prune(e)
    PROVE  \E n \in ed[e].victims : /\ bak' = Without(n)
                                     /\ \E x : Removing(e, x, "prune", ed[e].victims \ {n})
<1>1. PICK n \in ed[e].victims : /\ bak' = Without(n)
                                 /\ ed' = [ed EXCEPT ![e].victims = @ \ {n}]
  BY DEF Prune
<1> DEFINE v == ed[e].victims \ {n}
           x == [ed[e] EXCEPT !.victims = v]
<1>2. ed[e] \in EditCall /\ ed[e].pc = "prune"
  BY DEF CallType, Prune
<1>3. v \in SUBSET Names
  BY <1>2 DEF EditCall
<1>4. ed' = [ed EXCEPT ![e] = x]
  BY <1>1
<1> HIDE DEF v
<1>5. x \in EditCall
  BY <1>2, <1>3 DEF EditCall
<1>6. /\ x.pc = "prune" /\ x.victims = v
      /\ x.try = ed[e].try /\ x.backup = ed[e].backup
      /\ x.low = ed[e].low /\ x.high = ed[e].high
      /\ x.req = ed[e].req /\ x.read = ed[e].read
      /\ x.told = ed[e].told /\ x.err = ed[e].err
  BY <1>2 DEF EditCall
<1> HIDE DEF x
<1>7. Removing(e, x, "prune", v)
  BY <1>4, <1>5, <1>6 DEF Removing, OneCall
<1> QED BY <1>1, <1>7 DEF v
-----------------------------------------------------------------------------
(* Backups *)

\* Steps that write and remove no backup.
Quiet ==
    /\ bak' = bak /\ lost' = lost
    /\ \A f \in Editors :
        /\ SameBackup(ed'[f], ed[f])
        /\ ed[f].try # <<>> => ed'[f].read = ed[f].read

\* What the invariants need of the types.
LEMMA CallTypes ==
    ASSUME CallType, NEW e \in Editors
    PROVE  /\ ed[e].low \in Nat /\ ed[e].high \in Nat /\ ed[e].try \in Seq(Names)
           /\ Len(ed[e].try) <= 1 /\ (ed[e].try # <<>> => ed[e].try = <<ed[e].try[1]>>)
<1>1. ed[e] \in EditCall /\ Len(ed[e].try) <= 1
  BY DEF CallType
<1>2. ed[e].low \in Nat /\ ed[e].high \in Nat /\ ed[e].try \in Seq(Names)
  BY <1>1 DEF EditCall
<1>3. ASSUME NEW q \in Seq(Names), Len(q) <= 1, q # <<>> PROVE q = <<q[1]>>
  <2>1. Len(q) = 1
    <3>1. Len(q) \in Nat \ {0}
      BY <1>3, EmptySeq
    <3>2. \A k \in Nat \ {0} : k <= 1 => k = 1
      OBVIOUS
    <3> QED BY <1>3, <3>1, <3>2, Zenon
  <2>2. DOMAIN q = 1 .. 1 /\ q = [i \in DOMAIN q |-> q[i]]
    BY <2>1
  <2>3. \A i \in 1 .. 1 : i = 1
    OBVIOUS
  <2> QED BY <2>1, <2>2, <2>3
<1> QED BY <1>1, <1>2, <1>3

LEMMA LaterType ==
    ASSUME NEW e \in Editors
    PROVE  IsFiniteSet(Later(e)) /\ Cardinality(Later(e)) \in Nat
<1>1. Later(e) \subseteq Editors
  BY DEF Later
<1> QED BY <1>1, FS_Subset, FS_CardinalityType, CallAssumption

\* Nor do they, or a loss of backups, break what WritesInv says.
LEMMA WritesStay ==
    ASSUME WritesInv, bak' \subseteq bak, \A f \in Editors : SameBackup(ed'[f], ed[f])
    PROVE  WritesInv'
<1>1. \A f \in Editors : /\ ed'[f].try = ed[f].try /\ ed'[f].backup = ed[f].backup
                          /\ ed'[f].low = ed[f].low /\ ed'[f].high = ed[f].high
                          /\ ed'[f].victims = ed[f].victims
  BY DEF SameBackup
<1>2. \A e \in Editors :
        /\ ed'[e].try = <<>> => ed'[e].backup = <<>> /\ ed'[e].low = 0 /\ ed'[e].high = 0
        /\ ed'[e].backup \in {<<>>, ed'[e].try}
  BY <1>1 DEF WritesInv
<1>3. \A e \in Editors : \A n \in ed'[e].victims : \E f \in Editors : ed'[f].try = <<n>>
  <2> TAKE e \in Editors
  <2>1. ed'[e].victims = ed[e].victims
    BY <1>1
  <2>2. \A n \in ed[e].victims : \E f \in Editors : ed[f].try = <<n>>
    BY DEF WritesInv, Wrote
  <2> QED BY <1>1, <2>1, <2>2
<1>4. \A b \in bak' : \E f \in Editors : ed'[f].try = <<b.name>> /\ b.at <= ed'[f].high
  <2> TAKE b \in bak'
  <2>1. b \in bak
    OBVIOUS
  <2>2. \E f \in Editors : ed[f].try = <<b.name>> /\ b.at <= ed[f].high
    BY <2>1 DEF WritesInv, Wrote
  <2> QED BY <1>1, <2>2
<1> QED BY <1>2, <1>3, <1>4, Zenon DEF WritesInv, Wrote

\* Such steps break nothing.
LEMMA QuietKeeps ==
    ASSUME Quiet, WritesInv, \A e \in Editors : KeptInv(e)
    PROVE  WritesInv' /\ \A e \in Editors : KeptInv(e)'
<1>1. \A f \in Editors : /\ ed'[f].try = ed[f].try /\ ed'[f].backup = ed[f].backup
                          /\ ed'[f].low = ed[f].low /\ ed'[f].high = ed[f].high
                          /\ ed'[f].victims = ed[f].victims
  BY DEF Quiet, SameBackup
<1>2. WritesInv'
  BY WritesStay DEF Quiet
<1>3. ASSUME NEW e \in Editors, Safe(e)' PROVE Safe(e)
  <2>1. Later(e)' = Later(e)
    BY <1>1 DEF Later
  <2> QED BY <1>1, <1>3, <2>1 DEF Safe, Quiet
<1>4. ASSUME NEW e \in Editors, Safe(e)' PROVE ed'[e].read = ed[e].read
  BY <1>1, <1>4 DEF Safe, Quiet
<1>5. ASSUME NEW e \in Editors PROVE KeptInv(e)'
  BY <1>1, <1>3, <1>4 DEF KeptInv, Wrote, Quiet
<1> QED BY <1>2, <1>5

\* A backup that is safe after a step that moves no date of a write back was
\* safe before it.
LEMMA SafeBefore ==
    ASSUME CallType, CallType', NEW e \in Editors, Safe(e)', ed[e].try # <<>>,
           ed'[e].low <= ed[e].low, ed'[e].try = ed[e].try, lost' = lost,
           \A f \in Editors \ {e} : ed[f].high <= ed'[f].high,
           \A f \in Editors \ {e} : ed[f].try # <<>> => ed'[f].try = ed[f].try
    PROVE  Safe(e)
<1>1. Later(e) \subseteq Later(e)'
  <2> SUFFICES ASSUME NEW f \in Editors \ {e}, ed[f].high >= ed[e].low
               PROVE  ed'[f].high >= ed'[e].low
    BY DEF Later
  <2>1. ed[f].high \in Nat /\ ed'[f].high \in Nat /\ ed[e].low \in Nat /\ ed'[e].low \in Nat
    BY CallTypes DEF CallType, EditCall
  <2>2. ed[f].high <= ed'[f].high
    OBVIOUS
  <2> QED BY <2>1, <2>2
<1>2. IsFiniteSet(Later(e)')
  BY FS_Subset, CallAssumption DEF Later
<1>3. Cardinality(Later(e)) <= Cardinality(Later(e)') /\ Cardinality(Later(e)') \in Nat /\ Cardinality(Later(e)) \in Nat
  BY <1>1, <1>2, FS_Subset, FS_CardinalityType
<1>4. Cardinality(Later(e)') < Keep
  BY DEF Safe
<1>5. Cardinality(Later(e)) < Keep
  BY <1>3, <1>4, LimitAssumption
<1>6. \A f \in Editors \ {e} : ed[f].try # ed[e].try
  BY DEF Safe
<1> QED BY <1>5, <1>6 DEF Safe

\* The backup that is written, and those that stay.
LEMMA WrittenForms ==
    ASSUME BackupType, NEW n, NEW s, NEW at
    PROVE  /\ Backup(n, s, at) \in Written(n, s, at) /\ Backup(n, s, at).name = n
           /\ Backup(n, s, at).data = s /\ Backup(n, s, at).at = at
           /\ Without(n) \subseteq bak /\ Without(n) \subseteq Written(n, s, at)
           /\ \A b \in bak : b.name # n => b \in Without(n)
           /\ \A b \in Written(n, s, at) : b = Backup(n, s, at) \/ (b \in bak /\ b.name # n)
  BY DEF Backup, Written, Without

\* What WritesInv says of one edit, and of one backup.
LEMMA WritesForms ==
    ASSUME WritesInv
    PROVE  /\ \A e \in Editors :
                 /\ ed[e].try = <<>> => ed[e].backup = <<>> /\ ed[e].low = 0 /\ ed[e].high = 0
                 /\ ed[e].backup \in {<<>>, ed[e].try}
           /\ \A e \in Editors : \A n \in ed[e].victims : \E f \in Editors : ed[f].try = <<n>>
           /\ \A b \in bak : \E f \in Editors : ed[f].try = <<b.name>> /\ b.at <= ed[f].high
  BY DEF WritesInv, Wrote

\* e, whose backup is n, writes it, unless it is gone.
Writes(e, x, n, s, at) ==
    /\ OneCall(e, x) /\ x.try = <<n>> /\ ed[e].try \in {<<>>, <<n>>}
    /\ x.backup \in {<<>>, x.try} /\ x.victims = ed[e].victims
    /\ at \in Times /\ Dates(e, x, at)
    /\ bak' \in {bak, Written(n, s, at)} /\ lost' = lost

\* No date of a write has moved back, and no other call has changed.
LEMMA WritesSteps ==
    ASSUME CallType, CallType', NEW e \in Editors, NEW x, NEW n, NEW s, NEW at, Writes(e, x, n, s, at)
    PROVE  /\ ed'[e] = x /\ \A f \in Editors \ {e} : ed'[f] = ed[f]
           /\ \A f \in Editors : /\ ed'[f].victims = ed[f].victims
                                 /\ ed[f].try # <<>> => ed'[f].try = ed[f].try
                                 /\ ed[f].high \in Nat /\ ed'[f].high \in Nat /\ ed[f].high <= ed'[f].high
<1>1. ed'[e] = x /\ \A f \in Editors \ {e} : ed'[f] = ed[f]
  BY OneCallStep DEF Writes
<1>2. ASSUME NEW f \in Editors
      PROVE  /\ ed'[f].victims = ed[f].victims
             /\ ed[f].try # <<>> => ed'[f].try = ed[f].try
             /\ ed[f].high \in Nat /\ ed'[f].high \in Nat /\ ed[f].high <= ed'[f].high
  <2>1. ed[f].high \in Nat /\ ed'[f].high \in Nat
    BY CallTypes DEF CallType, EditCall
  <2>2. CASE f = e
    BY <1>1, <2>1, <2>2 DEF Writes, Dates
  <2>3. CASE f # e
    <3>1. ed'[f] = ed[f]
      BY <1>1, <2>3
    <3> QED BY <2>1, <3>1
  <2> QED BY <2>2, <2>3
<1> QED BY <1>1, <1>2

\* A write keeps what holds of the writes, and does not touch a backup that is
\* another's and safe.
LEMMA WriteKeeps ==
    ASSUME BackupType, CallType, CallType', WritesInv, \A f \in Editors : KeptInv(f),
           NEW e \in Editors, NEW x, NEW n, NEW s, NEW at, Writes(e, x, n, s, at)
    PROVE  WritesInv' /\ \A f \in Editors \ {e} : KeptInv(f)'
<1>1. ed'[e] = x /\ \A f \in Editors \ {e} : ed'[f] = ed[f]
  BY WritesSteps
<1>2. \A f \in Editors : ed'[f].victims = ed[f].victims /\ (ed[f].try # <<>> => ed'[f].try = ed[f].try)
  BY WritesSteps
<1>3. \A f \in Editors : ed[f].high \in Nat /\ ed'[f].high \in Nat /\ ed[f].high <= ed'[f].high
  BY WritesSteps
<1>4. x.try = <<n>> /\ x.backup \in {<<>>, x.try} /\ at <= x.high /\ lost' = lost /\ at \in Nat
  BY TimeType DEF Writes, Dates
<1>5. \A b \in bak' : b = Backup(n, s, at) \/ b \in bak
  BY WrittenForms DEF Writes
<1>6. WritesInv'
  <2>1. ASSUME NEW f \in Editors
        PROVE  /\ ed'[f].try = <<>> => ed'[f].backup = <<>> /\ ed'[f].low = 0 /\ ed'[f].high = 0
               /\ ed'[f].backup \in {<<>>, ed'[f].try}
    <3>1. CASE f = e
      <4>1. ed'[f].try # <<>> /\ ed'[f].backup \in {<<>>, ed'[f].try}
        BY <1>1, <1>4, <3>1
      <4> QED BY <4>1
    <3>2. CASE f # e
      <4>1. ed'[f] = ed[f]
        BY <1>1, <3>2
      <4> QED BY <4>1, WritesForms
    <3> QED BY <3>1, <3>2
  <2>2. ASSUME NEW f \in Editors, NEW m \in ed'[f].victims PROVE \E g \in Editors : ed'[g].try = <<m>>
    <3>1. m \in ed[f].victims
      BY <1>2, Zenon
    <3>2. PICK g \in Editors : ed[g].try = <<m>>
      BY <3>1, WritesForms
    <3>3. ed[g].try # <<>>
      BY <3>2
    <3>4. ed'[g].try = <<m>>
      BY <1>2, <3>2, <3>3, Zenon
    <3> QED BY <3>4
  <2>3. ASSUME NEW b \in bak' PROVE \E f \in Editors : ed'[f].try = <<b.name>> /\ b.at <= ed'[f].high
    <3>1. CASE b = Backup(n, s, at)
      <4>1. b.name = n /\ b.at = at
        BY <3>1, WrittenForms
      <4>2. ed'[e].try = <<b.name>> /\ b.at <= ed'[e].high
        BY <1>1, <1>4, <4>1
      <4> QED BY <4>2
    <3>2. CASE b \in bak
      <4>1. PICK f \in Editors : ed[f].try = <<b.name>> /\ b.at <= ed[f].high
        BY <3>2, WritesForms
      <4>2. b.at \in Nat
        BY <3>2, TimeType DEF BackupType
      <4>3. ed[f].try # <<>>
        BY <4>1
      <4>4. ed'[f].try = <<b.name>>
        BY <1>2, <4>1, <4>3, Zenon
      <4>5. b.at <= ed'[f].high
        <5>1. ed[f].high \in Nat /\ ed'[f].high \in Nat /\ ed[f].high <= ed'[f].high
          BY <1>3
        <5> QED BY <4>1, <4>2, <5>1
      <4> QED BY <4>4, <4>5
    <3> QED BY <1>5, <3>1, <3>2
  <2> QED BY <2>1, <2>2, <2>3, Zenon DEF WritesInv, Wrote
<1>7. ASSUME NEW f \in Editors, f # e PROVE KeptInv(f)'
  <2> SUFFICES ASSUME Safe(f)'
               PROVE  /\ \E b \in bak' : /\ ed'[f].try = <<b.name>> /\ ed'[f].low <= b.at
                                         /\ ed'[f].backup # <<>> => b.data = ed'[f].read
                      /\ \A g \in Editors : \A m \in ed'[g].victims : ed'[f].try # <<m>>
    BY Zenon DEF KeptInv, Wrote
  <2>1. ed'[f] = ed[f] /\ ed[f].try # <<>> /\ ed[f].try # <<n>>
    <3>1. ed'[f] = ed[f]
      BY <1>1, <1>7
    <3>2. ed'[f].try # <<>> /\ ed'[e].try # ed'[f].try
      BY <1>7 DEF Safe
    <3> QED BY <1>1, <1>4, <3>1, <3>2
  <2>2. ed'[f].low <= ed[f].low
    <3>1. ed[f].low \in Nat
      BY CallTypes
    <3> QED BY <2>1, <3>1
  <2>3. Safe(f)
    <3>1. \A g \in Editors \ {f} : ed[g].high <= ed'[g].high
      BY <1>3, Zenon
    <3>2. \A g \in Editors \ {f} : ed[g].try # <<>> => ed'[g].try = ed[g].try
      BY <1>2, Zenon
    <3>3. ed'[f].try = ed[f].try /\ ed[f].try # <<>> /\ lost' = lost
      BY <1>4, <2>1
    <3> QED BY <2>2, <3>1, <3>2, <3>3, SafeBefore, Zenon
  <2>4. PICK b \in bak : /\ ed[f].try = <<b.name>> /\ ed[f].low <= b.at
                         /\ ed[f].backup # <<>> => b.data = ed[f].read
    BY <2>3 DEF KeptInv, Wrote
  <2>5. b \in bak'
    <3>1. b.name # n
      BY <2>1, <2>4
    <3>2. b \in Written(n, s, at)
      BY <3>1, WrittenForms
    <3> QED BY <3>2 DEF Writes
  <2>6. \A g \in Editors : \A m \in ed'[g].victims : ed'[f].try # <<m>>
    <3>1. \A g \in Editors : \A m \in ed[g].victims : ed[f].try # <<m>>
      BY <2>3 DEF KeptInv, Wrote
    <3> QED BY <1>2, <2>1, <3>1, Zenon
  <2> QED BY <2>1, <2>4, <2>5, <2>6
<1> QED BY <1>6, <1>7

\* An edit creates its backup: its name is one that no edit had chosen, unless
\* they share it.
LEMMA OpenKeeps ==
    ASSUME BackupType, CallType, CallType', WritesInv, \A f \in Editors : KeptInv(f),
           NEW e \in Editors, BackupOpen(e), EditInv(e)
    PROVE  WritesInv' /\ \A f \in Editors : KeptInv(f)'
<1>1. PICK stamp \in Stamps, at \in Times :
        /\ bak' = Written(Name(stamp, ed[e].read), <<>>, at)
        /\ \E x : /\ OneCall(e, x) /\ x.try = <<Name(stamp, ed[e].read)>>
                  /\ x.backup = ed[e].backup /\ x.victims = ed[e].victims
                  /\ Dates(e, x, at)
  BY OpenForm
<1> DEFINE n == Name(stamp, ed[e].read)
<1>2. PICK x : /\ OneCall(e, x) /\ x.try = <<n>> /\ x.backup = ed[e].backup
               /\ x.victims = ed[e].victims /\ Dates(e, x, at)
  BY <1>1
<1>3. ed[e].try = <<>> /\ ed[e].backup = <<>> /\ lost' = lost
  BY WritesForms DEF BackupOpen, EditInv
<1>4. bak' = Written(n, <<>>, at)
  BY <1>1
<1> HIDE DEF n
<1>5. Writes(e, x, n, <<>>, at)
  BY <1>2, <1>3, <1>4 DEF Writes
<1>6. WritesInv' /\ \A f \in Editors \ {e} : KeptInv(f)'
  BY <1>5, WriteKeeps
<1>7. KeptInv(e)'
  <2> SUFFICES ASSUME Safe(e)'
               PROVE  /\ \E b \in bak' : /\ ed'[e].try = <<b.name>> /\ ed'[e].low <= b.at
                                         /\ ed'[e].backup # <<>> => b.data = ed'[e].read
                      /\ \A g \in Editors : \A m \in ed'[g].victims : ed'[e].try # <<m>>
    BY Zenon DEF KeptInv, Wrote
  <2>1. Backup(n, <<>>, at) \in bak' /\ Backup(n, <<>>, at).name = n /\ Backup(n, <<>>, at).at = at
    BY <1>4, WrittenForms
  <2>2. ed'[e] = x
    BY <1>5, WritesSteps
  <2>3. ed'[e].try = <<n>> /\ ed'[e].backup = <<>> /\ ed'[e].low <= at
    BY <1>2, <1>3, <2>2 DEF Dates
  <2>4. ASSUME NEW g \in Editors, NEW m \in ed'[g].victims PROVE ed'[e].try # <<m>>
    <3>1. PICK f \in Editors : ed[f].try = <<m>>
      BY <1>5, WritesSteps, WritesForms
    <3>2. <<m>> # <<>>
      OBVIOUS
    <3>3. f # e /\ ed'[f].try = <<m>>
      BY <1>3, <1>5, <3>1, <3>2, WritesSteps
    <3> QED BY <3>3 DEF Safe
  <2> QED BY <2>1, <2>3, <2>4
<1> QED BY <1>6, <1>7

\* An edit fills its backup, unless it is gone; a backup that is safe is not.
LEMMA FillKeeps ==
    ASSUME BackupType, CallType, CallType', WritesInv, \A f \in Editors : KeptInv(f),
           NEW e \in Editors, EditInv(e), BackupFill(e)
    PROVE  WritesInv' /\ \A f \in Editors : KeptInv(f)'
<1>1. PICK at \in Times, s \in {<<>>, ed[e].read} :
        /\ bak' = IF Without(ed[e].try[1]) = bak THEN bak ELSE Written(ed[e].try[1], s, at)
        /\ \E x : /\ OneCall(e, x) /\ x.try = ed[e].try
                  /\ x.backup \in {<<>>, ed[e].try} /\ x.victims = ed[e].victims
                  /\ x.backup # <<>> => s = ed[e].read
                  /\ Dates(e, x, at) /\ x.low <= ed[e].low /\ x.read = ed[e].read
  BY FillForm
<1> DEFINE n == ed[e].try[1]
<1>2. PICK x : /\ OneCall(e, x) /\ x.try = ed[e].try
               /\ x.backup \in {<<>>, ed[e].try} /\ x.victims = ed[e].victims
               /\ x.backup # <<>> => s = ed[e].read
               /\ Dates(e, x, at) /\ x.low <= ed[e].low /\ x.read = ed[e].read
  BY <1>1
<1>3. ed[e].try = <<n>> /\ ed[e].try # <<>> /\ lost' = lost
  BY CallTypes DEF EditInv, BackupFill
<1>4. bak' = IF Without(n) = bak THEN bak ELSE Written(n, s, at)
  BY <1>1
<1> HIDE DEF n
<1>5. Writes(e, x, n, s, at)
  BY <1>2, <1>3, <1>4 DEF Writes
<1>6. WritesInv' /\ \A f \in Editors \ {e} : KeptInv(f)'
  BY <1>5, WriteKeeps
<1>7. KeptInv(e)'
  <2> SUFFICES ASSUME Safe(e)'
               PROVE  /\ \E b \in bak' : /\ ed'[e].try = <<b.name>> /\ ed'[e].low <= b.at
                                         /\ ed'[e].backup # <<>> => b.data = ed'[e].read
                      /\ \A g \in Editors : \A m \in ed'[g].victims : ed'[e].try # <<m>>
    BY Zenon DEF KeptInv, Wrote
  <2>1. ed'[e] = x /\ ed'[e].try = ed[e].try /\ ed'[e].low <= ed[e].low
    BY <1>2, <1>5, WritesSteps
  <2>2. Safe(e)
    BY <1>3, <1>5, <2>1, WritesSteps, SafeBefore
  <2>3. PICK b \in bak : ed[e].try = <<b.name>>
    BY <2>2 DEF KeptInv, Wrote
  <2>4. b.name = n
    BY <1>3, <2>3
  <2>5. Without(n) # bak
    BY <2>4 DEF Without
  <2> DEFINE c == Backup(n, s, at)
  <2>6. c \in bak' /\ c.name = n /\ c.data = s /\ c.at = at
    BY <1>4, <2>5, WrittenForms
  <2> HIDE DEF c
  <2>7. ed'[e].try = <<c.name>> /\ ed'[e].low <= c.at /\ (ed'[e].backup # <<>> => c.data = ed'[e].read)
    BY <1>2, <1>3, <2>1, <2>6 DEF Dates
  <2>8. \A g \in Editors : \A m \in ed'[g].victims : ed'[e].try # <<m>>
    BY <1>5, <2>1, <2>2, WritesSteps DEF KeptInv, Wrote
  <2> QED BY <2>6, <2>7, <2>8
<1> QED BY <1>6, <1>7

\* What is removed from the list of backups, or from the backups, when nobody
\* writes any.
LEMMA RemovingKeeps ==
    ASSUME CallType, WritesInv, NEW e \in Editors, NEW x, NEW p, NEW v, Removing(e, x, p, v),
           bak' \subseteq bak, lost' = lost,
           \A m \in v : \E f \in Editors : ed[f].try = <<m>>
    PROVE  /\ \A f \in Editors : /\ ed'[f].try = ed[f].try /\ ed'[f].backup = ed[f].backup
                                 /\ ed'[f].low = ed[f].low /\ ed'[f].high = ed[f].high
                                 /\ ed'[f].read = ed[f].read
                                 /\ ed'[f].victims = IF f = e THEN v ELSE ed[f].victims
           /\ WritesInv'
           /\ \A f \in Editors : Safe(f)' => Safe(f)
<1>1. ed'[e] = x /\ \A f \in Editors \ {e} : ed'[f] = ed[f]
  BY OneCallStep DEF Removing
<1>2. \A f \in Editors :
        /\ ed'[f].try = ed[f].try /\ ed'[f].backup = ed[f].backup
        /\ ed'[f].low = ed[f].low /\ ed'[f].high = ed[f].high
        /\ ed'[f].read = ed[f].read
        /\ ed'[f].victims = IF f = e THEN v ELSE ed[f].victims
  <2> TAKE f \in Editors
  <2>1. CASE f = e
    BY <1>1, <2>1 DEF Removing
  <2>2. CASE f # e
    <3>1. ed'[f] = ed[f]
      BY <1>1, <2>2
    <3> QED BY <2>2, <3>1, Zenon
  <2> QED BY <2>1, <2>2
<1>3. WritesInv'
  <2>1. \A f \in Editors :
          /\ ed'[f].try = <<>> => ed'[f].backup = <<>> /\ ed'[f].low = 0 /\ ed'[f].high = 0
          /\ ed'[f].backup \in {<<>>, ed'[f].try}
    <3> TAKE f \in Editors
    <3>1. /\ ed'[f].try = ed[f].try /\ ed'[f].backup = ed[f].backup
          /\ ed'[f].low = ed[f].low /\ ed'[f].high = ed[f].high
      BY <1>2, Zenon
    <3>2. /\ ed[f].try = <<>> => ed[f].backup = <<>> /\ ed[f].low = 0 /\ ed[f].high = 0
          /\ ed[f].backup \in {<<>>, ed[f].try}
      BY WritesForms
    <3> QED BY <3>1, <3>2
  <2>2. ASSUME NEW f \in Editors, NEW m \in ed'[f].victims PROVE \E g \in Editors : ed'[g].try = <<m>>
    <3>1. \E g \in Editors : ed[g].try = <<m>>
      <4>1. CASE f = e
        BY <1>2, <4>1
      <4>2. CASE f # e
        <5>1. m \in ed[f].victims
          BY <1>2, <4>2, Zenon
        <5> QED BY <5>1, WritesForms
      <4> QED BY <4>1, <4>2
    <3> QED BY <1>2, <3>1
  <2>3. ASSUME NEW b \in bak'
        PROVE  \E f \in Editors : ed'[f].try = <<b.name>> /\ b.at <= ed'[f].high
    <3>1. \E f \in Editors : ed[f].try = <<b.name>> /\ b.at <= ed[f].high
      BY WritesForms
    <3> QED BY <1>2, <3>1
  <2> QED BY <2>1, <2>2, <2>3, Zenon DEF WritesInv, Wrote
<1>4. ASSUME NEW f \in Editors, Safe(f)' PROVE Safe(f)
  <2>1. Later(f)' = Later(f)
    BY <1>2 DEF Later
  <2> QED BY <1>2, <1>4, <2>1 DEF Safe
<1>5. \A f \in Editors : Safe(f)' => Safe(f)
  BY <1>4
<1> QED BY <1>2, <1>3, <1>5, Zenon

\* A function has no more values than arguments.
LEMMA ImageCount ==
    ASSUME NEW S, IsFiniteSet(S), NEW f, f \in [S -> {f[x] : x \in S}]
    PROVE  /\ IsFiniteSet({f[x] : x \in S})
           /\ Cardinality({f[x] : x \in S}) <= Cardinality(S)
<1> DEFINE T == {f[x] : x \in S}
<1>1. f \in Surjection(S, T)
  BY DEF Surjection
<1> HIDE DEF T
<1>2. IsFiniteSet(T) /\ Cardinality(T) <= Cardinality(S)
  BY <1>1, FS_Surjection
<1> QED BY <1>2 DEF T

\* There are no more backups than edits that may have written them.
LEMMA WritersCount ==
    ASSUME BackupType, WritesInv, NEW S \in SUBSET bak, NEW W \in SUBSET Editors,
           \A c \in S : \A g \in Editors : ed[g].try = <<c.name>> /\ c.at <= ed[g].high => g \in W
    PROVE  IsFiniteSet(S) /\ IsFiniteSet(W) /\ Cardinality(S) <= Cardinality(W)
<1> DEFINE rec == [g \in W |-> CHOOSE c \in bak : ed[g].try = <<c.name>>]
           T == {rec[g] : g \in W}
<1>1. IsFiniteSet(W)
  BY FS_Subset, CallAssumption
<1>2. IsFiniteSet(T) /\ Cardinality(T) <= Cardinality(W)
  <2>1. rec \in [W -> T]
    OBVIOUS
  <2> HIDE DEF rec
  <2> QED BY <1>1, <2>1, ImageCount
<1>3. S \subseteq T
  <2> SUFFICES ASSUME NEW c \in S PROVE c \in T
    OBVIOUS
  <2>1. PICK g \in Editors : ed[g].try = <<c.name>> /\ c.at <= ed[g].high
    BY WritesForms
  <2>2. g \in W
    BY <2>1
  <2>3. \A d \in bak : ed[g].try = <<d.name>> => d = c
    BY <2>1 DEF BackupType
  <2>4. (CHOOSE d \in bak : ed[g].try = <<d.name>>) = c
    BY <2>1, <2>3
  <2>5. rec[g] = c
    BY <2>2, <2>4
  <2> HIDE DEF rec
  <2> QED BY <2>2, <2>5
<1> HIDE DEF T
<1>4. IsFiniteSet(S) /\ Cardinality(S) <= Cardinality(T)
  BY <1>2, <1>3, FS_Subset
<1>5. Cardinality(S) \in Nat /\ Cardinality(T) \in Nat /\ Cardinality(W) \in Nat
  BY <1>1, <1>2, <1>4, FS_CardinalityType
<1> QED BY <1>1, <1>2, <1>4, <1>5

\* If the backup of f may be sorted behind the first Keep ones, as many other
\* edits have written one that is dated as late.
LEMMA OutdatedCount ==
    ASSUME BackupType, CallType, WritesInv, NEW f \in Editors, NEW v \in Outdated, NEW b \in v,
           b \in bak, ed[f].try = <<b.name>>, ed[f].low <= b.at
    PROVE  Keep <= Cardinality(Later(f))
<1> DEFINE S == bak \ v
<1>1. Cardinality(S) = Least(Keep, Cardinality(bak)) /\ (\A c \in S : b.at <= c.at)
  BY DEF Outdated
<1>2. IsFiniteSet(bak)
  BY WritersCount
<1>3. Cardinality(S) # Cardinality(bak)
  <2>1. S \subseteq bak /\ S # bak
    OBVIOUS
  <2> HIDE DEF S
  <2> QED BY <1>2, <2>1, FS_Subset
<1>4. Cardinality(S) = Keep
  BY <1>1, <1>3 DEF Least
<1>5. ASSUME NEW c \in S, NEW g \in Editors, ed[g].try = <<c.name>>, c.at <= ed[g].high
      PROVE  g \in Later(f)
  <2>1. c \in bak /\ b.at <= c.at /\ c # b
    BY <1>1
  <2>2. c.at \in Nat /\ b.at \in Nat /\ ed[g].high \in Nat /\ ed[f].low \in Nat
    BY <2>1, CallTypes, TimeType DEF BackupType
  <2>3. g # f
    <3>1. g = f => c.name = b.name
      BY <1>5
    <3> QED BY <2>1, <3>1 DEF BackupType
  <2>4. ed[g].high >= ed[f].low
    BY <1>5, <2>1, <2>2
  <2> QED BY <2>3, <2>4 DEF Later
<1>6. S \in SUBSET bak /\ Later(f) \in SUBSET Editors
  BY DEF Later
<1> HIDE DEF S
<1>7. Cardinality(S) <= Cardinality(Later(f))
  BY <1>5, <1>6, WritersCount
<1> QED BY <1>4, <1>7

\* Listing the backups does not put a safe one on the list.
LEMMA GlobKeeps ==
    ASSUME BackupType, CallType, WritesInv, \A f \in Editors : KeptInv(f), NEW e \in Editors, Glob(e)
    PROVE  WritesInv' /\ \A f \in Editors : KeptInv(f)'
<1>0. PICK w \in Outdated : \E x : Removing(e, x, "prune", {b.name : b \in w})
  BY GlobForm
<1> DEFINE v == {b.name : b \in w}
<1>1. PICK x : Removing(e, x, "prune", v)
  BY <1>0
<1>2. bak' = bak /\ lost' = lost
  BY DEF Glob
<1>3. \A m \in v : \E b \in w : b \in bak /\ m = b.name
  BY DEF Outdated
<1> HIDE DEF v
<1>4. ASSUME NEW m \in v PROVE \E f \in Editors : ed[f].try = <<m>>
  <2>1. PICK b \in bak : m = b.name
    BY <1>3
  <2> QED BY <2>1, WritesForms
<1>5. bak' \subseteq bak
  BY <1>2
<1>6. /\ \A f \in Editors : /\ ed'[f].try = ed[f].try /\ ed'[f].backup = ed[f].backup
                            /\ ed'[f].low = ed[f].low /\ ed'[f].high = ed[f].high
                            /\ ed'[f].read = ed[f].read
                            /\ ed'[f].victims = IF f = e THEN v ELSE ed[f].victims
      /\ WritesInv'
      /\ \A f \in Editors : Safe(f)' => Safe(f)
  BY <1>1, <1>2, <1>4, <1>5, RemovingKeeps
<1>7. ASSUME NEW f \in Editors PROVE KeptInv(f)'
  <2> SUFFICES ASSUME Safe(f)'
               PROVE  /\ \E b \in bak' : /\ ed'[f].try = <<b.name>> /\ ed'[f].low <= b.at
                                         /\ ed'[f].backup # <<>> => b.data = ed'[f].read
                      /\ \A g \in Editors : \A m \in ed'[g].victims : ed'[f].try # <<m>>
    BY Zenon DEF KeptInv, Wrote
  <2>1. Safe(f)
    BY <1>6
  <2>2. PICK b \in bak : /\ ed[f].try = <<b.name>> /\ ed[f].low <= b.at
                         /\ ed[f].backup # <<>> => b.data = ed[f].read
    BY <2>1 DEF KeptInv, Wrote
  <2>3. \A m \in v : ed[f].try # <<m>>
    <3> SUFFICES ASSUME NEW m \in v, ed[f].try = <<m>> PROVE FALSE
      OBVIOUS
    <3>1. PICK c \in w : c \in bak /\ m = c.name
      BY <1>3
    <3>2. c = b
      BY <2>2, <3>1 DEF BackupType
    <3>3. Keep <= Cardinality(Later(f))
      BY <2>2, <3>1, <3>2, OutdatedCount
    <3>4. Cardinality(Later(f)) < Keep /\ Cardinality(Later(f)) \in Nat
      BY <2>1, LaterType DEF Safe
    <3> QED BY <3>3, <3>4, LimitAssumption
  <2>4. \A g \in Editors : \A m \in ed[g].victims : ed[f].try # <<m>>
    BY <2>1 DEF KeptInv, Wrote
  <2>5. ASSUME NEW g \in Editors, NEW m \in ed'[g].victims PROVE ed'[f].try # <<m>>
    <3>1. CASE g = e
      BY <1>6, <2>3, <3>1
    <3>2. CASE g # e
      BY <1>6, <2>4, <3>2
    <3> QED BY <3>1, <3>2
  <2>6. ed'[f].try = <<b.name>> /\ ed'[f].low <= b.at /\ (ed'[f].backup # <<>> => b.data = ed'[f].read)
    BY <1>6, <2>2
  <2> QED BY <1>2, <2>5, <2>6
<1> QED BY <1>6, <1>7

\* Removing one that is on a list does not remove a safe one.
LEMMA PruneKeeps ==
    ASSUME BackupType, CallType, WritesInv, \A f \in Editors : KeptInv(f), NEW e \in Editors, Prune(e)
    PROVE  WritesInv' /\ \A f \in Editors : KeptInv(f)'
<1>0. PICK n \in ed[e].victims : bak' = Without(n) /\ \E x : Removing(e, x, "prune", ed[e].victims \ {n})
  BY PruneForm
<1>1. PICK x : Removing(e, x, "prune", ed[e].victims \ {n}) /\ bak' = Without(n)
  BY <1>0
<1>2. lost' = lost /\ bak' \subseteq bak
  BY <1>1 DEF Prune, Without
<1> DEFINE v == ed[e].victims \ {n}
<1>3. \A m \in v : m \in ed[e].victims
  OBVIOUS
<1>4. Removing(e, x, "prune", v)
  BY <1>1
<1> HIDE DEF v
<1>5. \A m \in v : \E f \in Editors : ed[f].try = <<m>>
  BY <1>3, WritesForms
<1>6. /\ \A f \in Editors : /\ ed'[f].try = ed[f].try /\ ed'[f].backup = ed[f].backup
                            /\ ed'[f].low = ed[f].low /\ ed'[f].high = ed[f].high
                            /\ ed'[f].read = ed[f].read
                            /\ ed'[f].victims = IF f = e THEN v ELSE ed[f].victims
      /\ WritesInv'
      /\ \A f \in Editors : Safe(f)' => Safe(f)
  BY <1>2, <1>4, <1>5, RemovingKeeps
<1>7. ASSUME NEW f \in Editors PROVE KeptInv(f)'
  <2> SUFFICES ASSUME Safe(f)'
               PROVE  /\ \E b \in bak' : /\ ed'[f].try = <<b.name>> /\ ed'[f].low <= b.at
                                         /\ ed'[f].backup # <<>> => b.data = ed'[f].read
                      /\ \A g \in Editors : \A m \in ed'[g].victims : ed'[f].try # <<m>>
    BY Zenon DEF KeptInv, Wrote
  <2>1. Safe(f)
    BY <1>6
  <2>2. PICK b \in bak : /\ ed[f].try = <<b.name>> /\ ed[f].low <= b.at
                         /\ ed[f].backup # <<>> => b.data = ed[f].read
    BY <2>1 DEF KeptInv, Wrote
  <2>3. \A g \in Editors : \A m \in ed[g].victims : ed[f].try # <<m>>
    BY <2>1 DEF KeptInv, Wrote
  <2>4. b.name # n
    BY <2>2, <2>3
  <2>5. b \in bak'
    BY <1>1, <2>4 DEF Without
  <2>6. ASSUME NEW g \in Editors, NEW m \in ed'[g].victims PROVE ed'[f].try # <<m>>
    <3>1. m \in ed[g].victims
      BY <1>3, <1>6
    <3> QED BY <1>6, <2>3, <3>1
  <2>7. ed'[f].try = <<b.name>> /\ ed'[f].low <= b.at /\ (ed'[f].backup # <<>> => b.data = ed'[f].read)
    BY <1>6, <2>2
  <2> QED BY <2>5, <2>6, <2>7
<1> QED BY <1>6, <1>7
-----------------------------------------------------------------------------
(* Edits *)

\* A step of e leaves every other inode alone, and its own once it is linked.
DirStep(e) ==
    /\ \A i \in Inodes : i # e \/ e \in linked => data'[i] = data[i]
    /\ \A i : i # e => /\ i \in synced' <=> i \in synced
                       /\ i \in linked' <=> i \in linked
                       /\ i \in temps' <=> i \in temps
    /\ linked \subseteq linked'
    /\ path' \in {path, e} /\ (path' = e \/ path' = path) /\ path' \in linked'

\* So it does not break what holds of the others.
LEMMA OthersKeep ==
    ASSUME CallType, NEW e \in Editors, NEW x, OneCall(e, x), DirStep(e),
           NEW f \in Editors, f # e, EditInv(f)
    PROVE  EditInv(f)'
<1>1. ed'[f] = ed[f]
  BY OneCallStep
<1>2. data'[f] = data[f]
  BY DEF DirStep, Inodes
<1>3. (f \in synced' <=> f \in synced) /\ (f \in linked' <=> f \in linked) /\ (f \in temps' <=> f \in temps)
  BY DEF DirStep
<1> QED BY <1>1, <1>2, <1>3 DEF EditInv

\* A step that touches only the call.
LEMMA CallOnly ==
    ASSUME UNCHANGED fileVars, PathInv, NEW e
    PROVE  DirStep(e)
  BY DEF fileVars, PathInv, DirStep

\* EditRead: a request that matches goes on.
LEMMA EditReadInv ==
    ASSUME DataType, CallType, NEW e \in Editors, EditRead(e), EditInv(e)
    PROVE  EditInv(e)'
<1>1. PICK x : /\ OneCall(e, x) /\ SameBackup(x, ed[e])
               /\ \/ /\ x.pc = "backup" /\ x.told = None /\ x.err = "ok"
                     /\ x.req \in EditRequests /\ Matches(x.req, x.read)
                  \/ x.pc = "done" /\ x.told # "ok"
  BY EditReadForm
<1>2. ed'[e] = x
  BY <1>1, OneCallStep
<1>3. x.try = <<>> /\ e \notin synced /\ e \notin linked /\ e \notin temps
  BY <1>1 DEF EditRead, EditInv, SameBackup
<1>4. synced' = synced /\ linked' = linked /\ temps' = temps
  BY DEF EditRead, fileVars
<1>5. CASE x.pc = "backup"
  <2>1. /\ ed'[e].pc = "backup" /\ ed'[e].told = None /\ ed'[e].err = "ok" /\ ed'[e].try = <<>>
        /\ ed'[e].req \in EditRequests /\ Matches(ed'[e].req, ed'[e].read) /\ e \notin linked'
    BY <1>1, <1>2, <1>3, <1>4, <1>5
  <2> QED BY <2>1 DEF EditInv, None
<1>6. CASE x.pc = "done"
  BY <1>1, <1>2, <1>3, <1>4, <1>6 DEF EditInv, Active
<1> QED BY <1>1, <1>5, <1>6

\* What EditInv says of a call that has matched.
LEMMA ActiveForms ==
    ASSUME NEW e, EditInv(e), ed[e].pc \in Active
    PROVE  /\ ed[e].req \in EditRequests /\ Matches(ed[e].req, ed[e].read)
           /\ ed[e].told = None /\ ed[e].err = "ok"
  BY DEF EditInv, Active

\* Steps of an edit before its rename that leave its temporary file alone.
LEMMA EarlyInv ==
    ASSUME CallType, NEW e \in Editors, EditInv(e), ed[e].pc \in {"backup", "fill"},
           NEW x, OneCall(e, x), x.pc \in {"fill", "tmp"}, x.pc = "fill" => x.try # <<>>,
           x.req = ed[e].req, x.read = ed[e].read, x.told = ed[e].told, x.err = ed[e].err,
           linked' = linked
    PROVE  EditInv(e)'
<1>1. ed'[e] = x
  BY OneCallStep
<1>2. e \notin linked /\ ed[e].pc \in Active
  BY DEF EditInv, Active
<1>3. x.req \in EditRequests /\ Matches(x.req, x.read) /\ x.told = None /\ x.err = "ok"
  BY <1>2, ActiveForms
<1> QED BY <1>1, <1>2, <1>3 DEF EditInv, Active

\* The temporary file is written and flushed, then renamed.
LEMMA WriteTempInv ==
    ASSUME DataType, CallType, NEW e \in Editors, WriteTemp(e), EditInv(e)
    PROVE  EditInv(e)' /\ \E x : Goes(e, x, "rename")
<1>1. PICK x : Goes(e, x, "rename") /\ x.told = ed[e].told /\ x.err = ed[e].err
  BY GoesForm DEF WriteTemp, Active
<1>2. ed'[e] = x
  BY <1>1, OneCallStep DEF Goes
<1>3. e \notin linked /\ ed[e].pc \in Active
  BY DEF EditInv, Active, WriteTemp
<1>4. x.req \in EditRequests /\ Matches(x.req, x.read) /\ x.told = None /\ x.err = "ok"
      /\ x.req = ed[e].req /\ x.read = ed[e].read /\ x.pc = "rename"
  BY <1>1, <1>3, ActiveForms DEF Goes
<1>5. data'[e] = Apply(x.req, x.read) /\ e \in temps' /\ e \in synced' /\ e \notin linked'
  BY <1>3, <1>4 DEF WriteTemp, DataType, Inodes
<1>6. EditInv(e)'
  <2>1. /\ ed'[e].pc = "rename" /\ ed'[e].told = None /\ ed'[e].err = "ok"
        /\ ed'[e].req \in EditRequests /\ Matches(ed'[e].req, ed'[e].read)
        /\ data'[e] = Apply(ed'[e].req, ed'[e].read)
    BY <1>2, <1>4, <1>5
  <2> QED BY <1>5, <2>1 DEF EditInv, None
<1> QED BY <1>1, <1>6

LEMMA InstallInv ==
    ASSUME DataType, CallType, NEW e \in Editors, Install(e), EditInv(e)
    PROVE  EditInv(e)' /\ \E x : Goes(e, x, "glob")
<1>1. PICK x : Goes(e, x, "glob") /\ x.told = ed[e].told /\ x.err = ed[e].err
  BY GoesForm DEF Install, Active
<1>2. ed'[e] = x
  BY <1>1, OneCallStep DEF Goes
<1>3. ed[e].pc \in Active /\ e \in synced /\ data[e] = Apply(ed[e].req, ed[e].read)
  BY DEF EditInv, Active, Install
<1>4. x.req \in EditRequests /\ Matches(x.req, x.read) /\ x.told = None /\ x.err = "ok"
      /\ x.req = ed[e].req /\ x.read = ed[e].read /\ x.pc = "glob"
  BY <1>1, <1>3, ActiveForms DEF Goes
<1>5. data'[e] = Apply(x.req, x.read) /\ e \in synced' /\ e \in linked' /\ e \notin temps'
  BY <1>3, <1>4 DEF Install
<1>6. EditInv(e)'
  BY <1>2, <1>4, <1>5 DEF EditInv, Active
<1> QED BY <1>1, <1>6

\* A call that ends says nothing or what is true.
LEMMA EndInv ==
    ASSUME CallType, NEW e \in Editors, EditCancelled(e) \/ EditFails(e) \/ EditDone(e), EditInv(e)
    PROVE  EditInv(e)' /\ \E x : Goes(e, x, "done")
<1>1. PICK x : /\ Goes(e, x, "done")
               /\ EditCancelled(e) => x.told = None
               /\ EditFails(e) => x.told \in {None, "write_failed"}
               /\ EditDone(e) => x.told \in {None, "ok"}
  BY EndForm
<1>2. ed'[e] = x /\ x.pc = "done" /\ x.req = ed[e].req /\ x.read = ed[e].read
  BY <1>1, OneCallStep DEF Goes
<1>3. CASE EditCancelled(e)
  <2>1. e \notin linked /\ linked' = linked /\ x.told = None
    BY <1>1, <1>3 DEF EditCancelled, EditInv, fileVars
  <2> QED BY <1>1, <1>2, <2>1 DEF EditInv, Active, None
<1>4. CASE EditFails(e)
  <2>1. e \notin linked /\ linked' = linked /\ temps' = temps \ {e} /\ x.told # "ok"
    BY <1>1, <1>4 DEF EditFails, EditInv, None
  <2> QED BY <1>1, <1>2, <2>1 DEF EditInv, Active
<1>5. CASE EditDone(e)
  <2>1. e \in linked /\ e \notin temps /\ data' = data /\ linked' = linked /\ temps' = temps /\ synced' = synced
    BY <1>5 DEF EditDone, EditInv, fileVars
  <2>2. e \in synced /\ data[e] = Apply(ed[e].req, ed[e].read) /\ Matches(ed[e].req, ed[e].read)
    BY <2>1 DEF EditInv
  <2> QED BY <1>1, <1>2, <1>5, <2>1, <2>2 DEF EditInv, Active, None
<1> QED BY <1>1, <1>3, <1>4, <1>5

\* Listing and pruning come after the rename.
LEMMA LateInv ==
    ASSUME CallType, NEW e \in Editors, EditInv(e), ed[e].pc \in {"glob", "prune"},
           NEW x, NEW v, Removing(e, x, "prune", v), UNCHANGED fileVars
    PROVE  EditInv(e)'
<1>1. ed'[e] = x
  BY OneCallStep DEF Removing
<1>2. /\ e \in linked /\ e \notin temps /\ e \in synced /\ data[e] = Apply(ed[e].req, ed[e].read)
      /\ ed[e].pc \in Active
  BY DEF EditInv, Active
<1>3. x.req \in EditRequests /\ Matches(x.req, x.read) /\ x.told = None /\ x.err = "ok"
      /\ x.req = ed[e].req /\ x.read = ed[e].read /\ x.pc = "prune"
  BY <1>2, ActiveForms DEF Removing
<1>4. data' = data /\ synced' = synced /\ linked' = linked /\ temps' = temps
  BY DEF fileVars
<1> QED BY <1>1, <1>2, <1>3, <1>4 DEF EditInv, Active

\* A step of an edit changes its call, to one of the right type.
LEMMA OneCallType ==
    ASSUME CallType, NEW e \in Editors, NEW x, OneCall(e, x), Len(x.try) <= 1, Len(x.backup) <= 1, rd' = rd
    PROVE  CallType'
<1>1. ed'[e] = x /\ (\A f \in Editors \ {e} : ed'[f] = ed[f]) /\ ed' \in [Editors -> EditCall]
  BY OneCallStep
<1>2. ASSUME NEW f \in Editors PROVE Len(ed'[f].backup) <= 1 /\ Len(ed'[f].try) <= 1
  <2>1. CASE f = e
    BY <1>1, <2>1
  <2>2. CASE f # e
    <3>1. ed'[f] = ed[f]
      BY <1>1, <2>2
    <3> QED BY <3>1 DEF CallType
  <2> QED BY <2>1, <2>2
<1> QED BY <1>1, <1>2 DEF CallType

\* The same, of a step that leaves the backup's names alone.
LEMMA SameCallType ==
    ASSUME CallType, NEW e \in Editors, NEW x, OneCall(e, x),
           x.try \in {ed[e].try, ed[e].backup}, x.backup \in {ed[e].try, ed[e].backup}, rd' = rd
    PROVE  CallType'
<1>1. Len(ed[e].try) <= 1 /\ Len(ed[e].backup) <= 1
  BY DEF CallType
<1>2. Len(x.try) <= 1 /\ Len(x.backup) <= 1
  BY <1>1
<1> QED BY <1>2, OneCallType

LEMMA EditCalls ==
    ASSUME DataType, BackupType, CallType, WritesInv, NEW e \in Editors, EditInv(e), Edit(e)
    PROVE  CallType' /\ \E x : OneCall(e, x)
<1>0. rd' = rd
  BY DEF Edit, EditRead, EditCancelled, BackupOpen, BackupFill, BackupFails, WriteTemp, Install,
         EditFails, Glob, Prune, EditDone
<1>1. CASE EditRead(e)
  <2>1. PICK x : OneCall(e, x) /\ SameBackup(x, ed[e])
    BY <1>1, EditReadForm
  <2> QED BY <1>0, <2>1, SameCallType DEF SameBackup
<1>2. CASE EditCancelled(e) \/ EditFails(e) \/ EditDone(e)
  <2>1. PICK x : OneCall(e, x) /\ SameBackup(x, ed[e])
    BY <1>2, EndForm DEF Goes
  <2> QED BY <1>0, <2>1, SameCallType DEF SameBackup
<1>3. CASE BackupOpen(e)
  <2>0. PICK stamp \in Stamps :
          \E x : OneCall(e, x) /\ x.try = <<Name(stamp, ed[e].read)>> /\ x.backup = ed[e].backup
    BY <1>3, OpenForm
  <2>1. PICK x : OneCall(e, x) /\ x.try = <<Name(stamp, ed[e].read)>> /\ x.backup = ed[e].backup
    BY <2>0
  <2>2. Len(x.try) <= 1
    BY <2>1
  <2>3. Len(x.backup) <= 1
    BY <2>1 DEF CallType
  <2> QED BY <1>0, <2>1, <2>2, <2>3, OneCallType
<1>4. CASE BackupFill(e)
  <2>1. PICK x : OneCall(e, x) /\ x.try = ed[e].try /\ x.backup \in {<<>>, ed[e].try}
    BY <1>4, FillForm
  <2>2. Len(x.try) <= 1 /\ Len(x.backup) <= 1
    BY <2>1 DEF CallType
  <2> QED BY <1>0, <2>1, <2>2, OneCallType
<1>5. ASSUME NEW p \in Active, ed' = [ed EXCEPT ![e].pc = p] PROVE CallType' /\ \E x : OneCall(e, x)
  <2>1. PICK x : OneCall(e, x) /\ SameBackup(x, ed[e])
    BY <1>5, GoesForm DEF Goes
  <2> QED BY <1>0, <2>1, SameCallType DEF SameBackup
<1>7. CASE BackupFails(e) \/ WriteTemp(e) \/ Install(e)
  <2>1. \E p \in Active : ed' = [ed EXCEPT ![e].pc = p]
    BY <1>7 DEF BackupFails, WriteTemp, Install, Active
  <2> QED BY <1>5, <2>1
<1>8. CASE Glob(e)
  <2>0. PICK w \in Outdated : \E x : Removing(e, x, "prune", {b.name : b \in w})
    BY <1>8, GlobForm
  <2>1. PICK x : Removing(e, x, "prune", {b.name : b \in w})
    BY <2>0
  <2> QED BY <1>0, <2>1, SameCallType DEF Removing
<1>9. CASE Prune(e)
  <2>0. PICK n \in ed[e].victims : \E x : Removing(e, x, "prune", ed[e].victims \ {n})
    BY <1>9, PruneForm
  <2>1. PICK x : Removing(e, x, "prune", ed[e].victims \ {n})
    BY <2>0
  <2> QED BY <1>0, <2>1, SameCallType DEF Removing
<1> QED BY <1>1, <1>2, <1>3, <1>4, <1>7, <1>8, <1>9 DEF Edit

\* What an edit does to the directory.
LEMMA EditDirs ==
    ASSUME DataType, CallType, PathInv, NEW e \in Editors, EditInv(e), Edit(e)
    PROVE  DirStep(e)
<1>1. CASE UNCHANGED fileVars
  BY <1>1, CallOnly
<1>2. CASE WriteTemp(e)
  <2>1. e \notin linked
    BY <1>2 DEF WriteTemp, EditInv
  <2> QED BY <1>2, <2>1 DEF WriteTemp, DirStep, DataType, PathInv
<1>3. CASE Install(e)
  <2>1. e \notin linked
    BY <1>3 DEF Install, EditInv
  <2> QED BY <1>3, <2>1 DEF Install, DirStep, PathInv
<1>4. CASE EditFails(e)
  <2>1. e \notin linked
    BY <1>4 DEF EditFails, EditInv
  <2> QED BY <1>4, <2>1 DEF EditFails, DirStep, DataType, PathInv
<1> QED BY <1>1, <1>2, <1>3, <1>4 DEF Edit, EditRead, EditCancelled, BackupOpen, BackupFill, BackupFails,
         Glob, Prune, EditDone

LEMMA EditTypes ==
    ASSUME DataType, CallType, NEW e \in Editors, EditInv(e), Edit(e)
    PROVE  DataType'
<1>1. e \in Inodes
  BY DEF Inodes
<1>2. CASE WriteTemp(e)
  <2>1. ed[e] \in EditCall /\ ed[e].req \in EditRequests
    BY <1>2 DEF WriteTemp, EditInv, Active, CallType
  <2>2. Apply(ed[e].req, ed[e].read) \in Seq(Tokens)
    BY <2>1, CallForms, ApplyType
  <2>3. data' \in [Inodes -> Seq(Tokens)]
    BY <1>2, <2>2 DEF WriteTemp, DataType
  <2> QED BY <1>1, <1>2, <2>3 DEF WriteTemp, DataType
<1>3. CASE Install(e)
  BY <1>1, <1>3 DEF Install, DataType
<1>4. CASE EditFails(e)
  BY <1>1, <1>4 DEF EditFails, DataType
<1>5. CASE BackupOpen(e) \/ BackupFill(e)
  BY <1>5 DEF BackupOpen, BackupFill, DataType, fileVars
<1>6. CASE Prune(e)
  BY <1>6 DEF Prune, DataType, fileVars
<1>7. CASE UNCHANGED <<fileVars, bak, lost, cut>>
  BY <1>7 DEF DataType, fileVars
<1> QED BY <1>2, <1>3, <1>4, <1>5, <1>6, <1>7 DEF Edit, EditRead, EditCancelled, BackupFails, Glob, EditDone

\* A backup that is written replaces the one of its name.
LEMMA WrittenType ==
    ASSUME BackupType, NEW n \in Names, NEW s \in Seq(Tokens), NEW at \in Times, bak' = Written(n, s, at)
    PROVE  BackupType'
<1>1. Backup(n, s, at) \in [name : Names, data : Seq(Tokens), at : Times] /\ Backup(n, s, at).name = n
  BY DEF Backup
<1>2. bak' \subseteq [name : Names, data : Seq(Tokens), at : Times]
  BY <1>1 DEF BackupType, Written, Without
<1>3. \A b, c \in bak' : b.name = c.name => b = c
  BY <1>1 DEF BackupType, Written, Without
<1> QED BY <1>2, <1>3 DEF BackupType

LEMMA EditBackups ==
    ASSUME DataType, BackupType, CallType, WritesInv, NEW e \in Editors, EditInv(e), Edit(e)
    PROVE  BackupType'
<1>1. ed[e].read \in Seq(Tokens) /\ <<>> \in Seq(Tokens) /\ ed[e].try \in Seq(Names)
  BY CallForms DEF CallType
<1>2. CASE bak' \subseteq bak
  BY <1>2 DEF BackupType
<1>3. CASE BackupOpen(e)
  <2>1. PICK stamp \in Stamps, at \in Times : bak' = Written(Name(stamp, ed[e].read), <<>>, at)
    BY <1>3 DEF BackupOpen
  <2>2. Name(stamp, ed[e].read) \in Names
    BY <1>1, NameType
  <2> QED BY <1>1, <2>1, <2>2, WrittenType
<1>4. CASE BackupFill(e)
  <2>1. ed[e].try # <<>>
    BY <1>4 DEF BackupFill, EditInv
  <2>2. ed[e].try[1] \in Names
    <3>1. \A q \in Seq(Names) : q # <<>> => q[1] \in Names
      OBVIOUS
    <3> QED BY <1>1, <2>1, <3>1
  <2>3. PICK at \in Times, s \in {<<>>, ed[e].read} :
          bak' = IF Without(ed[e].try[1]) = bak THEN bak ELSE Written(ed[e].try[1], s, at)
    BY <1>4, FillForm
  <2>4. CASE bak' = Written(ed[e].try[1], s, at)
    BY <1>1, <2>2, <2>4, WrittenType
  <2> QED BY <1>2, <2>3, <2>4
<1>5. CASE Prune(e)
  <2>1. bak' \subseteq bak
    BY <1>5 DEF Prune, Without
  <2> QED BY <1>2, <2>1
<1> QED BY <1>2, <1>3, <1>4, <1>5 DEF Edit, EditRead, EditCancelled, BackupFails, WriteTemp, Install,
         EditFails, Glob, EditDone

\* A step that does not touch the backups.
LEMMA QuietStep ==
    ASSUME CallType, NEW e \in Editors, NEW x, OneCall(e, x), SameBackup(x, ed[e]),
           ed[e].try # <<>> => x.read = ed[e].read, bak' = bak, lost' = lost
    PROVE  Quiet
<1>1. ed'[e] = x /\ \A f \in Editors \ {e} : ed'[f] = ed[f]
  BY OneCallStep
<1>2. ASSUME NEW f \in Editors
      PROVE  /\ SameBackup(ed'[f], ed[f])
             /\ ed[f].try # <<>> => ed'[f].read = ed[f].read
  <2>1. CASE f = e
    BY <1>1, <2>1
  <2>2. CASE f # e
    <3>1. ed'[f] = ed[f]
      BY <1>1, <2>2
    <3> QED BY <3>1 DEF SameBackup
  <2> QED BY <2>1, <2>2
<1> QED BY <1>2 DEF Quiet

LEMMA EditKeepsBackups ==
    ASSUME DataType, BackupType, CallType, WritesInv, \A f \in Editors : KeptInv(f),
           NEW e \in Editors, EditInv(e), Edit(e)
    PROVE  WritesInv' /\ \A f \in Editors : KeptInv(f)'
<1>0. CallType'
  BY EditCalls
<1>1. CASE EditRead(e)
  <2>1. PICK x : OneCall(e, x) /\ SameBackup(x, ed[e])
    BY <1>1, EditReadForm
  <2>2. ed[e].try = <<>> /\ bak' = bak /\ lost' = lost
    BY <1>1 DEF EditRead, EditInv
  <2>3. Quiet
    BY <2>1, <2>2, QuietStep
  <2> QED BY <2>3, QuietKeeps
<1>2. ASSUME NEW x, NEW p, Goes(e, x, p), bak' = bak, lost' = lost
      PROVE  WritesInv' /\ \A f \in Editors : KeptInv(f)'
  <2>1. Quiet
    BY <1>2, QuietStep DEF Goes
  <2> QED BY <2>1, QuietKeeps
<1>3. CASE EditCancelled(e) \/ EditFails(e) \/ EditDone(e)
  <2>1. PICK x : Goes(e, x, "done")
    BY <1>3, EndForm
  <2>2. bak' = bak /\ lost' = lost
    BY <1>3 DEF EditCancelled, EditFails, EditDone
  <2> QED BY <1>2, <2>1, <2>2
<1>4. CASE BackupOpen(e)
  BY <1>0, <1>4, OpenKeeps
<1>5. ASSUME NEW p \in Active, ed' = [ed EXCEPT ![e].pc = p],
             bak' = bak, lost' = lost
      PROVE  WritesInv' /\ \A f \in Editors : KeptInv(f)'
  <2>1. PICK x : Goes(e, x, p)
    BY <1>5, GoesForm
  <2> QED BY <1>2, <1>5, <2>1
<1>6. CASE BackupFill(e)
  BY <1>0, <1>6, FillKeeps
<1>7. CASE BackupFails(e) \/ WriteTemp(e) \/ Install(e)
  <2>1. \E p \in Active : ed' = [ed EXCEPT ![e].pc = p]
    BY <1>7 DEF BackupFails, WriteTemp, Install, Active
  <2>2. bak' = bak /\ lost' = lost
    BY <1>7 DEF BackupFails, WriteTemp, Install
  <2> QED BY <1>5, <2>1, <2>2
<1>8. CASE Glob(e)
  BY <1>8, GlobKeeps
<1>9. CASE Prune(e)
  BY <1>9, PruneKeeps
<1> QED BY <1>1, <1>3, <1>4, <1>6, <1>7, <1>8, <1>9 DEF Edit

\* Each step of an edit is at its place in it.
LEMMA EditKeepsInv ==
    ASSUME DataType, BackupType, CallType, WritesInv, NEW e \in Editors, EditInv(e), Edit(e)
    PROVE  EditInv(e)'
<1>1. CASE EditRead(e)
  BY <1>1, EditReadInv
<1>2. CASE EditCancelled(e) \/ EditFails(e) \/ EditDone(e)
  BY <1>2, EndInv
<1>3. CASE BackupOpen(e)
  <2>0. PICK stamp \in Stamps :
          \E x : /\ OneCall(e, x) /\ x.pc = "fill" /\ x.try = <<Name(stamp, ed[e].read)>>
                /\ x.req = ed[e].req /\ x.read = ed[e].read
                /\ x.told = ed[e].told /\ x.err = ed[e].err
    BY <1>3, OpenForm
  <2>1. PICK x : /\ OneCall(e, x) /\ x.pc = "fill" /\ x.try = <<Name(stamp, ed[e].read)>>
                 /\ x.req = ed[e].req /\ x.read = ed[e].read
                 /\ x.told = ed[e].told /\ x.err = ed[e].err
    BY <2>0
  <2>2. x.try # <<>> /\ ed[e].pc = "backup" /\ linked' = linked
    BY <1>3, <2>1 DEF BackupOpen, fileVars
  <2> QED BY <2>1, <2>2, EarlyInv
<1>4. CASE BackupFill(e)
  <2>1. ed[e].pc = "fill" /\ linked' = linked
    BY <1>4 DEF BackupFill, fileVars
  <2>2. PICK x : /\ OneCall(e, x) /\ x.pc = "tmp"
                 /\ x.req = ed[e].req /\ x.read = ed[e].read
                 /\ x.told = ed[e].told /\ x.err = ed[e].err
    BY <1>4, FillForm
  <2> QED BY <2>1, <2>2, EarlyInv
<1>5. CASE BackupFails(e)
  <2>1. ed[e].pc = "backup" /\ linked' = linked /\ ed' = [ed EXCEPT ![e].pc = "tmp"]
    BY <1>5 DEF BackupFails, fileVars
  <2>2. PICK x : Goes(e, x, "tmp") /\ x.told = ed[e].told /\ x.err = ed[e].err
    BY <2>1, GoesForm DEF Active
  <2> QED BY <2>1, <2>2, EarlyInv DEF Goes
<1>6. CASE WriteTemp(e)
  BY <1>6, WriteTempInv
<1>7. CASE Install(e)
  BY <1>7, InstallInv
<1>8. CASE Glob(e)
  <2>0. PICK w \in Outdated : \E x : Removing(e, x, "prune", {b.name : b \in w})
    BY <1>8, GlobForm
  <2>1. PICK x : Removing(e, x, "prune", {b.name : b \in w})
    BY <2>0
  <2>2. ed[e].pc \in {"glob", "prune"} /\ UNCHANGED fileVars
    BY <1>8 DEF Glob
  <2> QED BY <2>1, <2>2, LateInv
<1>9. CASE Prune(e)
  <2>0. PICK n \in ed[e].victims : \E x : Removing(e, x, "prune", ed[e].victims \ {n})
    BY <1>9, PruneForm
  <2>1. PICK x : Removing(e, x, "prune", ed[e].victims \ {n})
    BY <2>0
  <2>2. ed[e].pc \in {"glob", "prune"} /\ UNCHANGED fileVars
    BY <1>9 DEF Prune
  <2> QED BY <2>1, <2>2, LateInv
<1> QED BY <1>1, <1>2, <1>3, <1>4, <1>5, <1>6, <1>7, <1>8, <1>9 DEF Edit

\* The reads do not notice: what they have open is not written any more.
LEMMA EditLeavesReads ==
    ASSUME DataType, CallType, NEW e \in Editors, DirStep(e), rd' = rd,
           \A r \in Readers : ReadInv(r), ReadIsSnapshot
    PROVE  ReadIsSnapshot' /\ \A r \in Readers : ReadInv(r)'
<1>1. ReadIsSnapshot'
  BY DEF ReadIsSnapshot
<1>2. ASSUME NEW r \in Readers PROVE ReadInv(r)'
  <2>1. CASE rd[r].pc = "loop"
    <3>1. rd[r].inode \in linked \ {None} /\ rd[r].base = data[rd[r].inode]
      BY <2>1 DEF ReadInv
    <3>2. rd[r].inode \in linked' \ {None} /\ data'[rd[r].inode] = data[rd[r].inode]
      <4>1. rd[r].inode \in Inodes
        BY <3>1 DEF DataType
      <4> QED BY <3>1, <4>1 DEF DirStep
    <3> QED BY <2>1, <3>1, <3>2 DEF ReadInv
  <2>2. CASE rd[r].pc # "loop"
    BY <2>2 DEF ReadInv
  <2> QED BY <2>1, <2>2
<1> QED BY <1>1, <1>2

\* The invariant, part by part, makes the type.
LEMMA TypeAgain ==
    ASSUME DataType', BackupType', CallType', \A f \in Editors : EditInv(f)'
    PROVE  FilesTypeOK'
<1>1. \A f \in Editors : ed'[f].pc = "rename" => f \in temps'
  BY DEF EditInv
<1> QED BY <1>1, TypeParts

\* Every step of an edit keeps the invariant.
LEMMA EditStep ==
    ASSUME FilesInv, NEW e \in Editors, Edit(e)
    PROVE  FilesInv'
<1>1. /\ DataType /\ BackupType /\ CallType /\ PathInv /\ WritesInv /\ ReadIsSnapshot
      /\ \A f \in Editors : EditInv(f) /\ KeptInv(f)
      /\ \A r \in Readers : ReadInv(r)
  BY TypeParts DEF FilesInv
<1>2. PICK x : OneCall(e, x)
  BY <1>1, EditCalls
<1>3. CallType' /\ DataType' /\ BackupType' /\ DirStep(e)
  BY <1>1, EditCalls, EditTypes, EditBackups, EditDirs
<1>4. WritesInv' /\ \A f \in Editors : KeptInv(f)'
  BY <1>1, EditKeepsBackups
<1>5. ASSUME NEW f \in Editors PROVE EditInv(f)'
  <2>1. CASE f = e
    BY <1>1, <2>1, EditKeepsInv
  <2>2. CASE f # e
    BY <1>1, <1>2, <1>3, <2>2, OthersKeep
  <2> QED BY <2>1, <2>2
<1>6. rd' = rd
  BY DEF Edit, EditRead, EditCancelled, BackupOpen, BackupFill, BackupFails, WriteTemp, Install,
         EditFails, Glob, Prune, EditDone
<1>7. ReadIsSnapshot' /\ \A r \in Readers : ReadInv(r)'
  BY <1>1, <1>3, <1>6, EditLeavesReads
<1>8. PathInv'
  <2>1. "orig" \in Inodes /\ "orig" # e
    BY CallAssumption DEF Inodes
  <2>2. data'["orig"] = data["orig"] /\ "orig" \in synced' /\ path' \in linked'
    BY <1>1, <1>3, <2>1 DEF DirStep, PathInv
  <2> QED BY <1>1, <2>2 DEF PathInv
<1>9. FilesTypeOK'
  BY <1>3, <1>5, TypeAgain
<1> QED BY <1>4, <1>5, <1>7, <1>8, <1>9 DEF FilesInv
-----------------------------------------------------------------------------
(* Reads *)

\* How much of s is left after the first n, and after a limit, if there is one.
Rest(s, n) == IF n < Len(s) THEN Len(s) - n ELSE 0
Extent(req, s) == IF req.limit > 0 THEN Least(req.limit, Rest(s, req.offset)) ELSE Rest(s, req.offset)

\* The window is the part of s of that length that begins at the offset.
LEMMA WindowForm ==
    ASSUME NEW req \in ReadRequests, NEW s \in Seq(Tokens)
    PROVE  /\ Len(Window(req, s)) = Extent(req, s) /\ Extent(req, s) \in Nat
           /\ Window(req, s) = SubSeq(s, req.offset + 1, req.offset + Extent(req, s))
<1> DEFINE o == req.offset
           l == req.limit
           from == SubSeq(s, o + 1, Len(s))
<1>1. o \in Nat /\ l \in Nat /\ Len(s) \in Nat
  BY CallAssumption
<1>2. Window(req, s) = IF l > 0 THEN SubSeq(from, 1, Least(l, Len(from))) ELSE from
  BY DEF Window
<1>3. Extent(req, s) = IF l > 0 THEN Least(l, Rest(s, o)) ELSE Rest(s, o)
  BY DEF Extent
<1> HIDE DEF o, l
<1>4. CASE o >= Len(s)
  <2>1. from = <<>>
    BY <1>1, <1>4, SubSeqEmpty
  <2>2. Rest(s, o) = 0
    BY <1>1, <1>4 DEF Rest
  <2>3. Extent(req, s) = 0
    BY <1>1, <1>3, <2>2 DEF Least
  <2>0. Len(<<>>) = 0
    OBVIOUS
  <2>4. Len(from) = 0
    BY <2>0, <2>1, Zenon
  <2>5. Window(req, s) = <<>>
    <3>1. CASE l > 0
      <4>1. Least(l, Len(from)) = 0
        BY <1>1, <2>4, <3>1 DEF Least
      <4>2. SubSeq(from, 1, 0) = <<>>
        BY SubSeqEmpty
      <4> QED BY <1>2, <3>1, <4>1, <4>2
    <3>2. CASE ~(l > 0)
      BY <1>2, <2>1, <3>2
    <3> QED BY <3>1, <3>2
  <2>6. SubSeq(s, o + 1, o + 0) = <<>>
    BY <1>1, SubSeqEmpty
  <2>7. Window(req, s) = SubSeq(s, o + 1, o + Extent(req, s))
    BY <2>3, <2>5, <2>6, Zenon
  <2>8. Len(Window(req, s)) = Extent(req, s)
    BY <2>0, <2>3, <2>5, Zenon
  <2>9. Extent(req, s) \in Nat
    BY <2>3
  <2> QED BY <2>7, <2>8, <2>9, Zenon DEF o
<1>5. CASE o < Len(s)
  <2>1. Rest(s, o) = Len(s) - o /\ Len(s) - o \in Nat \ {0}
    BY <1>1, <1>5 DEF Rest
  <2>2. from \in Seq(Tokens) /\ Len(from) = Len(s) - o
    <3>1. \A i \in o + 1 .. Len(s) : s[i] \in Tokens
      BY <1>1
    <3> QED BY <1>1, <1>5, <3>1, SubSeqProperties
  <2>3. CASE l > 0
    <3> DEFINE k == Least(l, Len(s) - o)
    <3>1. k \in 1 .. Len(s) - o /\ Extent(req, s) = k
      BY <1>1, <1>3, <2>1, <2>3 DEF Least
    <3>2. Window(req, s) = SubSeq(from, 1, k)
      BY <1>2, <2>2, <2>3
    <3> HIDE DEF k
    <3>3. SubSeq(from, 1, k) = SubSeq(s, o + 1, o + k)
      <4>1. o + 1 \in 1 .. Len(s) /\ Len(s) \in 1 .. Len(s) /\ 1 \in 1 .. Len(s) - (o + 1) + 1
            /\ k \in 1 .. Len(s) - (o + 1) + 1
        BY <1>1, <1>5, <3>1
      <4>2. SubSeq(SubSeq(s, o + 1, Len(s)), 1, k) = SubSeq(s, (o + 1) + 1 - 1, (o + 1) + k - 1)
        BY <4>1, SubSeqOfSubSeq
      <4>3. (o + 1) + 1 - 1 = o + 1 /\ (o + 1) + k - 1 = o + k
        BY <1>1, <3>1
      <4> QED BY <4>2, <4>3
    <3>4. Len(SubSeq(s, o + 1, o + k)) = k
      <4>1. \A i \in o + 1 .. o + k : s[i] \in Tokens
        BY <1>1, <3>1
      <4> QED BY <1>1, <3>1, <4>1, SubSeqProperties
    <3>5. Window(req, s) = SubSeq(s, o + 1, o + Extent(req, s))
      BY <3>1, <3>2, <3>3, Zenon
    <3>6. Len(Window(req, s)) = Extent(req, s)
      BY <3>1, <3>2, <3>3, <3>4, Zenon
    <3> QED BY <1>1, <3>1, <3>5, <3>6 DEF o
  <2>4. CASE ~(l > 0)
    <3>1. Extent(req, s) = Len(s) - o /\ Window(req, s) = from
      BY <1>2, <1>3, <2>1, <2>4
    <3>2. o + (Len(s) - o) = Len(s)
      BY <1>1
    <3> QED BY <2>1, <2>2, <3>1, <3>2 DEF o
  <2> QED BY <2>3, <2>4
<1> QED BY <1>1, <1>4, <1>5

\* What a read has sent after another chunk.
LEMMA ChunkForm ==
    ASSUME NEW s \in Seq(Tokens), NEW o \in Nat, NEW p \in Nat, NEW n \in Nat, o <= p, p + n <= Len(s)
    PROVE  /\ SubSeq(s, o + 1, p) \o SubSeq(s, p + 1, p + n) = SubSeq(s, o + 1, p + n)
           /\ SubSeq(s, o + 1, p + n) \in Seq(Tokens) /\ Len(SubSeq(s, o + 1, p + n)) = p + n - o
<1>1. o + 1 \in 1 .. Len(s) + 1 /\ p \in (o + 1) - 1 .. Len(s) /\ p + n \in p .. Len(s)
  OBVIOUS
<1>2. SubSeq(s, o + 1, p) \o SubSeq(s, p + 1, p + n) = SubSeq(s, o + 1, p + n)
  BY <1>1, ConcatAdjacentSubSeq
<1>3. \A i \in o + 1 .. p + n : s[i] \in Tokens
  OBVIOUS
<1>4. /\ SubSeq(s, o + 1, p + n) \in Seq(Tokens)
      /\ Len(SubSeq(s, o + 1, p + n)) = IF o + 1 <= p + n THEN p + n - (o + 1) + 1 ELSE 0
  BY <1>3, SubSeqProperties
<1> QED BY <1>2, <1>4

\* A step of one read changes its call only.
OneRead(r, x) == x \in ReadCall /\ rd' = [rd EXCEPT ![r] = x]
LEMMA OneReadStep ==
    ASSUME CallType, NEW r \in Readers, NEW x, OneRead(r, x)
    PROVE  /\ rd'[r] = x /\ \A q \in Readers \ {r} : rd'[q] = rd[q]
           /\ rd' \in [Readers -> ReadCall]
  BY DEF CallType, OneRead

LEMMA ReadAnswerForm ==
    ASSUME NEW r \in Readers, NEW x \in ReadCall, NEW err \in Errs, ReadAnswer(r, x, err)
    PROVE  \E y : /\ OneRead(r, y) /\ y.pc = "done" /\ y.req = x.req /\ y.base = x.base /\ y.got = x.got
                  /\ y.told = IF r \in cut THEN None ELSE err
<1> DEFINE y == [x EXCEPT !.pc = "done", !.told = IF r \in cut THEN None ELSE err]
<1>1. y \in ReadCall
  BY DEF ReadCall
<1>2. /\ y.pc = "done" /\ y.req = x.req /\ y.base = x.base /\ y.got = x.got
      /\ y.told = IF r \in cut THEN None ELSE err
  BY DEF ReadCall
<1>3. rd' = [rd EXCEPT ![r] = y]
  BY DEF ReadAnswer
<1> HIDE DEF y
<1> QED BY <1>1, <1>2, <1>3 DEF OneRead

\* What the invariant says of one read, as a state predicate of its call.
Snapshot(x) ==
    /\ x.told = "ok" => x.got = Window(x.req, x.base)
    /\ x.told = "exceeds_max_size" => Len(Window(x.req, x.base)) > HardCap(x.req)

\* The numbers of a read under way.
LEMMA LoopForm ==
    ASSUME CallType, NEW r \in Readers, ReadInv(r), rd[r].pc = "loop"
    PROVE  /\ rd[r] \in ReadCall /\ rd[r].req \in ReadRequests /\ rd[r].base \in Seq(Tokens)
           /\ rd[r].got \in Seq(Tokens) /\ rd[r].told = None
           /\ rd[r].req.offset \in Nat /\ rd[r].req.limit \in Nat /\ rd[r].pos \in Nat
           /\ Len(rd[r].got) \in Nat /\ Len(rd[r].base) \in Nat
           /\ rd[r].pos = rd[r].req.offset + Len(rd[r].got)
           /\ rd[r].got = SubSeq(rd[r].base, rd[r].req.offset + 1, rd[r].pos)
<1>1. rd[r] \in ReadCall /\ rd[r].req \in ReadRequests /\ rd[r].told = None
  BY DEF CallType, ReadInv
<1>2. rd[r].base \in Seq(Tokens) /\ rd[r].got \in Seq(Tokens) /\ rd[r].pos \in Nat
  BY <1>1 DEF ReadCall
<1>3. rd[r].req.offset \in Nat /\ rd[r].req.limit \in Nat
  BY <1>1, CallAssumption
<1>4. Len(rd[r].got) \in Nat /\ Len(rd[r].base) \in Nat
  BY <1>2
<1> QED BY <1>1, <1>2, <1>3, <1>4 DEF ReadInv

\* A read that stops at its limit or at the end has sent the window ...
LEMMA CompleteRead ==
    ASSUME CallType, NEW r \in Readers, ReadInv(r), rd[r].pc = "loop",
           \/ rd[r].req.limit > 0 /\ Len(rd[r].got) >= rd[r].req.limit
           \/ rd[r].pos >= Len(rd[r].base)
    PROVE  rd[r].got = Window(rd[r].req, rd[r].base)
<1> DEFINE g == Len(rd[r].got)
           l == rd[r].req.limit
           o == rd[r].req.offset
           m == Len(rd[r].base)
<1>1. /\ rd[r].req \in ReadRequests /\ rd[r].base \in Seq(Tokens)
      /\ g \in Nat /\ l \in Nat /\ o \in Nat /\ m \in Nat
      /\ rd[r].pos = o + g /\ rd[r].got = SubSeq(rd[r].base, o + 1, rd[r].pos)
  BY LoopForm
<1>2. (g > 0 => o + g <= m) /\ (l > 0 => g <= l) /\ ((l > 0 /\ g >= l) \/ o + g >= m)
  BY <1>1 DEF ReadInv
<1>3. /\ Window(rd[r].req, rd[r].base) = SubSeq(rd[r].base, o + 1, o + Extent(rd[r].req, rd[r].base))
      /\ Extent(rd[r].req, rd[r].base) = IF l > 0 THEN Least(l, Rest(rd[r].base, o)) ELSE Rest(rd[r].base, o)
  BY <1>1, WindowForm DEF Extent
<1>4. Rest(rd[r].base, o) = IF o < m THEN m - o ELSE 0
  BY DEF Rest
<1> HIDE DEF g, l, o, m
<1>5. Extent(rd[r].req, rd[r].base) = g
  BY <1>1, <1>2, <1>3, <1>4 DEF Least
<1> QED BY <1>1, <1>3, <1>5

\* ... and as long as it goes on, no more than that.
LEMMA ChunkFits ==
    ASSUME CallType, NEW r \in Readers, ReadInv(r), rd[r].pc = "loop", rd[r].pos < Len(rd[r].base),
           ~(rd[r].req.limit > 0 /\ Len(rd[r].got) >= rd[r].req.limit),
           NEW n, n = Least(ReadLen(r), Len(rd[r].base) - rd[r].pos)
    PROVE  /\ n \in Nat /\ n > 0 /\ rd[r].pos + n <= Len(rd[r].base)
           /\ rd[r].req.limit > 0 => Len(rd[r].got) + n <= rd[r].req.limit
           /\ Len(rd[r].got) + n <= Len(Window(rd[r].req, rd[r].base))
<1> DEFINE g == Len(rd[r].got)
           l == rd[r].req.limit
           o == rd[r].req.offset
           m == Len(rd[r].base)
           p == rd[r].pos
           k == ReadLen(r)
<1>1. /\ rd[r].req \in ReadRequests /\ rd[r].base \in Seq(Tokens)
      /\ g \in Nat /\ l \in Nat /\ o \in Nat /\ m \in Nat /\ p = o + g
  BY LoopForm
<1>2. p < m /\ ~(l > 0 /\ g >= l) /\ n = Least(k, m - p)
  OBVIOUS
<1>3. k = IF l > 0 THEN Least(ChunkLen, l - g) ELSE ChunkLen
  BY DEF ReadLen
<1>4. Len(Window(rd[r].req, rd[r].base)) = IF l > 0 THEN Least(l, Rest(rd[r].base, o)) ELSE Rest(rd[r].base, o)
  BY <1>1, WindowForm DEF Extent
<1>5. Rest(rd[r].base, o) = IF o < m THEN m - o ELSE 0
  BY DEF Rest
<1> HIDE DEF g, l, o, m, p, k
<1>6. k \in Nat /\ k > 0 /\ (l > 0 => g + k <= l)
  BY <1>1, <1>2, <1>3, LimitAssumption DEF Least
<1>7. n \in Nat /\ n > 0 /\ p + n <= m /\ n <= k
  BY <1>1, <1>2, <1>6 DEF Least
<1>8. l > 0 => g + n <= l
  BY <1>1, <1>6, <1>7
<1>9. g + n <= Len(Window(rd[r].req, rd[r].base))
  BY <1>1, <1>2, <1>4, <1>5, <1>7, <1>8 DEF Least
<1> QED BY <1>7, <1>8, <1>9 DEF g, l, m, p

\* A step of one read keeps what the invariant says of reads and of types.
LEMMA ReadKeeps ==
    ASSUME CallType, ReadIsSnapshot, \A q \in Readers : ReadInv(q), UNCHANGED <<fileVars, ed>>,
           NEW r \in Readers, NEW x, OneRead(r, x), Snapshot(x), ReadInv(r)'
    PROVE  CallType' /\ ReadIsSnapshot' /\ \A q \in Readers : ReadInv(q)'
<1>1. rd'[r] = x /\ (\A q \in Readers \ {r} : rd'[q] = rd[q]) /\ rd' \in [Readers -> ReadCall]
  BY OneReadStep
<1>2. CallType'
  BY <1>1 DEF CallType
<1>3. ASSUME NEW q \in Readers PROVE Snapshot(rd'[q])
  <2>1. CASE q = r
    BY <1>1, <2>1
  <2>2. CASE q # r
    <3>1. rd'[q] = rd[q]
      BY <1>1, <2>2
    <3> QED BY <3>1 DEF ReadIsSnapshot, Snapshot
  <2> QED BY <2>1, <2>2
<1>4. ReadIsSnapshot'
  BY <1>3 DEF ReadIsSnapshot, Snapshot
<1>5. ASSUME NEW q \in Readers PROVE ReadInv(q)'
  <2>1. CASE q = r
    BY <2>1
  <2>2. CASE q # r
    <3>1. rd'[q] = rd[q] /\ data' = data /\ linked' = linked
      BY <1>1, <2>2 DEF fileVars
    <3> QED BY <3>1 DEF ReadInv
  <2> QED BY <2>1, <2>2
<1> QED BY <1>2, <1>4, <1>5

\* A read that ends.
LEMMA ReadEnds ==
    ASSUME CallType, ReadIsSnapshot, \A q \in Readers : ReadInv(q), UNCHANGED <<fileVars, ed>>,
           NEW r \in Readers, NEW x \in ReadCall, NEW err \in Errs, ReadAnswer(r, x, err),
           r \notin cut /\ err = "ok" => x.got = Window(x.req, x.base),
           r \notin cut /\ err = "exceeds_max_size" => Len(Window(x.req, x.base)) > HardCap(x.req)
    PROVE  CallType' /\ ReadIsSnapshot' /\ \A q \in Readers : ReadInv(q)'
<1>1. PICK y : /\ OneRead(r, y) /\ y.pc = "done" /\ y.req = x.req /\ y.base = x.base /\ y.got = x.got
               /\ y.told = IF r \in cut THEN None ELSE err
  BY ReadAnswerForm
<1>2. Snapshot(y)
  <2>1. CASE r \in cut
    BY <1>1, <2>1 DEF Snapshot, None
  <2>2. CASE r \notin cut
    <3>1. y.told = err
      BY <1>1, <2>2
    <3> QED BY <1>1, <2>2, <3>1 DEF Snapshot
  <2> QED BY <2>1, <2>2
<1>3. rd'[r] = y
  BY <1>1, OneReadStep
<1>4. ReadInv(r)'
  BY <1>1, <1>3 DEF ReadInv
<1> QED BY <1>1, <1>2, <1>4, ReadKeeps

LEMMA OpenSteps ==
    ASSUME DataType, CallType, PathInv, ReadIsSnapshot, \A q \in Readers : ReadInv(q),
           NEW r \in Readers, ReadOpen(r)
    PROVE  CallType' /\ ReadIsSnapshot' /\ \A q \in Readers : ReadInv(q)'
<1>1. PICK req \in ReadRequests :
        IF path = None THEN ReadAnswer(r, [rd[r] EXCEPT !.req = req], "not_found")
        ELSE rd' = [rd EXCEPT ![r].pc = "loop", ![r].req = req, ![r].inode = path,
                              ![r].pos = req.offset, ![r].base = data[path]]
  BY DEF ReadOpen
<1>2. rd[r] \in ReadCall /\ rd[r].pc = "idle" /\ rd[r].told = None /\ UNCHANGED <<fileVars, ed>>
  BY DEF ReadOpen, CallType, ReadInv
<1>3. CASE path = None
  <2> DEFINE x == [rd[r] EXCEPT !.req = req]
  <2>1. x \in ReadCall
    BY <1>2 DEF ReadCall
  <2>2. ReadAnswer(r, x, "not_found") /\ "not_found" \in Errs
    BY <1>1, <1>3 DEF Errs
  <2> HIDE DEF x
  <2> QED BY <1>2, <2>1, <2>2, ReadEnds
<1>4. CASE path # None
  <2> DEFINE x == [rd[r] EXCEPT !.pc = "loop", !.req = req, !.inode = path,
                                !.pos = req.offset, !.base = data[path]]
  <2>1. data[path] \in Seq(Tokens) /\ path \in Inodes /\ req.offset \in Nat
    BY <1>4, CallAssumption DEF DataType
  <2>2. x \in ReadCall
    BY <1>2, <2>1 DEF ReadCall
  <2>3. /\ x.pc = "loop" /\ x.req = req /\ x.inode = path /\ x.pos = req.offset /\ x.base = data[path]
        /\ x.told = None /\ x.got = rd[r].got
    BY <1>2 DEF ReadCall
  <2>4. rd' = [rd EXCEPT ![r] = x]
    BY <1>1, <1>4
  <2> HIDE DEF x
  <2>5. OneRead(r, x)
    BY <2>2, <2>4 DEF OneRead
  <2>6. rd'[r] = x
    BY <2>5, OneReadStep
  <2>7. Snapshot(x)
    BY <2>3 DEF Snapshot, None
  <2>8. x.got = <<>> /\ Len(x.got) = 0
    BY <1>2, <2>3 DEF ReadInv
  <2>9. SubSeq(x.base, req.offset + 1, req.offset) = <<>>
    BY <2>1, SubSeqEmpty
  <2>10. ReadInv(r)'
    <3>1. path \in linked' /\ data' = data /\ path # None
      BY <1>2, <1>4 DEF fileVars, PathInv
    <3>2. req.limit > 0 => 0 <= req.limit
      BY CallAssumption
    <3>3. x.pos = req.offset + Len(x.got)
      BY <2>1, <2>3, <2>8
    <3>4. x.got = SubSeq(x.base, x.req.offset + 1, x.pos)
      BY <2>3, <2>8, <2>9
    <3>5. ~(Len(x.got) > 0) /\ (x.req.limit > 0 => Len(x.got) <= x.req.limit)
      BY <2>3, <2>8, <3>2
    <3>6. x.inode \in linked' \ {None} /\ x.base = data'[x.inode]
      BY <2>3, <3>1
    <3>7. x.req \in ReadRequests /\ x.pc = "loop" /\ x.told = None /\ x.pos = x.req.offset + Len(x.got)
      BY <2>3, <3>3
    <3> QED BY <2>6, <3>4, <3>5, <3>6, <3>7 DEF ReadInv
  <2> QED BY <1>2, <2>5, <2>7, <2>10, ReadKeeps
<1> QED BY <1>3, <1>4

LEMMA TurnSteps ==
    ASSUME DataType, CallType, ReadIsSnapshot, \A q \in Readers : ReadInv(q),
           NEW r \in Readers, ReadTurn(r)
    PROVE  CallType' /\ ReadIsSnapshot' /\ \A q \in Readers : ReadInv(q)'
<1> DEFINE content == data[rd[r].inode]
           n == Least(ReadLen(r), Len(content) - rd[r].pos)
           full == rd[r].req.limit > 0 /\ Len(rd[r].got) >= rd[r].req.limit
<1>1. /\ rd[r].pc = "loop" /\ UNCHANGED <<fileVars, ed>> /\ rd[r] \in ReadCall
      /\ rd[r].base = content /\ ReadInv(r)
  BY DEF ReadTurn, CallType, ReadInv
<1>2. IF r \in cut THEN ReadAnswer(r, rd[r], "ok")
      ELSE IF full THEN ReadAnswer(r, rd[r], "ok")
      ELSE IF rd[r].pos >= Len(content) THEN ReadAnswer(r, rd[r], "ok")
      ELSE IF Len(rd[r].got) + n > HardCap(rd[r].req) THEN ReadAnswer(r, rd[r], "exceeds_max_size")
      ELSE rd' = [rd EXCEPT ![r].pos = @ + n,
                            ![r].got = @ \o SubSeq(content, rd[r].pos + 1, rd[r].pos + n)]
  BY DEF ReadTurn
<1>3. n = Least(ReadLen(r), Len(rd[r].base) - rd[r].pos)
  BY <1>1
<1>4. "ok" \in Errs /\ "exceeds_max_size" \in Errs /\ "ok" # "exceeds_max_size"
  BY DEF Errs
<1>5. /\ rd[r].base \in Seq(Tokens) /\ rd[r].pos \in Nat /\ Len(rd[r].base) \in Nat
      /\ rd[r].req.offset \in Nat /\ Len(rd[r].got) \in Nat
      /\ rd[r].pos = rd[r].req.offset + Len(rd[r].got)
      /\ rd[r].got = SubSeq(rd[r].base, rd[r].req.offset + 1, rd[r].pos)
      /\ rd[r].req \in ReadRequests /\ rd[r].told = None
  BY <1>1, LoopForm
<1> HIDE DEF content, n
<1>6. CASE r \in cut
  BY <1>1, <1>2, <1>4, <1>6, ReadEnds
<1>7. CASE r \notin cut /\ (full \/ rd[r].pos >= Len(content))
  <2>1. ReadAnswer(r, rd[r], "ok")
    BY <1>2, <1>7
  <2>2. rd[r].got = Window(rd[r].req, rd[r].base)
    BY <1>1, <1>7, CompleteRead
  <2> QED BY <1>1, <1>4, <2>1, <2>2, ReadEnds
<1>8. CASE r \notin cut /\ ~full /\ ~(rd[r].pos >= Len(content))
  <2>0. rd[r].pos < Len(rd[r].base)
    BY <1>1, <1>5, <1>8
  <2>1. /\ n \in Nat /\ n > 0 /\ rd[r].pos + n <= Len(rd[r].base)
        /\ rd[r].req.limit > 0 => Len(rd[r].got) + n <= rd[r].req.limit
        /\ Len(rd[r].got) + n <= Len(Window(rd[r].req, rd[r].base))
    BY <1>1, <1>3, <1>8, <2>0, ChunkFits
  <2>2. CASE Len(rd[r].got) + n > HardCap(rd[r].req)
    <3>1. ReadAnswer(r, rd[r], "exceeds_max_size")
      BY <1>2, <1>8, <2>2
    <3>2. Len(Window(rd[r].req, rd[r].base)) > HardCap(rd[r].req)
      <4>1. HardCap(rd[r].req) \in Nat
        <5>1. rd[r].req.maxSize \in Nat
          BY <1>5, CallAssumption
        <5> QED BY <5>1, LimitAssumption DEF HardCap, Least
      <4>2. Len(Window(rd[r].req, rd[r].base)) \in Nat
        BY <1>5, WindowForm
      <4> QED BY <1>5, <2>1, <2>2, <4>1, <4>2
    <3> QED BY <1>1, <1>4, <3>1, <3>2, ReadEnds
  <2>3. CASE ~(Len(rd[r].got) + n > HardCap(rd[r].req))
    <3> DEFINE g == rd[r].got \o SubSeq(rd[r].base, rd[r].pos + 1, rd[r].pos + n)
               x == [rd[r] EXCEPT !.pos = rd[r].pos + n, !.got = g]
    <3>1. rd' = [rd EXCEPT ![r] = x]
      BY <1>1, <1>2, <1>8, <2>3
    <3>2. /\ g = SubSeq(rd[r].base, rd[r].req.offset + 1, rd[r].pos + n)
          /\ g \in Seq(Tokens) /\ Len(g) = rd[r].pos + n - rd[r].req.offset
      <4>1. rd[r].req.offset <= rd[r].pos
        BY <1>5
      <4> DEFINE b == rd[r].base
                 o == rd[r].req.offset
                 p == rd[r].pos
      <4>2. b \in Seq(Tokens) /\ o \in Nat /\ p \in Nat /\ n \in Nat /\ o <= p /\ p + n <= Len(b)
        BY <1>5, <2>1, <4>1
      <4>3. g = SubSeq(b, o + 1, p) \o SubSeq(b, p + 1, p + n)
        BY <1>5
      <4> HIDE DEF b, o, p, g
      <4>4. g = SubSeq(b, o + 1, p + n) /\ g \in Seq(Tokens) /\ Len(g) = p + n - o
        BY <4>2, <4>3, ChunkForm
      <4> QED BY <4>4 DEF b, o, p
    <3> HIDE DEF g
    <3>3. rd[r].pos + n \in Nat
      BY <1>5, <2>1
    <3>4. x \in ReadCall
      BY <1>1, <3>2, <3>3 DEF ReadCall
    <3>5. /\ x.pc = "loop" /\ x.req = rd[r].req /\ x.inode = rd[r].inode /\ x.pos = rd[r].pos + n
          /\ x.base = rd[r].base /\ x.got = g /\ x.told = None
      BY <1>1, <1>5 DEF ReadCall
    <3> HIDE DEF x
    <3>6. OneRead(r, x)
      BY <3>1, <3>4 DEF OneRead
    <3>7. rd'[r] = x
      BY <3>6, OneReadStep
    <3>8. Snapshot(x)
      BY <3>5 DEF Snapshot, None
    <3>9. ReadInv(r)'
      <4>1. x.inode \in linked' \ {None} /\ x.base = data'[x.inode]
        BY <1>1, <3>5 DEF fileVars, ReadInv, content
      <4>2. x.pos = x.req.offset + Len(x.got) /\ Len(x.got) = Len(rd[r].got) + n
        <5> DEFINE a == Len(rd[r].got)
                   o == rd[r].req.offset
                   p == rd[r].pos
        <5>0. a \in Nat /\ o \in Nat /\ p \in Nat /\ n \in Nat /\ p = o + a /\ Len(g) = p + n - o
          BY <1>5, <2>1, <3>2
        <5> HIDE DEF a, o, p
        <5>1. Len(g) = a + n /\ p + n = o + (a + n)
          BY <5>0
        <5>2. Len(g) = Len(rd[r].got) + n /\ rd[r].pos + n = rd[r].req.offset + (Len(rd[r].got) + n)
          BY <5>1 DEF a, o, p
        <5> QED BY <3>5, <5>1, <5>2, Zenon
      <4>3. x.got = SubSeq(x.base, x.req.offset + 1, x.pos)
        BY <3>2, <3>5
      <4>4. x.pos <= Len(x.base)
        BY <2>1, <3>5
      <4>5. x.req.limit > 0 => Len(x.got) <= x.req.limit
        BY <2>1, <3>5, <4>2
      <4>6. x.req \in ReadRequests
        BY <1>5, <3>5
      <4> QED BY <3>5, <3>7, <4>1, <4>2, <4>3, <4>4, <4>5, <4>6 DEF ReadInv
    <3> QED BY <1>1, <3>6, <3>8, <3>9, ReadKeeps
  <2> QED BY <2>2, <2>3
<1> QED BY <1>6, <1>7, <1>8

\* Every step of a read keeps the invariant.
LEMMA ReadStep ==
    ASSUME FilesInv, NEW r \in Readers, Read(r)
    PROVE  FilesInv'
<1>1. /\ DataType /\ BackupType /\ CallType /\ PathInv /\ WritesInv /\ ReadIsSnapshot
      /\ \A f \in Editors : EditInv(f) /\ KeptInv(f)
      /\ \A q \in Readers : ReadInv(q)
  BY TypeParts DEF FilesInv
<1>2. UNCHANGED <<fileVars, bak, lost, ed, cut>>
  BY DEF Read, ReadOpen, ReadTurn, ReadFails
<1>3. CallType' /\ ReadIsSnapshot' /\ \A q \in Readers : ReadInv(q)'
  <2>1. CASE ReadOpen(r)
    BY <1>1, <2>1, OpenSteps
  <2>2. CASE ReadTurn(r)
    BY <1>1, <2>2, TurnSteps
  <2>3. CASE ReadFails(r)
    <3>1. ReadAnswer(r, rd[r], "read_failed") /\ "read_failed" \in Errs /\ rd[r] \in ReadCall
      BY <1>1, <2>3 DEF ReadFails, Errs, CallType
    <3> QED BY <1>1, <1>2, <3>1, ReadEnds
  <2> QED BY <2>1, <2>2, <2>3 DEF Read
<1>4. DataType' /\ BackupType' /\ PathInv'
  BY <1>1, <1>2 DEF DataType, BackupType, PathInv, fileVars
<1>5. Quiet
  BY <1>2 DEF Quiet, SameBackup
<1>6. WritesInv' /\ \A f \in Editors : KeptInv(f)'
  BY <1>1, <1>5, QuietKeeps
<1>7. \A f \in Editors : EditInv(f)'
  BY <1>1, <1>2 DEF EditInv, fileVars
<1>8. FilesTypeOK'
  BY <1>3, <1>4, <1>6, <1>7, TypeAgain
<1> QED BY <1>3, <1>4, <1>6, <1>7, <1>8 DEF FilesInv
-----------------------------------------------------------------------------
(* Sessions, the daemon and the machine *)

\* A call that is stopped keeps everything but its place.
LEMMA StoppedCalls ==
    ASSUME CallType, Stopped
    PROVE  /\ CallType'
           /\ \A f \in Editors :
                /\ SameBackup(ed'[f], ed[f]) /\ ed'[f].req = ed[f].req /\ ed'[f].read = ed[f].read
                /\ ed'[f].told = ed[f].told
                /\ ed'[f].pc \in {"idle", "done"} /\ (ed'[f].pc = "idle" => ed'[f] = ed[f])
           /\ \A r \in Readers :
                /\ rd'[r].req = rd[r].req /\ rd'[r].base = rd[r].base /\ rd'[r].got = rd[r].got
                /\ rd'[r].told = rd[r].told
                /\ rd'[r].pc \in {"idle", "done"} /\ (rd'[r].pc = "idle" => rd'[r] = rd[r])
<1>1. ASSUME NEW f \in Editors
      PROVE  /\ SameBackup(ed'[f], ed[f]) /\ ed'[f].req = ed[f].req /\ ed'[f].read = ed[f].read
             /\ ed'[f].told = ed[f].told /\ ed'[f] \in EditCall
             /\ ed'[f].pc \in {"idle", "done"} /\ (ed'[f].pc = "idle" => ed'[f] = ed[f])
  <2>1. ed[f] \in EditCall
    BY DEF CallType
  <2>2. ed'[f] = IF f \in Running THEN [ed[f] EXCEPT !.pc = "done"] ELSE ed[f]
    BY DEF Stopped
  <2>3. CASE f \in Running
    <3> DEFINE x == [ed[f] EXCEPT !.pc = "done"]
    <3>1. /\ x \in EditCall /\ SameBackup(x, ed[f]) /\ x.req = ed[f].req /\ x.read = ed[f].read
          /\ x.told = ed[f].told /\ x.pc = "done"
      BY <2>1 DEF EditCall, SameBackup
    <3>2. ed'[f] = x
      BY <2>2, <2>3
    <3> HIDE DEF x
    <3> QED BY <3>1, <3>2
  <2>4. CASE f \notin Running
    <3>1. ed'[f] = ed[f] /\ ed[f].pc \in {"idle", "done"}
      BY <2>2, <2>4 DEF Running
    <3> QED BY <2>1, <3>1 DEF SameBackup
  <2> QED BY <2>3, <2>4
<1>2. ASSUME NEW r \in Readers
      PROVE  /\ rd'[r].req = rd[r].req /\ rd'[r].base = rd[r].base /\ rd'[r].got = rd[r].got
             /\ rd'[r].told = rd[r].told /\ rd'[r] \in ReadCall
             /\ rd'[r].pc \in {"idle", "done"} /\ (rd'[r].pc = "idle" => rd'[r] = rd[r])
  <2>1. rd[r] \in ReadCall
    BY DEF CallType
  <2>2. rd'[r] = IF r \in Running THEN [rd[r] EXCEPT !.pc = "done"] ELSE rd[r]
    BY DEF Stopped
  <2>3. CASE r \in Running
    <3> DEFINE x == [rd[r] EXCEPT !.pc = "done"]
    <3>1. /\ x \in ReadCall /\ x.req = rd[r].req /\ x.base = rd[r].base /\ x.got = rd[r].got
          /\ x.told = rd[r].told /\ x.pc = "done"
      BY <2>1 DEF ReadCall
    <3>2. rd'[r] = x
      BY <2>2, <2>3
    <3> HIDE DEF x
    <3> QED BY <3>1, <3>2
  <2>4. CASE r \notin Running
    <3>1. rd'[r] = rd[r] /\ rd[r].pc # "loop"
      BY <2>2, <2>4 DEF Running
    <3>2. rd[r].pc \in {"idle", "loop", "done"}
      BY <2>1 DEF ReadCall
    <3> QED BY <2>1, <3>1, <3>2
  <2> QED BY <2>3, <2>4
<1>3. CallType'
  <2>1. ed' \in [Editors -> EditCall] /\ rd' \in [Readers -> ReadCall]
    BY <1>1, <1>2 DEF Stopped
  <2>2. \A f \in Editors : Len(ed'[f].backup) <= 1 /\ Len(ed'[f].try) <= 1
    BY <1>1 DEF CallType, SameBackup
  <2> QED BY <2>1, <2>2 DEF CallType
<1> QED BY <1>1, <1>2, <1>3

\* When the calls are stopped, with or without the machine, what was flushed stays.
LEMMA StoppedKeeps ==
    ASSUME FilesInv, Stopped, UNCHANGED <<synced, linked, temps>>, path' \in linked,
           \A i \in synced : data'[i] = data[i]
    PROVE  /\ CallType' /\ PathInv' /\ ReadIsSnapshot'
           /\ \A f \in Editors : EditInv(f)'
           /\ \A r \in Readers : ReadInv(r)'
<1>1. CallType
  BY TypeParts DEF FilesInv
<1>2. CallType'
  BY <1>1, StoppedCalls
<1>3. PathInv'
  BY DEF FilesInv, PathInv
<1>4. ASSUME NEW f \in Editors PROVE EditInv(f)'
  <2>1. /\ SameBackup(ed'[f], ed[f]) /\ ed'[f].req = ed[f].req /\ ed'[f].read = ed[f].read
        /\ ed'[f].told = ed[f].told
        /\ ed'[f].pc \in {"idle", "done"} /\ (ed'[f].pc = "idle" => ed'[f] = ed[f])
    BY <1>1, StoppedCalls
  <2>2. EditInv(f)
    BY DEF FilesInv
  <2>3. f \in linked => f \in synced /\ data'[f] = Apply(ed[f].req, ed[f].read) /\ Matches(ed[f].req, ed[f].read)
    BY <2>2 DEF EditInv
  <2>4. (ed[f].told = "ok" => f \in linked /\ f \notin temps) /\ (ed[f].told \notin {None, "ok"} => f \notin temps \cup linked)
    BY <2>2 DEF EditInv
  <2>5. CASE ed'[f].pc = "idle"
    <3>1. /\ ed[f].pc = "idle" /\ f \notin synced \cup linked \cup temps /\ ed[f].try = <<>>
          /\ ed[f].told = None /\ ed[f].err = "ok"
      BY <2>1, <2>2, <2>5 DEF EditInv
    <3> QED BY <2>1, <2>5, <3>1 DEF EditInv, Active, None
  <2>6. CASE ed'[f].pc = "done"
    BY <2>1, <2>3, <2>4, <2>6 DEF EditInv, Active
  <2> QED BY <2>1, <2>5, <2>6
<1>5. \A r \in Readers :
        /\ rd'[r].req = rd[r].req /\ rd'[r].base = rd[r].base /\ rd'[r].got = rd[r].got
        /\ rd'[r].told = rd[r].told
        /\ rd'[r].pc \in {"idle", "done"} /\ (rd'[r].pc = "idle" => rd'[r] = rd[r])
  BY <1>1, StoppedCalls
<1>6. ReadIsSnapshot'
  BY <1>5 DEF FilesInv, ReadIsSnapshot
<1>7. ASSUME NEW r \in Readers PROVE ReadInv(r)'
  BY <1>5 DEF FilesInv, ReadInv
<1> QED BY <1>2, <1>3, <1>4, <1>6, <1>7

LEMMA SessionStep ==
    ASSUME FilesInv, SessionEnds
    PROVE  FilesInv'
<1>1. UNCHANGED <<fileVars, bak, lost, ed, rd>> /\ cut' \subseteq Editors \cup Readers
  BY DEF SessionEnds, Running
<1>2. /\ DataType /\ BackupType /\ CallType /\ PathInv /\ WritesInv /\ ReadIsSnapshot
      /\ \A f \in Editors : EditInv(f) /\ KeptInv(f)
      /\ \A r \in Readers : ReadInv(r)
  BY TypeParts DEF FilesInv
<1>3. DataType' /\ BackupType' /\ CallType' /\ PathInv'
  BY <1>1, <1>2 DEF DataType, BackupType, CallType, PathInv, fileVars
<1>4. Quiet
  BY <1>1 DEF Quiet, SameBackup
<1>5. WritesInv' /\ \A f \in Editors : KeptInv(f)'
  BY <1>2, <1>4, QuietKeeps
<1>6. ReadIsSnapshot' /\ (\A r \in Readers : ReadInv(r)') /\ \A f \in Editors : EditInv(f)'
  BY <1>1, <1>2 DEF ReadIsSnapshot, ReadInv, EditInv, fileVars
<1>7. FilesTypeOK'
  BY <1>3, <1>5, <1>6, TypeAgain
<1> QED BY <1>3, <1>5, <1>6, <1>7 DEF FilesInv

LEMMA DeathStep ==
    ASSUME FilesInv, DaemonDies
    PROVE  FilesInv'
<1>1. Stopped /\ UNCHANGED <<fileVars, bak, lost, cut>>
  BY DEF DaemonDies
<1>2. /\ DataType /\ BackupType /\ CallType /\ PathInv /\ WritesInv
      /\ \A f \in Editors : KeptInv(f)
  BY TypeParts DEF FilesInv
<1>3. /\ CallType' /\ PathInv' /\ ReadIsSnapshot'
      /\ \A f \in Editors : EditInv(f)'
      /\ \A r \in Readers : ReadInv(r)'
  <2>1. UNCHANGED <<synced, linked, temps>> /\ path' \in linked /\ \A i \in synced : data'[i] = data[i]
    BY <1>1, <1>2 DEF fileVars, PathInv
  <2> QED BY <1>1, <2>1, StoppedKeeps
<1>4. DataType' /\ BackupType'
  BY <1>1, <1>2 DEF DataType, BackupType, fileVars
<1>5. Quiet
  <2>1. \A f \in Editors : /\ SameBackup(ed'[f], ed[f]) /\ ed'[f].read = ed[f].read
                            /\ ed'[f].pc \in {"idle", "done"}
    BY <1>1, <1>2, StoppedCalls
  <2> QED BY <1>1, <2>1 DEF Quiet
<1>6. WritesInv' /\ \A f \in Editors : KeptInv(f)'
  BY <1>2, <1>5, QuietKeeps
<1>7. FilesTypeOK'
  BY <1>3, <1>4, <1>6, TypeAgain
<1> QED BY <1>3, <1>6, <1>7 DEF FilesInv

\* After a loss of power nothing is promised of the backups.
LEMMA LossStep ==
    ASSUME FilesInv, PowerLoss
    PROVE  FilesInv'
<1>1. /\ Stopped /\ lost' = TRUE /\ path' \in linked /\ bak' \subseteq bak
      /\ UNCHANGED <<synced, linked, temps, cut>>
      /\ \/ data' = data
         \/ data' = [i \in Inodes |-> IF i \in synced THEN data[i] ELSE <<>>]
  BY DEF PowerLoss
<1>2. /\ DataType /\ BackupType /\ CallType /\ WritesInv
  BY TypeParts DEF FilesInv
<1>3. \A i \in synced : data'[i] = data[i]
  BY <1>1, <1>2 DEF DataType
<1>4. /\ CallType' /\ PathInv' /\ ReadIsSnapshot'
      /\ \A f \in Editors : EditInv(f)'
      /\ \A r \in Readers : ReadInv(r)'
  BY <1>1, <1>3, StoppedKeeps
<1>5. DataType'
  <2>1. data' \in [Inodes -> Seq(Tokens)]
    <3>1. <<>> \in Seq(Tokens)
      OBVIOUS
    <3> QED BY <1>1, <1>2, <3>1 DEF DataType
  <2> QED BY <1>1, <1>2, <2>1 DEF DataType
<1>6. BackupType'
  BY <1>1, <1>2 DEF BackupType
<1>7. WritesInv'
  <2>1. \A f \in Editors : SameBackup(ed'[f], ed[f])
    BY <1>1, <1>2, StoppedCalls
  <2> QED BY <1>1, <1>2, <2>1, WritesStay
<1>8. \A f \in Editors : KeptInv(f)'
  BY <1>1 DEF KeptInv, Safe
<1>9. FilesTypeOK'
  BY <1>4, <1>5, <1>6, <1>7, TypeAgain
<1> QED BY <1>4, <1>7, <1>8, <1>9 DEF FilesInv
-----------------------------------------------------------------------------
(* Theorems *)

\* At first nothing has been called.
LEMMA FirstState ==
    ASSUME FilesInit
    PROVE  FilesInv
<1>1. PICK s \in Contents : data = [i \in Inodes |-> IF i = "orig" THEN s ELSE <<>>]
  BY DEF FilesInit
<1>2. /\ path \in {"orig", None} /\ linked = {path} /\ synced = {"orig"} /\ temps = {}
      /\ bak = {} /\ lost = FALSE /\ cut = {}
      /\ ed = [e \in Editors |-> NoEdit] /\ rd = [r \in Readers |-> NoRead]
  BY DEF FilesInit
<1>3. NoEdit \in EditCall /\ NoRead \in ReadCall
  <2>1. \A T : <<>> \in Seq(T)
    OBVIOUS
  <2>2. {} \in SUBSET Names /\ 0 \in Nat /\ <<>> \in {<<>>}
    OBVIOUS
  <2>3. NoEdit \in EditCall
    BY <2>1, <2>2 DEF NoEdit, EditCall, Errs
  <2>4. NoRead \in ReadCall
    BY <2>1, <2>2 DEF NoRead, ReadCall
  <2> QED BY <2>3, <2>4
<1>4. \A e \in Editors : e \notin {"orig", None}
  BY CallAssumption
<1>5. /\ NoEdit.pc = "idle" /\ NoEdit.try = <<>> /\ NoEdit.backup = <<>> /\ NoEdit.low = 0
      /\ NoEdit.high = 0 /\ NoEdit.victims = {} /\ NoEdit.err = "ok" /\ NoEdit.told = None
      /\ NoRead.pc = "idle" /\ NoRead.told = None /\ NoRead.got = <<>>
  BY DEF NoEdit, NoRead
<1>6. DataType
  <2>1. s \in Seq(Tokens) /\ <<>> \in Seq(Tokens)
    BY CallAssumption
  <2>2. data \in [Inodes -> Seq(Tokens)]
    BY <1>1, <2>1
  <2> QED BY <1>2, <2>2 DEF DataType, Inodes
<1>7. CallType
  <2>1. Len(<<>>) <= 1
    OBVIOUS
  <2> QED BY <1>2, <1>3, <1>5, <2>1 DEF CallType
<1>8. BackupType
  BY <1>2 DEF BackupType
<1>9. PathInv
  BY <1>1, <1>2 DEF PathInv, Inodes
<1>10. WritesInv
  <2>1. \A e \in Editors : ed[e] = NoEdit
    BY <1>2
  <2> QED BY <1>2, <1>5, <2>1 DEF WritesInv
<1>11. \A e \in Editors : KeptInv(e)
  BY <1>2, <1>5 DEF KeptInv, Safe
<1>12. ASSUME NEW e \in Editors PROVE EditInv(e)
  <2>1. ed[e].pc = "idle" /\ ed[e].try = <<>> /\ ed[e].told = None /\ ed[e].err = "ok"
    BY <1>2, <1>5
  <2>2. e \notin synced \cup linked \cup temps
    BY <1>2, <1>4
  <2> QED BY <2>1, <2>2 DEF EditInv, Active, None
<1>13. ReadIsSnapshot /\ \A r \in Readers : ReadInv(r)
  BY <1>2, <1>5 DEF ReadIsSnapshot, ReadInv, None
<1>14. \A e \in Editors : ed[e].pc = "rename" => e \in temps
  BY <1>2, <1>5
<1>15. FilesTypeOK
  BY <1>6, <1>7, <1>8, <1>14, TypeParts
<1> QED BY <1>9, <1>10, <1>11, <1>12, <1>13, <1>15 DEF FilesInv

\* The invariant is one.
LEMMA FilesInvariant ==
    FilesSpec => []FilesInv
<1>1. FilesInit => FilesInv
  BY FirstState
<1>2. FilesInv /\ [FilesNext]_filesVars => FilesInv'
  <2> SUFFICES ASSUME FilesInv, [FilesNext]_filesVars PROVE FilesInv'
    OBVIOUS
  <2>1. ASSUME NEW e \in Editors, Edit(e) PROVE FilesInv'
    BY <2>1, EditStep
  <2>2. ASSUME NEW r \in Readers, Read(r) PROVE FilesInv'
    BY <2>2, ReadStep
  <2>3. CASE SessionEnds
    BY <2>3, SessionStep
  <2>4. CASE DaemonDies
    BY <2>4, DeathStep
  <2>5. CASE PowerLoss
    BY <2>5, LossStep
  <2>6. CASE UNCHANGED filesVars
    <3>1. UNCHANGED <<data, path, synced, linked, temps, bak, lost, ed, rd, cut>>
      BY <2>6 DEF filesVars, fileVars
    <3>2. FilesTypeOK' /\ PathInv' /\ ReadIsSnapshot'
      BY <3>1 DEF FilesInv, FilesTypeOK, PathInv, ReadIsSnapshot
    <3>3. \A r \in Readers : ReadInv(r)'
      BY <3>1 DEF FilesInv, ReadInv
    <3>4. \A e \in Editors : EditInv(e)'
      BY <3>1 DEF FilesInv, EditInv
    <3>5. Quiet
      BY <3>1 DEF Quiet, SameBackup
    <3>6. WritesInv' /\ \A e \in Editors : KeptInv(e)'
      BY <3>5, QuietKeeps DEF FilesInv
    <3> QED BY <3>2, <3>3, <3>4, <3>6 DEF FilesInv
  <2> QED BY <2>1, <2>2, <2>3, <2>4, <2>5, <2>6 DEF FilesNext
<1> QED BY <1>1, <1>2, PTL DEF FilesSpec

\* editfile.go and readfile.go: every variable stays in its type, backups have
\* names of their own, and an edit has one temporary file and one backup.
THEOREM FilesTypeCorrect == FilesSpec => []FilesTypeOK
<1>1. FilesInv => FilesTypeOK
  BY DEF FilesInv
<1> QED BY <1>1, FilesInvariant, PTL

\* editfile.go: the path holds what it held at first or the whole result of an
\* edit that matched, on a running host and after a loss of power; a refused
\* edit has left nothing behind.
THEOREM FilesAreWhole == FilesSpec => []FileIsWhole
<1>1. FilesInv => FileIsWhole
  BY DEF FilesInv, PathInv, EditInv, FileIsWhole
<1> QED BY <1>1, FilesInvariant, PTL

\* editfile.go:130: the backup a successful edit names holds what it read, while
\* fewer other edits than are retained have written one that is dated as late as
\* it is, whatever the clock does and however backups of one date are sorted.
THEOREM UndoAlwaysKept == FilesSpec => []UndoIsKept
<1>1. FilesInv => UndoIsKept
  <2> SUFFICES ASSUME FilesInv, NEW e \in Editors, ed[e].told = "ok"
               PROVE  /\ e \in synced /\ e \notin temps
                      /\ ed[e].backup # <<>> /\ ~lost
                          /\ Cardinality({f \in Editors \ {e} : ed[f].high >= ed[e].low}) < Keep
                          /\ (\A f \in Editors \ {e} : ed[f].try # ed[e].try)
                         => \E b \in bak : b.name = ed[e].backup[1] /\ b.data = ed[e].read
    BY DEF UndoIsKept
  <2>1. e \in synced /\ e \notin temps
    BY DEF FilesInv, EditInv
  <2>2. ASSUME ed[e].backup # <<>>, ~lost,
               Cardinality({f \in Editors \ {e} : ed[f].high >= ed[e].low}) < Keep,
               \A f \in Editors \ {e} : ed[f].try # ed[e].try
        PROVE  \E b \in bak : b.name = ed[e].backup[1] /\ b.data = ed[e].read
    <3>1. ed[e].backup = ed[e].try
      BY <2>2 DEF FilesInv, WritesInv
    <3>2. Safe(e)
      BY <2>2, <3>1 DEF Safe, Later
    <3>3. PICK b \in bak : ed[e].try = <<b.name>> /\ b.data = ed[e].read
      BY <2>2, <3>2 DEF FilesInv, KeptInv, Wrote
    <3> QED BY <3>1, <3>3
  <2> QED BY <2>1, <2>2
<1> QED BY <1>1, FilesInvariant, PTL

\* readfile.go:29: a read that answers without an error returned exactly the
\* window it asked for of one content; one that was too long asked for too much.
THEOREM ReadsAreSnapshots == FilesSpec => []ReadIsSnapshot
<1>1. FilesInv => ReadIsSnapshot
  BY DEF FilesInv
<1> QED BY <1>1, FilesInvariant, PTL
=============================================================================
