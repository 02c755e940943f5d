---------------------------- MODULE ExecProofs ----------------------------
(***************************************************************************)
(* What the daemon records of a process, and what becomes of its output,   *)
(* proved for any number of goroutines that kill it, any number of bytes   *)
(* and any caps.                                                           *)
(***************************************************************************)
EXTENDS Exec, Counting, TLAPS

KillPc == {"idle", "mark", "check"}

\* The inductive strengthening.  cmd.Wait is what reaps the leader, and the
\* waiter records an end only after it has returned; a Kill that is about to
\* record "killed" has delivered its signal.
RecordInv ==
    /\ kpc \in [Killers -> KillPc]
    /\ main \in {"close", "record", "done"} => leader = "reaped"
    /\ ended => kind = "bg" /\ main = "done" /\ state # "running"
    /\ state \in {"running", "exited", "killed"}
    /\ state = "exited" => ended
    /\ state = "killed" => signalled
    /\ marked => state = "killed"
    /\ \A k \in Killers : kpc[k] = "mark" => signalled

\* A new process has no recorded end and nobody has killed it.
LEMMA RecordInvInit == Init => RecordInv
BY DEF Init, RecordInv, KillPc

\* No goroutine of the daemon, no system call and no client breaks it.
LEMMA RecordInvNext == RecordInv /\ [Next]_vars => RecordInv'
<1> SUFFICES ASSUME RecordInv, [Next]_vars
             PROVE  RecordInv'
  OBVIOUS
<1> USE DEF RecordInv, KillPc, osVars, fgVars, bgVars, logVars
<1>1. ASSUME NEW s \in Streams, WriteByte(s) \/ PumpStep(s) PROVE RecordInv'
  BY <1>1 DEF WriteByte, PumpStep, StreamChunk, ChunkSent, Discard, Pump, PumpEnds
<1>2. CASE Fork
  BY <1>2 DEF Fork
<1>3. CASE Exit
  BY <1>3 DEF Exit
<1>4. CASE Stall \/ Deadline \/ SessionEnds
  BY <1>4 DEF Stall, Deadline, SessionEnds
<1>5. CASE KillOnTimeout
  BY <1>5 DEF KillOnTimeout, GroupDies
<1>6. CASE Drained \/ Reap \/ ClosePipes \/ Complete
  BY <1>6 DEF Drained, Reap, ClosePipes, Complete
<1>7. CASE Record
  BY <1>7 DEF Record
<1>8. ASSUME NEW k \in Killers, Signal(k) PROVE RecordInv'
  BY <1>8 DEF Signal, GroupDies
<1>9. ASSUME NEW k \in Killers, MarkKilled(k) PROVE RecordInv'
  BY <1>9 DEF MarkKilled
<1>10. ASSUME NEW k \in Killers, CheckState(k) PROVE RecordInv'
  BY <1>10 DEF CheckState
<1>11. CASE LogsStdout \/ LogsStderr
  BY <1>11 DEF LogsStdout, LogsStderr
<1>12. CASE UNCHANGED vars
  BY <1>12 DEF vars
<1> QED
  BY <1>1, <1>2, <1>3, <1>4, <1>5, <1>6, <1>7, <1>8, <1>9, <1>10, <1>11, <1>12 DEF Next, MainStep

\* bgexec.go: status and list never report the end of a process that was not
\* reaped, nor a kill whose signal was not delivered, and never drop a kill that
\* was recorded, however Kill, the exit of the process and the waiter interleave.
THEOREM RecordIsAlwaysSound == Spec => []RecordIsSound
<1>1. Init => RecordInv
  BY RecordInvInit
<1>2. RecordInv /\ [Next]_vars => RecordInv'
  BY RecordInvNext
<1>3. RecordInv => RecordIsSound
  BY DEF RecordInv, RecordIsSound
<1> QED
  BY <1>1, <1>2, <1>3, PTL DEF Spec
-----------------------------------------------------------------------------
(* The bytes of a stream, from the process to the reader *)

\* The bytes of a stream are numbered as they are written: 1 .. n counts.
LEMMA UpToCounts ==
    ASSUME NEW n \in Nat
    PROVE  UpTo(n) \in Seq(Nat) /\ Len(UpTo(n)) = n /\ Counts(UpTo(n), 0)
<1>1. UpTo(n) \in [1 .. n -> Nat]
  BY DEF UpTo
<1>2. UpTo(n) \in Seq(Nat) /\ Len(UpTo(n)) = n
  BY <1>1
<1> QED
  BY <1>2 DEF UpTo, Counts

PumpPlaces == {"read", "send", "last", "discard", "end"}

\* The type of the variables that the bytes pass through.
BytesType ==
    /\ kind \in {"fg", "bg"}
    /\ made \in [Streams -> Nat] /\ pipe \in [Streams -> Seq(Nat)]
    /\ chunks \in [Streams -> Seq(Nat)]
    /\ pump \in [Streams -> PumpPlaces]

\* A pipe holds the bytes that were written last, in order.
PipeInv ==
    \A s \in Streams : Len(pipe[s]) <= made[s] /\ Counts(pipe[s], made[s] - Len(pipe[s]))

\* What one reader of Exec has passed on: everything it took from the pipe, or
\* as much as the cap allows; and it ends at the end of the output only.
Passed(s) ==
    /\ Counts(chunks[s], 0) /\ Len(chunks[s]) <= StreamCap
    /\ pump[s] \in {"read", "send"} => Len(chunks[s]) = made[s] - Len(pipe[s])
    /\ pump[s] \in {"last", "discard"} => Len(chunks[s]) = StreamCap /\ made[s] > StreamCap
    /\ pump[s] = "end" =>
        Eof /\ Len(chunks[s]) = IF made[s] < StreamCap THEN made[s] ELSE StreamCap

\* Exec closes the pipes only when its readers have ended.
ReadersInv ==
    kind = "fg" =>
        /\ \A s \in Streams : Passed(s)
        /\ main # "drain" => \A s \in Streams : pump[s] = "end"
        /\ ~open => main # "drain"

OutputInv == BytesType /\ PipeInv /\ ReadersInv

\* Nothing has been written or read when the process starts.
LEMMA OutputInvInit == Init => OutputInv
<1> SUFFICES ASSUME Init PROVE OutputInv
  OBVIOUS
<1> USE DEF Init
<1>1. BytesType
  BY KindAssumption DEF BytesType, PumpPlaces
<1>2. \A a \in Nat : <<>> \in Seq(Nat) /\ Len(<<>>) = 0 /\ Counts(<<>>, a)
  BY CountsEmpty
<1>3. PipeInv
  BY <1>2 DEF PipeInv
<1>4. ReadersInv
  BY <1>2, BoundAssumption DEF ReadersInv, Passed
<1> QED BY <1>1, <1>3, <1>4 DEF OutputInv

\* Steps that touch neither the bytes nor the readers, and leave ended output ended.
LEMMA OutputFrame ==
    ASSUME OutputInv, UNCHANGED <<kind, made, pipe, chunks, pump>>,
           Eof => Eof',
           kind = "fg" /\ main # "drain" => \A s \in Streams : pump[s] = "end",
           kind = "fg" /\ main' # "drain" => \A s \in Streams : pump[s] = "end",
           kind = "fg" /\ ~open' => main' # "drain"
    PROVE  OutputInv'
BY DEF OutputInv, BytesType, PipeInv, ReadersInv, Passed

\* Neither the process nor a reader, a timeout or cmd.Wait loses a byte of exec's
\* output before the readers have ended.
LEMMA OutputInvNext == OutputInv /\ [Next]_vars => OutputInv'
<1> SUFFICES ASSUME OutputInv, [Next]_vars
             PROVE  OutputInv'
  OBVIOUS
<1> USE BoundAssumption DEF OutputInv, osVars, fgVars, bgVars, logVars
<1>1. ASSUME NEW s \in Streams, WriteByte(s) PROVE OutputInv'
  <2> USE <1>1 DEF WriteByte
  <2>1. Append(pipe[s], made[s] + 1) \in Seq(Nat) /\ Len(Append(pipe[s], made[s] + 1)) = Len(pipe[s]) + 1
        /\ Counts(Append(pipe[s], made[s] + 1), made[s] - Len(pipe[s]))
    BY CountsAppend DEF BytesType, PipeInv
  <2>2. BytesType'
    BY <2>1 DEF BytesType
  <2>3. PipeInv'
    BY <2>1, SMTT(40) DEF BytesType, PipeInv
  <2>4. ReadersInv'
    BY <2>1, SMTT(40) DEF BytesType, PipeInv, ReadersInv, Passed, Eof
  <2> QED BY <2>2, <2>3, <2>4
<1>2. ASSUME NEW s \in Streams, StreamChunk(s) PROVE OutputInv'
  <2> USE <1>2 DEF StreamChunk
  <2>1. PICK n \in 1 .. Len(pipe[s]) :
          LET all == chunks[s] \o SubSeq(pipe[s], 1, n) IN
          /\ chunks' = [chunks EXCEPT ![s] = SubSeq(all, 1, IF Len(all) < StreamCap THEN Len(all) ELSE StreamCap)]
          /\ pump' = [pump EXCEPT ![s] = IF Len(all) <= StreamCap THEN "send"
                                          ELSE IF Len(chunks[s]) < StreamCap THEN "last" ELSE "discard"]
          /\ pipe' = [pipe EXCEPT ![s] = SubSeq(@, n + 1, Len(@))]
    OBVIOUS
  <2> DEFINE part == SubSeq(pipe[s], 1, n)
             rest == SubSeq(pipe[s], n + 1, Len(pipe[s]))
             all == chunks[s] \o part
             cut == IF Len(all) < StreamCap THEN Len(all) ELSE StreamCap
  <2>2. /\ pipe[s] \in Seq(Nat) /\ chunks[s] \in Seq(Nat) /\ made[s] \in Nat
        /\ Len(pipe[s]) <= made[s] /\ Counts(pipe[s], made[s] - Len(pipe[s]))
        /\ Counts(chunks[s], 0) /\ Len(chunks[s]) = made[s] - Len(pipe[s])
    BY DEF BytesType, PipeInv, ReadersInv, Passed
  <2> DEFINE a == made[s] - Len(pipe[s])
             q == pipe[s]
  <2>3. /\ part \in Seq(Nat) /\ Len(part) = n /\ Counts(part, a)
        /\ rest \in Seq(Nat) /\ Len(rest) = Len(pipe[s]) - n /\ Counts(rest, a + n)
    <3>1. q \in Seq(Nat) /\ a \in Nat /\ Counts(q, a) /\ n \in 0 .. Len(q)
      BY <2>2
    <3> HIDE DEF a, q
    <3>2. SubSeq(q, 1, n) \in Seq(Nat) /\ Len(SubSeq(q, 1, n)) = n /\ Counts(SubSeq(q, 1, n), a)
      BY <3>1, CountsPrefix
    <3>3. /\ SubSeq(q, n + 1, Len(q)) \in Seq(Nat) /\ Len(SubSeq(q, n + 1, Len(q))) = Len(q) - n
          /\ Counts(SubSeq(q, n + 1, Len(q)), a + n)
      BY <3>1, CountsSuffix
    <3> QED BY <3>2, <3>3 DEF q
  <2>4. all \in Seq(Nat) /\ Len(all) = Len(chunks[s]) + n /\ Counts(all, 0)
    <3>1. Counts(part, 0 + Len(chunks[s]))
      BY <2>2, <2>3
    <3> HIDE DEF part
    <3> QED BY <2>2, <2>3, <3>1, CountsConcat
  <2>5. cut \in 0 .. Len(all) /\ cut <= StreamCap
    BY <2>4
  <2>6. SubSeq(all, 1, cut) \in Seq(Nat) /\ Len(SubSeq(all, 1, cut)) = cut /\ Counts(SubSeq(all, 1, cut), 0)
    <3> HIDE DEF all, cut
    <3> QED BY <2>4, <2>5, CountsPrefix
  <2> DEFINE next == IF Len(all) <= StreamCap THEN "send"
                     ELSE IF Len(chunks[s]) < StreamCap THEN "last" ELSE "discard"
  <2>7. /\ chunks' = [chunks EXCEPT ![s] = SubSeq(all, 1, cut)]
        /\ pump' = [pump EXCEPT ![s] = next]
        /\ pipe' = [pipe EXCEPT ![s] = rest]
    BY <2>1
  <2>13. /\ next \in PumpPlaces
         /\ \/ next = "send" /\ Len(all) <= StreamCap
            \/ next \in {"last", "discard"} /\ ~(Len(all) <= StreamCap)
    BY DEF PumpPlaces
  <2>8. cut = IF Len(all) < StreamCap THEN Len(all) ELSE StreamCap
    OBVIOUS
  <2> HIDE DEF all, cut, rest, part, next
  <2>12. Len(rest) <= made[s] /\ Counts(rest, made[s] - Len(rest)) /\ Len(all) = made[s] - Len(rest)
    <3>1. a + n = made[s] - Len(rest)
      BY <2>2, <2>3, SMTT(40)
    <3> HIDE DEF a
    <3>2. Len(rest) <= made[s] /\ Len(all) = made[s] - Len(rest)
      <4>1. /\ Len(pipe[s]) \in Nat /\ Len(rest) = Len(pipe[s]) - n
            /\ Len(all) = made[s] - Len(pipe[s]) + n
        BY <2>2, <2>3, <2>4
      <4> QED BY <2>2, <4>1, SMTT(40)
    <3>3. Counts(rest, made[s] - Len(rest))
      BY <2>3, <3>1, Zenon
    <3> QED BY <3>2, <3>3
  <2>9. BytesType'
    BY <2>2, <2>3, <2>6, <2>7, <2>13 DEF BytesType
  <2>10. PipeInv'
    BY <2>3, <2>7, <2>12 DEF BytesType, PipeInv
  <2>11. ReadersInv'
    <3>1. Passed(s)'
      <4>0. pump'[s] = next
        BY <2>7 DEF BytesType
      <4>5. \/ pump'[s] = "send" /\ Len(all) <= StreamCap
            \/ pump'[s] \in {"last", "discard"} /\ ~(Len(all) <= StreamCap)
        BY <2>13, <4>0
      <4>1. /\ chunks'[s] = SubSeq(all, 1, cut) /\ made'[s] = made[s] /\ pipe'[s] = rest
        BY <2>7 DEF BytesType
      <4>2. Len(all) \in Nat /\ Len(rest) \in Nat
        BY <2>3, <2>4
      <4>3. CASE Len(all) <= StreamCap
        <5>1. cut = Len(all) /\ pump'[s] = "send"
          BY <2>8, <4>2, <4>3, <4>5
        <5> QED BY <2>5, <2>6, <2>12, <4>1, <4>2, <5>1 DEF Passed
      <4>4. CASE Len(all) > StreamCap
        <5>1. cut = StreamCap /\ pump'[s] \in {"last", "discard"} /\ made[s] > StreamCap
          BY <2>2, <2>8, <2>12, <4>2, <4>4, <4>5
        <5> QED BY <2>5, <2>6, <4>1, <4>2, <5>1 DEF Passed
      <4> QED BY <4>2, <4>3, <4>4
    <3>2. ASSUME NEW t \in Streams, t # s PROVE Passed(t)'
      BY <2>7, <3>2 DEF BytesType, ReadersInv, Passed, Eof
    <3> QED BY <2>7, <3>1, <3>2 DEF ReadersInv, BytesType
  <2> QED BY <2>9, <2>10, <2>11
<1>3. ASSUME NEW s \in Streams, Discard(s) PROVE OutputInv'
  <2> USE <1>3 DEF Discard
  <2>1. \A a \in Nat : <<>> \in Seq(Nat) /\ Len(<<>>) = 0 /\ Counts(<<>>, a)
    BY CountsEmpty
  <2> QED BY <2>1 DEF BytesType, PipeInv, ReadersInv, Passed, Eof
<1>10. ASSUME NEW s \in Streams, ChunkSent(s) PROVE OutputInv'
  <2>1. /\ UNCHANGED <<kind, made, pipe, chunks, leader, kid, open, main>>
        /\ \/ pump[s] = "send" /\ pump' = [pump EXCEPT ![s] = "read"]
           \/ pump[s] = "last" /\ pump' = [pump EXCEPT ![s] = "discard"]
    BY <1>10 DEF ChunkSent, BytesType
  <2>2. BytesType' /\ PipeInv'
    BY <2>1 DEF BytesType, PipeInv, PumpPlaces
  <2>3. ReadersInv'
    BY <2>1 DEF BytesType, ReadersInv, Passed, Eof
  <2> QED BY <2>2, <2>3
<1>4. ASSUME NEW s \in Streams, Pump(s) PROVE OutputInv'
  <2> USE <1>4 DEF Pump
  <2>1. PICK n \in 1 .. Len(pipe[s]) : pipe' = [pipe EXCEPT ![s] = SubSeq(@, n + 1, Len(@))]
    OBVIOUS
  <2> DEFINE rest == SubSeq(pipe[s], n + 1, Len(pipe[s]))
  <2>2. /\ pipe[s] \in Seq(Nat) /\ made[s] \in Nat
        /\ Len(pipe[s]) <= made[s] /\ Counts(pipe[s], made[s] - Len(pipe[s]))
    BY DEF BytesType, PipeInv
  <2> DEFINE a == made[s] - Len(pipe[s])
             q == pipe[s]
  <2>3. rest \in Seq(Nat) /\ Len(rest) = Len(pipe[s]) - n /\ Counts(rest, a + n)
    <3>1. q \in Seq(Nat) /\ a \in Nat /\ Counts(q, a) /\ n \in 0 .. Len(q)
      BY <2>2
    <3> HIDE DEF a, q
    <3>2. /\ SubSeq(q, n + 1, Len(q)) \in Seq(Nat) /\ Len(SubSeq(q, n + 1, Len(q))) = Len(q) - n
          /\ Counts(SubSeq(q, n + 1, Len(q)), a + n)
      BY <3>1, CountsSuffix
    <3> QED BY <3>2 DEF q
  <2>4. Len(rest) <= made[s] /\ Counts(rest, made[s] - Len(rest))
    <3>1. a + n = made[s] - Len(rest)
      BY <2>2, <2>3
    <3> HIDE DEF rest
    <3> QED BY <2>2, <2>3, <3>1
  <2>5. pipe' = [pipe EXCEPT ![s] = rest]
    BY <2>1
  <2> HIDE DEF rest
  <2> QED BY <2>3, <2>4, <2>5 DEF BytesType, PipeInv, ReadersInv
<1>5. ASSUME NEW s \in Streams, PumpEnds(s) PROVE OutputInv'
  <2> USE <1>5 DEF PumpEnds
  <2>1. BytesType' /\ PipeInv'
    BY DEF BytesType, PipeInv, PumpPlaces
  <2>2. ReadersInv'
    <3> SUFFICES ASSUME kind = "fg" PROVE ReadersInv'
      BY DEF ReadersInv
    <3>1. Eof /\ pipe[s] = <<>>
      BY DEF ReadersInv
    <3>2. Passed(s)'
      BY <3>1 DEF BytesType, ReadersInv, Passed, Eof
    <3>3. ASSUME NEW t \in Streams, t # s PROVE Passed(t)'
      BY <3>3 DEF BytesType, ReadersInv, Passed, Eof
    <3> QED BY <3>2, <3>3 DEF ReadersInv, BytesType
  <2> QED BY <2>1, <2>2
<1>6. ASSUME Fork \/ Exit \/ Stall \/ Deadline \/ SessionEnds \/ KillOnTimeout PROVE OutputInv'
  BY <1>6, OutputFrame DEF Fork, Exit, Stall, Deadline, SessionEnds, KillOnTimeout, GroupDies, Eof, ReadersInv
<1>7. ASSUME Drained \/ Reap \/ ClosePipes \/ Complete \/ Record PROVE OutputInv'
  BY <1>7, OutputFrame DEF Drained, Reap, ClosePipes, Complete, Record, Eof, ReadersInv
<1>8. ASSUME NEW k \in Killers, Signal(k) \/ MarkKilled(k) \/ CheckState(k) PROVE OutputInv'
  BY <1>8, OutputFrame DEF Signal, MarkKilled, CheckState, GroupDies, Eof, ReadersInv
<1>9. CASE LogsStdout \/ LogsStderr \/ UNCHANGED vars
  BY <1>9, OutputFrame DEF LogsStdout, LogsStderr, vars, Eof, ReadersInv
<1> QED
  BY <1>1, <1>2, <1>3, <1>4, <1>5, <1>6, <1>7, <1>8, <1>9, <1>10 DEF Next, MainStep, PumpStep

\* exec.go:85: when Exec answers, the client has been sent every byte that the
\* command wrote, up to the cap, however fast it exited and however it ended.
THEOREM OutputIsAlwaysComplete == Spec => []OutputIsComplete
<1>1. Init => OutputInv
  BY OutputInvInit
<1>2. OutputInv /\ [Next]_vars => OutputInv'
  BY OutputInvNext
<1>3. OutputInv => OutputIsComplete
  <2> SUFFICES ASSUME OutputInv, kind = "fg", main = "done", NEW s \in Streams
               PROVE  chunks[s] = UpTo(IF made[s] < StreamCap THEN made[s] ELSE StreamCap)
    BY DEF OutputIsComplete
  <2> DEFINE n == IF made[s] < StreamCap THEN made[s] ELSE StreamCap
  <2>1. n \in Nat /\ chunks[s] \in Seq(Nat) /\ Counts(chunks[s], 0) /\ Len(chunks[s]) = n
    BY BoundAssumption DEF OutputInv, BytesType, ReadersInv, Passed
  <2> HIDE DEF n
  <2>2. chunks[s] = UpTo(n)
    BY <2>1, UpToCounts, CountsEqual
  <2> QED BY <2>2 DEF n
<1> QED
  BY <1>1, <1>2, <1>3, PTL DEF Spec
-----------------------------------------------------------------------------
(* The logs of a background process *)

\* What SinceOffset returns: numbers that count on after the offset or, when
\* older ones were dropped, after a later one, up to the last one written.
LEMMA SinceOffsetCounts ==
    ASSUME NEW s \in Streams, NEW off \in Nat,
           ring[s] \in Seq(Nat), written[s] \in Nat, Len(ring[s]) <= written[s],
           Counts(ring[s], written[s] - Len(ring[s]))
    PROVE  /\ SinceOffset(s, off) \in Seq(Nat)
           /\ \E a \in Nat : /\ a >= off /\ Counts(SinceOffset(s, off), a)
                             /\ a + Len(SinceOffset(s, off)) <= Larger(off, written[s])
                             /\ ~Truncated(s, off) =>
                                    /\ a = off
                                    /\ off + Len(SinceOffset(s, off)) = Larger(off, written[s])
<1> DEFINE q == ring[s]
           b == written[s] - Len(q)
           n == IF off < b THEN 0 ELSE off - b
<1>1. q \in Seq(Nat) /\ b \in Nat /\ Len(q) \in Nat /\ written[s] = b + Len(q) /\ Counts(q, b)
  OBVIOUS
<1>2. CASE off >= written[s]
  <2>1. SinceOffset(s, off) = <<>>
    BY <1>2 DEF SinceOffset
  <2>2. off + 0 = Larger(off, written[s])
    BY <1>2 DEF Larger
  <2> QED BY <2>1, <2>2, CountsEmpty
<1>3. CASE ~(off >= written[s])
  <2>0. off < written[s]
    BY <1>1, <1>3
  <2>1. SinceOffset(s, off) = SubSeq(q, n + 1, Len(q))
    BY <1>3 DEF SinceOffset
  <2>2. n \in 0 .. Len(q) /\ b + n \in Nat /\ b + n >= off /\ b + n + (Len(q) - n) = written[s]
        /\ (~Truncated(s, off) => b + n = off)
    <3> HIDE DEF b, q
    <3>1. Truncated(s, off) <=> off < b
      BY DEF Truncated, b, q
    <3>2. CASE off < b
      BY <1>1, <2>0, <3>1, <3>2
    <3>3. CASE ~(off < b)
      BY <1>1, <2>0, <3>1, <3>3
    <3> QED BY <3>2, <3>3
  <2>3. Larger(off, written[s]) = written[s]
    BY <2>0 DEF Larger
  <2> HIDE DEF q, b, n
  <2>4. /\ SubSeq(q, n + 1, Len(q)) \in Seq(Nat) /\ Len(SubSeq(q, n + 1, Len(q))) = Len(q) - n
        /\ Counts(SubSeq(q, n + 1, Len(q)), b + n)
    BY <1>1, <2>2, CountsSuffix
  <2>5. SinceOffset(s, off) \in Seq(Nat) /\ Len(SinceOffset(s, off)) = Len(q) - n
        /\ Counts(SinceOffset(s, off), b + n)
    BY <2>1, <2>4
  <2>6. b + n + Len(SinceOffset(s, off)) = written[s]
    BY <2>2, <2>5
  <2> DEFINE c == b + n
  <2>7. /\ c \in Nat /\ c >= off /\ Counts(SinceOffset(s, off), c)
        /\ c + Len(SinceOffset(s, off)) <= Larger(off, written[s])
        /\ ~Truncated(s, off) =>
              c = off /\ off + Len(SinceOffset(s, off)) = Larger(off, written[s])
    BY <2>2, <2>3, <2>5, <2>6
  <2> HIDE DEF c
  <2> QED BY <2>5, <2>7
<1> HIDE DEF q, b, n
<1> QED BY <1>2, <1>3

Rising(q) == \A i, j \in 1 .. Len(q) : i < j => q[i] < q[j]
UpToBound(q, m) == \A i \in 1 .. Len(q) : q[i] <= m

\* What a client has seen keeps rising when later numbers are added.
LEMMA RisingConcat ==
    ASSUME NEW q \in Seq(Nat), NEW r \in Seq(Nat), NEW m \in Nat, NEW a \in Nat, NEW l \in Nat,
           Rising(q), UpToBound(q, m), m <= a, Counts(r, a), a + Len(r) <= l, m <= l
    PROVE  q \o r \in Seq(Nat) /\ Rising(q \o r) /\ UpToBound(q \o r, l)
<1> DEFINE t == q \o r
<1>1. /\ t \in Seq(Nat) /\ Len(t) = Len(q) + Len(r)
      /\ \A i \in 1 .. Len(q) + Len(r) : t[i] = IF i <= Len(q) THEN q[i] ELSE r[i - Len(q)]
  BY ConcatProperties
<1>2. Len(q) \in Nat /\ Len(r) \in Nat
  OBVIOUS
<1>3. \A i \in 1 .. Len(q) : t[i] = q[i] /\ q[i] \in Nat /\ q[i] <= m
  <2> SUFFICES ASSUME NEW i \in 1 .. Len(q) PROVE t[i] = q[i] /\ q[i] \in Nat /\ q[i] <= m
    OBVIOUS
  <2>1. i \in 1 .. Len(q) + Len(r) /\ i <= Len(q)
    BY <1>2
  <2> QED BY <1>1, <2>1 DEF UpToBound
<1>4. \A i \in 1 .. Len(t) : i - Len(q) \in 1 .. Len(r) => t[i] = a + (i - Len(q))
  <2> SUFFICES ASSUME NEW i \in 1 .. Len(t), i - Len(q) \in 1 .. Len(r)
               PROVE  t[i] = a + (i - Len(q))
    OBVIOUS
  <2>1. i \in 1 .. Len(q) + Len(r) /\ ~(i <= Len(q))
    BY <1>1, <1>2
  <2>2. t[i] = r[i - Len(q)]
    BY <1>1, <2>1
  <2> HIDE DEF t
  <2> QED BY <2>2 DEF Counts
<1>5. \A i \in 1 .. Len(t) : i \in 1 .. Len(q) \/ i - Len(q) \in 1 .. Len(r)
  BY <1>1, <1>2
<1> HIDE DEF t
<1>6. Rising(t)
  <2> SUFFICES ASSUME NEW i \in 1 .. Len(t), NEW j \in 1 .. Len(t), i < j PROVE t[i] < t[j]
    BY DEF Rising
  <2>1. CASE i \in 1 .. Len(q) /\ j \in 1 .. Len(q)
    BY <1>3, <2>1 DEF Rising
  <2>2. CASE i \in 1 .. Len(q) /\ j - Len(q) \in 1 .. Len(r)
    <3>1. t[i] \in Nat /\ t[i] <= m
      BY <1>3, <2>2
    <3>2. t[j] = a + (j - Len(q))
      BY <1>4, <2>2
    <3> QED BY <1>2, <2>2, <3>1, <3>2, SMTT(40)
  <2>3. CASE i - Len(q) \in 1 .. Len(r) /\ j - Len(q) \in 1 .. Len(r)
    <3>1. t[i] = a + (i - Len(q)) /\ t[j] = a + (j - Len(q))
      BY <1>4, <2>3
    <3> QED BY <1>2, <3>1
  <2>4. ~(i - Len(q) \in 1 .. Len(r) /\ j \in 1 .. Len(q))
    BY <1>2
  <2> QED BY <1>5, <2>1, <2>2, <2>3, <2>4
<1>7. UpToBound(t, l)
  <2> SUFFICES ASSUME NEW i \in 1 .. Len(t) PROVE t[i] <= l
    BY DEF UpToBound
  <2>1. CASE i \in 1 .. Len(q)
    BY <1>3, <2>1
  <2>2. CASE i - Len(q) \in 1 .. Len(r)
    <3>1. t[i] = a + (i - Len(q))
      BY <1>4, <2>2
    <3> QED BY <1>2, <2>2, <3>1
  <2> QED BY <1>5, <2>1, <2>2
<1> QED BY <1>1, <1>6, <1>7 DEF t

\* A ring that holds the newest numbers holds the newest ones after a write.
LEMMA RingCounts ==
    ASSUME NEW q \in Seq(Nat), NEW p \in Seq(Nat), NEW w \in Nat,
           Len(q) = IF w < RingCap THEN w ELSE RingCap,
           Counts(q, w - Len(q)), Counts(p, w),
           NEW v, v = w + Len(p), NEW r, r = LastN(q \o p, RingCap)
    PROVE  /\ r \in Seq(Nat) /\ Len(r) = IF v < RingCap THEN v ELSE RingCap
           /\ Counts(r, v - Len(r))
<1> DEFINE b == w - Len(q)
           t == q \o p
           d == Len(t) - RingCap
<1>1. /\ Len(q) \in Nat /\ Len(p) \in Nat /\ b \in Nat /\ w = b + Len(q) /\ RingCap \in Nat /\ v \in Nat
      /\ Counts(q, b)
  BY BoundAssumption
<1>2. t \in Seq(Nat) /\ Len(t) = Len(q) + Len(p) /\ Counts(t, b)
  <2> HIDE DEF b
  <2>1. Counts(p, b + Len(q))
    BY <1>1
  <2> QED BY <1>1, <2>1, CountsConcat
<1> HIDE DEF t, b
<1>3. CASE Len(t) <= RingCap
  <2>1. r = t
    BY <1>3 DEF LastN, t
  <2>2. v - Len(t) = b
    <3>1. Len(t) \in Nat /\ v = b + Len(t)
      BY <1>1, <1>2
    <3> QED BY <1>1, <3>1
  <2>3. Len(t) = IF v < RingCap THEN v ELSE RingCap
    <3>1. CASE w < RingCap
      BY <1>1, <1>2, <1>3, <3>1
    <3>2. CASE ~(w < RingCap)
      BY <1>1, <1>2, <1>3, <3>2
    <3> QED BY <3>1, <3>2
  <2> QED BY <1>2, <2>1, <2>2, <2>3
<1>4. CASE Len(t) > RingCap
  <2>1. r = SubSeq(t, d + 1, Len(t))
    <3>1. ~(Len(t) <= RingCap)
      BY <1>1, <1>2, <1>4
    <3> QED BY <3>1 DEF LastN, t
  <2>2. d \in 0 .. Len(t) /\ Len(t) - d = RingCap /\ b + d = v - RingCap /\ ~(v < RingCap)
    BY <1>1, <1>2, <1>4, SMTT(40)
  <2> HIDE DEF d
  <2>3. r \in Seq(Nat) /\ Len(r) = Len(t) - d /\ Counts(r, b + d)
    BY <1>1, <1>2, <2>1, <2>2, CountsSuffix, ZenonT(60)
  <2>4. Len(r) = RingCap
    BY <2>2, <2>3
  <2>5. b + d = v - Len(r)
    BY <2>2, <2>4
  <2> QED BY <2>2, <2>3, <2>4, <2>5
<1> QED BY <1>1, <1>2, <1>3, <1>4

\* The type of the variables that the logs pass through.
LogsType ==
    /\ BytesType
    /\ loud \subseteq Streams /\ flagged \subseteq Streams
    /\ ring \in [Streams -> Seq(Nat)] /\ written \in [Streams -> Nat] /\ seen \in [Streams -> Seq(Nat)]
    /\ since \in Nat /\ poll \in {<<>>} \cup {<<n>> : n \in Nat}

\* What was taken from a pipe was written to the ring; a quiet stream has no bytes.
TakenInv ==
    \A s \in Streams :
        /\ kind = "bg" => pump[s] \in {"read", "end"} /\ written[s] = made[s] - Len(pipe[s])
        /\ kind = "fg" => written[s] = 0 /\ poll = <<>>
        /\ s \notin loud => made[s] = 0

\* A ring holds the newest bytes.
RingInv ==
    \A s \in Streams :
        /\ Len(ring[s]) = IF written[s] < RingCap THEN written[s] ELSE RingCap
        /\ Counts(ring[s], written[s] - Len(ring[s]))

\* The number up to which the client has asked for a stream.
Asked(s) == IF s = "stdout" /\ poll # <<>> THEN Larger(since, poll[1]) ELSE since

\* The most that it can be asking for.
Top == Larger(IF poll = <<>> THEN written["stdout"] ELSE poll[1], written["stderr"])

\* What it has seen rises and stays below that; of the only stream that is
\* written to, it has seen everything below, unless it was told otherwise.
SeenInv ==
    /\ \A s \in Streams : Rising(seen[s]) /\ UpToBound(seen[s], Asked(s))
    /\ poll # <<>> => poll[1] <= written["stdout"]
    /\ since <= Top
    /\ \A s \in Streams : loud = {s} =>
        /\ Asked(s) <= written[s]
        /\ s \notin flagged => Counts(seen[s], 0) /\ Len(seen[s]) = Asked(s)

LogsInv == LogsType /\ PipeInv /\ TakenInv /\ RingInv /\ SeenInv

\* Nothing was written or seen at the start.
LEMMA LogsInvInit == Init => LogsInv
<1> SUFFICES ASSUME Init PROVE LogsInv
  OBVIOUS
<1> USE BoundAssumption DEF Init
<1>1. OutputInv
  BY OutputInvInit
<1>2. \A a \in Nat : <<>> \in Seq(Nat) /\ Len(<<>>) = 0 /\ Counts(<<>>, a)
  BY CountsEmpty
<1>3. LogsType
  BY <1>1, <1>2 DEF LogsType, OutputInv
<1>4. TakenInv /\ RingInv
  BY <1>2 DEF TakenInv, RingInv
<1>5. SeenInv
  BY <1>2 DEF SeenInv, Rising, UpToBound, Asked, Top, Larger, Streams
<1> QED BY <1>1, <1>3, <1>4, <1>5 DEF LogsInv, OutputInv

\* Steps of the processes, the waiter and Kill concern the logs in no way.
LEMMA LogsFrame ==
    ASSUME LogsInv, OutputInv',
           UNCHANGED <<kind, loud, made, pipe, ring, written, logVars>>,
           kind = "bg" => \A s \in Streams : pump'[s] \in {"read", "end"}
    PROVE  LogsInv'
BY DEF LogsInv, LogsType, OutputInv, TakenInv, RingInv, SeenInv, Rising, UpToBound, Asked, Top, logVars

\* Nothing is taken from a stream that the program does not write to.
LEMMA QuietStream ==
    ASSUME LogsType, PipeInv, TakenInv, NEW s \in Streams, s \notin loud
    PROVE  written[s] = 0
BY DEF LogsType, BytesType, PipeInv, TakenInv

\* The pumps, the rings and the polls keep the numbers in order.
LEMMA LogsInvNext == LogsInv /\ OutputInv /\ OutputInv' /\ [Next]_vars => LogsInv'
<1> SUFFICES ASSUME LogsInv, OutputInv, OutputInv', [Next]_vars
             PROVE  LogsInv'
  OBVIOUS
<1> USE BoundAssumption DEF osVars, fgVars, bgVars
<1>1. ASSUME NEW s \in Streams, WriteByte(s) PROVE LogsInv'
  <2> USE <1>1 DEF WriteByte, logVars
  <2>1. made' = [made EXCEPT ![s] = made[s] + 1] /\ Len(pipe'[s]) = Len(pipe[s]) + 1
        /\ \A t \in Streams \ {s} : pipe'[t] = pipe[t]
    BY DEF OutputInv, BytesType
  <2>2. TakenInv'
    <3>1. \A t \in Streams : Len(pipe[t]) \in Nat /\ made[t] \in Nat
      BY DEF OutputInv, BytesType
    <3>2. \A t \in Streams : made'[t] = IF t = s THEN made[s] + 1 ELSE made[t]
      BY <2>1 DEF OutputInv, BytesType
    <3> QED BY <2>1, <3>1, <3>2 DEF LogsInv, TakenInv
  <2> QED BY <2>2 DEF LogsInv, LogsType, OutputInv, RingInv, SeenInv, Rising, UpToBound, Asked, Top
<1>2. ASSUME NEW s \in Streams, StreamChunk(s) \/ ChunkSent(s) \/ Discard(s) PROVE LogsInv'
  <2>1. kind = "fg" /\ UNCHANGED <<kind, loud, made, ring, written, logVars>>
    BY <1>2 DEF StreamChunk, ChunkSent, Discard, LogsInv, LogsType, BytesType, TakenInv, logVars
  <2>2. TakenInv'
    BY <2>1 DEF LogsInv, TakenInv, logVars
  <2> QED BY <2>1, <2>2 DEF LogsInv, LogsType, OutputInv, RingInv, SeenInv, Rising, UpToBound, Asked, Top, logVars
<1>3. ASSUME NEW s \in Streams, Pump(s) PROVE LogsInv'
  <2> USE DEF logVars
  <2>1. PICK n \in 1 .. Len(pipe[s]) :
          /\ RingWrite(s, SubSeq(pipe[s], 1, n))
          /\ pipe' = [pipe EXCEPT ![s] = SubSeq(@, n + 1, Len(@))]
    BY <1>3 DEF Pump
  <2> DEFINE q == pipe[s]
             a == made[s] - Len(q)
             part == SubSeq(q, 1, n)
             rest == SubSeq(q, n + 1, Len(q))
             new == LastN(ring[s] \o part, RingCap)
             v == a + n
  <2>2. kind = "bg" /\ UNCHANGED <<kind, loud, made, pump, chunks, logVars>>
    BY <1>3 DEF Pump
  <2>3. q \in Seq(Nat) /\ a \in Nat /\ Counts(q, a) /\ n \in 0 .. Len(q) /\ written[s] = a
        /\ ring[s] \in Seq(Nat) /\ made[s] = a + Len(q)
    BY <2>2 DEF LogsInv, LogsType, PipeInv, TakenInv, BytesType
  <2>4. /\ part \in Seq(Nat) /\ Len(part) = n /\ Counts(part, a)
        /\ rest \in Seq(Nat) /\ Len(rest) = Len(q) - n
    <3> HIDE DEF a, q
    <3> QED BY <2>3, CountsPrefix, CountsSuffix
  <2>5. /\ Len(ring[s]) = IF a < RingCap THEN a ELSE RingCap
        /\ Counts(ring[s], a - Len(ring[s]))
    BY <2>3 DEF LogsInv, RingInv
  <2>6. new \in Seq(Nat) /\ Len(new) = (IF v < RingCap THEN v ELSE RingCap) /\ Counts(new, v - Len(new))
    <3> DEFINE g == ring[s]
    <3>1. v = a + Len(part) /\ new = LastN(g \o part, RingCap)
      BY <2>4
    <3>2. /\ g \in Seq(Nat) /\ part \in Seq(Nat) /\ a \in Nat
          /\ Len(g) = (IF a < RingCap THEN a ELSE RingCap)
          /\ Counts(g, a - Len(g)) /\ Counts(part, a)
      BY <2>3, <2>4, <2>5
    <3> HIDE DEF a, q, part, new, v, g
    <3> QED BY <3>1, <3>2, RingCounts
  <2>7. ring' = [ring EXCEPT ![s] = new] /\ written' = [written EXCEPT ![s] = v]
        /\ pipe' = [pipe EXCEPT ![s] = rest]
    <3> HIDE DEF a, part, rest
    <3>1. ring' = [ring EXCEPT ![s] = new] /\ written' = [written EXCEPT ![s] = @ + Len(part)]
      BY <2>1 DEF RingWrite, part
    <3>2. pipe' = [pipe EXCEPT ![s] = rest]
      BY <2>1 DEF rest
    <3>3. [written EXCEPT ![s] = @ + Len(part)] = [written EXCEPT ![s] = v]
      BY <2>3, <2>4
    <3> QED BY <3>1, <3>2, <3>3
  <2>8. v = made[s] - Len(rest) /\ v \in Nat /\ v >= written[s]
    BY <2>3, <2>4
  <2> HIDE DEF q, a, part, rest, new, v
  <2>9. LogsType'
    BY <2>2, <2>4, <2>6, <2>7, <2>8 DEF LogsInv, LogsType, OutputInv
  <2>10. TakenInv'
    BY <2>2, <2>7, <2>8 DEF LogsInv, LogsType, BytesType, TakenInv
  <2>11. RingInv'
    <3>1. /\ ring'[s] = new /\ written'[s] = v
          /\ \A t \in Streams \ {s} : ring'[t] = ring[t] /\ written'[t] = written[t]
      BY <2>7 DEF LogsInv, LogsType
    <3> QED BY <2>6, <3>1 DEF LogsInv, RingInv
  <2>12. SeenInv'
    <3>1. UNCHANGED <<seen, flagged, since, poll, loud>> /\ \A t \in Streams : written'[t] \in Nat /\ written'[t] >= written[t]
      BY <2>2, <2>7, <2>8 DEF LogsInv, LogsType
    <3>2. \A t \in Streams : Asked(t)' = Asked(t) /\ Asked(t) \in Nat
      BY <3>1 DEF LogsInv, LogsType, Asked, Larger
    <3>3. "stdout" \in Streams /\ (poll # <<>> => poll[1] \in Nat) /\ \A t \in Streams : written[t] \in Nat
      BY DEF LogsInv, LogsType, Streams
    <3>4. since' <= Top'
      <4>1. since <= Top /\ since \in Nat
        BY DEF LogsInv, LogsType, SeenInv
      <4> QED BY <3>1, <3>3, <4>1 DEF Top, Larger, Streams
    <3> QED BY <3>1, <3>2, <3>3, <3>4 DEF LogsInv, SeenInv
  <2> QED BY <2>9, <2>10, <2>11, <2>12 DEF LogsInv, OutputInv
<1>4. ASSUME NEW s \in Streams, PumpEnds(s) PROVE LogsInv'
  BY <1>4, LogsFrame DEF PumpEnds, LogsInv, LogsType, BytesType, TakenInv, logVars
<1>5. ASSUME Fork \/ Exit \/ Stall \/ Deadline \/ SessionEnds \/ KillOnTimeout PROVE LogsInv'
  BY <1>5, LogsFrame DEF Fork, Exit, Stall, Deadline, SessionEnds, KillOnTimeout, LogsInv, TakenInv
<1>6. ASSUME Drained \/ Reap \/ ClosePipes \/ Complete \/ Record PROVE LogsInv'
  BY <1>6, LogsFrame DEF Drained, Reap, ClosePipes, Complete, Record, LogsInv, TakenInv
<1>7. ASSUME NEW k \in Killers, Signal(k) \/ MarkKilled(k) \/ CheckState(k) PROVE LogsInv'
  BY <1>7, LogsFrame DEF Signal, MarkKilled, CheckState, LogsInv, TakenInv
<1>8. CASE UNCHANGED vars
  BY <1>8, LogsFrame DEF vars, LogsInv, TakenInv
<1>9. CASE LogsStdout
  <2> DEFINE r == SinceOffset("stdout", since)
             w == written["stdout"]
             l == Larger(since, w)
  <2>1. /\ poll = <<>> /\ poll' = <<w>> /\ seen' = [seen EXCEPT !["stdout"] = @ \o r]
        /\ flagged' = IF Truncated("stdout", since) THEN flagged \cup {"stdout"} ELSE flagged
        /\ UNCHANGED <<kind, loud, made, pipe, pump, chunks, ring, written, since>> /\ kind = "bg"
    BY <1>9 DEF LogsStdout
  <2>2. /\ since \in Nat /\ "stdout" \in Streams /\ ring["stdout"] \in Seq(Nat) /\ w \in Nat
        /\ Len(ring["stdout"]) <= w /\ Counts(ring["stdout"], w - Len(ring["stdout"]))
        /\ seen["stdout"] \in Seq(Nat)
    BY DEF LogsInv, LogsType, RingInv, Streams
  <2>3. r \in Seq(Nat) /\ \E a \in Nat : /\ a >= since /\ Counts(r, a) /\ a + Len(r) <= l
                                         /\ ~Truncated("stdout", since) => a = since /\ since + Len(r) = l
    BY <2>2, SinceOffsetCounts
  <2> HIDE DEF r
  <2>4. PICK a \in Nat : /\ a >= since /\ Counts(r, a) /\ a + Len(r) <= l
                         /\ ~Truncated("stdout", since) => a = since /\ since + Len(r) = l
    BY <2>3
  <2>5. l \in Nat /\ l >= since /\ l >= w /\ (since <= w => l = w)
    BY <2>2 DEF Larger
  <2>6. Asked("stdout") = since /\ Asked("stdout")' = l /\ Asked("stderr") = since /\ Asked("stderr")' = since
    BY <2>1 DEF Asked
  <2>7. Rising(seen["stdout"]) /\ UpToBound(seen["stdout"], since)
    BY <2>2, <2>6 DEF LogsInv, SeenInv
  <2> HIDE DEF l, w
  <2>8. seen["stdout"] \o r \in Seq(Nat) /\ Rising(seen["stdout"] \o r) /\ UpToBound(seen["stdout"] \o r, l)
    BY <2>2, <2>3, <2>4, <2>5, <2>7, RisingConcat
  <2>9. LogsType'
    BY <2>1, <2>2, <2>8 DEF LogsInv, LogsType, OutputInv
  <2>10. TakenInv' /\ RingInv' /\ PipeInv'
    BY <2>1 DEF LogsInv, TakenInv, RingInv, PipeInv
  <2>11. SeenInv'
    <3>1. /\ seen'["stdout"] = seen["stdout"] \o r /\ seen'["stderr"] = seen["stderr"]
          /\ Streams = {"stdout", "stderr"}
      BY <2>1 DEF LogsInv, LogsType, Streams
    <3>2. Rising(seen["stderr"]) /\ UpToBound(seen["stderr"], since)
      BY <2>6, <3>1 DEF LogsInv, SeenInv
    <3>3. \A s \in Streams : Rising(seen'[s]) /\ UpToBound(seen'[s], Asked(s)')
      BY <2>6, <2>8, <3>1, <3>2
    <3>4. poll'[1] <= written'["stdout"]
      BY <2>1, <2>2 DEF w
    <3>5. ASSUME loud' = {"stdout"}
          PROVE  /\ l <= written'["stdout"]
                 /\ "stdout" \notin flagged' =>
                        Counts(seen["stdout"] \o r, 0) /\ Len(seen["stdout"] \o r) = l
      <4>1. since <= w
        BY <2>1, <2>6, <3>1, <3>5 DEF LogsInv, SeenInv, w
      <4>2. l = w /\ w = written'["stdout"] /\ l <= w
        BY <2>1, <2>2, <2>5, <4>1 DEF w
      <4>3. ASSUME "stdout" \notin flagged' PROVE Counts(seen["stdout"] \o r, 0) /\ Len(seen["stdout"] \o r) = l
        <5>1. ~Truncated("stdout", since) /\ "stdout" \notin flagged
          BY <2>1, <4>3
        <5>2. Counts(seen["stdout"], 0) /\ Len(seen["stdout"]) = since
          BY <2>1, <2>6, <3>1, <3>5, <5>1 DEF LogsInv, SeenInv
        <5>3. Counts(r, 0 + Len(seen["stdout"])) /\ since + Len(r) = l
          BY <2>2, <2>4, <5>1, <5>2
        <5> QED BY <2>2, <2>3, <5>2, <5>3, CountsConcat
      <4> QED BY <4>2, <4>3
    <3>6. ASSUME loud' = {"stderr"}
          PROVE  /\ since <= written'["stderr"]
                 /\ "stderr" \notin flagged' => Counts(seen["stderr"], 0) /\ Len(seen["stderr"]) = since
      BY <2>1, <2>6, <3>1, <3>6 DEF LogsInv, SeenInv
    <3>7. since' <= Top'
      BY <2>1 DEF LogsInv, SeenInv, Top, w
    <3> QED BY <2>6, <3>1, <3>3, <3>4, <3>5, <3>6, <3>7 DEF SeenInv
  <2> QED BY <2>9, <2>10, <2>11 DEF LogsInv
<1>10. CASE LogsStderr
  <2> DEFINE r == SinceOffset("stderr", since)
             w == written["stderr"]
             l == Larger(since, w)
             m == Larger(poll[1], w)
  <2>1. /\ poll # <<>> /\ poll' = <<>> /\ seen' = [seen EXCEPT !["stderr"] = @ \o r] /\ since' = m
        /\ flagged' = IF Truncated("stderr", since) THEN flagged \cup {"stderr"} ELSE flagged
        /\ UNCHANGED <<kind, loud, made, pipe, pump, chunks, ring, written>>
    BY <1>10 DEF LogsStderr
  <2>2. /\ since \in Nat /\ "stderr" \in Streams /\ ring["stderr"] \in Seq(Nat) /\ w \in Nat
        /\ Len(ring["stderr"]) <= w /\ Counts(ring["stderr"], w - Len(ring["stderr"]))
        /\ seen["stderr"] \in Seq(Nat) /\ poll[1] \in Nat
    BY <2>1 DEF LogsInv, LogsType, RingInv, Streams
  <2>3. r \in Seq(Nat) /\ \E a \in Nat : /\ a >= since /\ Counts(r, a) /\ a + Len(r) <= l
                                         /\ ~Truncated("stderr", since) => a = since /\ since + Len(r) = l
    BY <2>2, SinceOffsetCounts
  <2> HIDE DEF r
  <2>4. PICK a \in Nat : /\ a >= since /\ Counts(r, a) /\ a + Len(r) <= l
                         /\ ~Truncated("stderr", since) => a = since /\ since + Len(r) = l
    BY <2>3
  <2>5. since <= m
    BY <2>1 DEF LogsInv, SeenInv, Top
  <2>6. /\ m \in Nat /\ m >= w /\ m >= poll[1] /\ l <= m
        /\ (since <= w => l = w) /\ (poll[1] <= w => m = w) /\ (w <= poll[1] => m = poll[1])
    BY <2>2, <2>5 DEF Larger
  <2>7. /\ Asked("stdout") = Larger(since, poll[1]) /\ Asked("stdout") <= m
        /\ Asked("stdout")' = m /\ Asked("stderr") = since /\ Asked("stderr")' = m
    BY <2>1, <2>2, <2>5, <2>6 DEF Asked, Larger
  <2> HIDE DEF l, m, w
  <2>8. seen["stderr"] \o r \in Seq(Nat) /\ Rising(seen["stderr"] \o r) /\ UpToBound(seen["stderr"] \o r, m)
    <3>1. Rising(seen["stderr"]) /\ UpToBound(seen["stderr"], since)
      BY <2>2, <2>7 DEF LogsInv, SeenInv
    <3>2. a + Len(r) <= m
      BY <2>2, <2>3, <2>4, <2>6 DEF l, Larger, w
    <3> QED BY <2>2, <2>3, <2>4, <2>5, <2>6, <3>1, <3>2, RisingConcat
  <2>9. LogsType'
    BY <2>1, <2>2, <2>6, <2>8 DEF LogsInv, LogsType, OutputInv
  <2>10. TakenInv' /\ RingInv' /\ PipeInv'
    BY <2>1 DEF LogsInv, TakenInv, RingInv, PipeInv
  <2>11. SeenInv'
    <3>1. /\ seen'["stderr"] = seen["stderr"] \o r /\ seen'["stdout"] = seen["stdout"]
          /\ Streams = {"stdout", "stderr"} /\ seen["stdout"] \in Seq(Nat)
          /\ written["stdout"] \in Nat
      BY <2>1 DEF LogsInv, LogsType, Streams
    <3>2. Rising(seen["stdout"]) /\ UpToBound(seen["stdout"], m)
      <4>1. Rising(seen["stdout"]) /\ UpToBound(seen["stdout"], Asked("stdout"))
        BY <3>1 DEF LogsInv, SeenInv
      <4>2. Asked("stdout") \in Nat
        BY <2>2, <2>7 DEF Larger
      <4> QED BY <2>6, <2>7, <3>1, <4>1, <4>2 DEF UpToBound
    <3>3. \A s \in Streams : Rising(seen'[s]) /\ UpToBound(seen'[s], Asked(s)')
      BY <2>7, <2>8, <3>1, <3>2
    <3>4. since' <= Top'
      <4>1. poll[1] <= written["stdout"] /\ Top' = Larger(written["stdout"], w)
        BY <2>1 DEF LogsInv, SeenInv, Top, w
      <4> QED BY <2>1, <2>2, <3>1, <4>1 DEF m, Larger
    <3>5. ASSUME loud' = {"stdout"}
          PROVE  /\ m <= written'["stdout"]
                 /\ "stdout" \notin flagged' => Counts(seen["stdout"], 0) /\ Len(seen["stdout"]) = m
      <4>1. w = 0
        BY <2>1, <2>2, <3>1, <3>5, QuietStream DEF w, LogsInv
      <4>2. m = poll[1] /\ Asked("stdout") = m
        BY <2>2, <2>5, <2>6, <2>7, <4>1 DEF Larger
      <4>3. loud = {"stdout"} /\ ("stdout" \notin flagged' => "stdout" \notin flagged)
        BY <2>1, <3>5
      <4> QED BY <2>1, <3>1, <4>2, <4>3 DEF LogsInv, SeenInv
    <3>6. ASSUME loud' = {"stderr"}
          PROVE  /\ m <= written'["stderr"]
                 /\ "stderr" \notin flagged' =>
                        Counts(seen["stderr"] \o r, 0) /\ Len(seen["stderr"] \o r) = m
      <4>1. written["stdout"] = 0
        BY <2>1, <2>2, <3>1, <3>6, QuietStream DEF LogsInv
      <4>2. since <= w
        BY <2>1, <2>7, <3>1, <3>6 DEF LogsInv, SeenInv, w
      <4>3. m = w /\ l = w
        <5>1. poll[1] <= 0
          BY <2>1, <4>1 DEF LogsInv, SeenInv
        <5> QED BY <2>2, <2>6, <4>2, <5>1
      <4>4. ASSUME "stderr" \notin flagged' PROVE Counts(seen["stderr"] \o r, 0) /\ Len(seen["stderr"] \o r) = m
        <5>1. ~Truncated("stderr", since) /\ "stderr" \notin flagged
          BY <2>1, <4>4
        <5>2. Counts(seen["stderr"], 0) /\ Len(seen["stderr"]) = since
          BY <2>1, <2>7, <3>1, <3>6, <5>1 DEF LogsInv, SeenInv
        <5>3. Counts(r, 0 + Len(seen["stderr"])) /\ since + Len(r) = m
          BY <2>2, <2>4, <4>3, <5>1, <5>2
        <5> QED BY <2>2, <2>3, <5>2, <5>3, CountsConcat
      <4>5. m <= written'["stderr"]
        BY <2>1, <2>2, <4>3 DEF w
      <4> QED BY <4>4, <4>5
    <3>7. poll' = <<>>
      BY <2>1
    <3> QED BY <2>7, <3>1, <3>3, <3>4, <3>5, <3>6, <3>7 DEF SeenInv
  <2> QED BY <2>9, <2>10, <2>11 DEF LogsInv
<1> QED
  BY <1>1, <1>2, <1>3, <1>4, <1>5, <1>6, <1>7, <1>8, <1>9, <1>10 DEF Next, MainStep, PumpStep

\* bgexec.go SinceOffset, Logs: whoever follows the logs sees no byte twice and
\* none out of order, whatever was written, dropped or read in between, and is
\* told of every gap when the program writes to one stream.
THEOREM LogsAlwaysFollow == Spec => []LogsFollow
<1>1. Init => LogsInv /\ OutputInv
  BY LogsInvInit, OutputInvInit
<1>2. OutputInv /\ [Next]_vars => OutputInv'
  BY OutputInvNext
<1>3. LogsInv /\ OutputInv /\ OutputInv' /\ [Next]_vars => LogsInv'
  BY LogsInvNext
<1>4. LogsInv => LogsFollow
  <2> SUFFICES ASSUME LogsInv, NEW s \in Streams
               PROVE  /\ ring[s] = LastN(UpTo(written[s]), RingCap)
                      /\ Rising(seen[s])
                      /\ loud = {s} /\ s \notin flagged => seen[s] = UpTo(Len(seen[s]))
    BY DEF LogsFollow, Rising
  <2>1. ring[s] = LastN(UpTo(written[s]), RingCap)
    <3> DEFINE w == written[s]
               u == LastN(<<>> \o UpTo(w), RingCap)
    <3>1. w \in Nat /\ ring[s] \in Seq(Nat) /\ UpTo(w) \in Seq(Nat) /\ Len(UpTo(w)) = w /\ Counts(UpTo(w), 0)
      BY UpToCounts DEF LogsInv, LogsType
    <3> HIDE DEF w
    <3>2. Len(<<>>) = (IF 0 < RingCap THEN 0 ELSE RingCap) /\ <<>> \in Seq(Nat) /\ Counts(<<>>, 0 - Len(<<>>))
      BY BoundAssumption DEF Counts
    <3>3. w = 0 + Len(UpTo(w)) /\ <<>> \o UpTo(w) = UpTo(w) /\ 0 \in Nat
      BY <3>1
    <3> HIDE DEF u
    <3>4. u \in Seq(Nat) /\ Len(u) = (IF w < RingCap THEN w ELSE RingCap) /\ Counts(u, w - Len(u))
      BY <3>1, <3>2, <3>3, RingCounts DEF u
    <3>5. w - Len(u) \in Nat
      BY <3>1, <3>4, BoundAssumption
    <3>6. Len(u) = Len(ring[s]) /\ Counts(u, w - Len(u)) /\ Counts(ring[s], w - Len(u))
      BY <3>4 DEF LogsInv, RingInv, w
    <3>7. ring[s] = u
      BY <3>1, <3>4, <3>5, <3>6, CountsEqual
    <3> QED BY <3>3, <3>7 DEF u, w
  <2>2. Rising(seen[s]) /\ seen[s] \in Seq(Nat) /\ Len(seen[s]) \in Nat
    BY DEF LogsInv, LogsType, SeenInv
  <2>3. ASSUME loud = {s}, s \notin flagged PROVE seen[s] = UpTo(Len(seen[s]))
    <3>1. Counts(seen[s], 0)
      BY <2>3 DEF LogsInv, SeenInv
    <3> QED BY <2>2, <3>1, UpToCounts, CountsEqual
  <2> QED BY <2>1, <2>2, <2>3
<1> QED
  BY <1>1, <1>2, <1>3, <1>4, PTL DEF Spec
-----------------------------------------------------------------------------
(* The types *)

\* A part of a sequence is one of the same elements.
LEMMA PartType ==
    ASSUME NEW T, NEW q \in Seq(T), NEW m \in 1 .. Len(q) + 1, NEW n \in 0 .. Len(q)
    PROVE  SubSeq(q, m, n) \in Seq(T)
OBVIOUS

\* A ring after a write holds no more than its capacity.
LEMMA RingType ==
    ASSUME NEW T, NEW t \in Seq(T)
    PROVE  LastN(t, RingCap) \in Seq(T) /\ Len(LastN(t, RingCap)) <= RingCap
<1>1. Len(t) \in Nat /\ RingCap \in Nat
  BY BoundAssumption
<1>2. CASE Len(t) <= RingCap
  BY <1>2 DEF LastN
<1>3. CASE Len(t) > RingCap
  <2> DEFINE m == Len(t) - RingCap + 1
  <2>1. m \in 1 .. Len(t) + 1 /\ Len(t) \in 0 .. Len(t) /\ Len(t) - m + 1 = RingCap
    BY <1>1, <1>3
  <2>2. LastN(t, RingCap) = SubSeq(t, m, Len(t))
    BY <1>1, <1>3 DEF LastN
  <2> HIDE DEF m
  <2>3. SubSeq(t, m, Len(t)) \in Seq(T)
    BY <2>1, PartType
  <2>4. Len(SubSeq(t, m, Len(t))) <= RingCap
    BY <1>1, <2>1
  <2> QED BY <2>2, <2>3, <2>4
<1> QED BY <1>1, <1>2, <1>3

\* A client is given bytes that were in the ring.
LEMMA SinceOffsetType ==
    ASSUME NEW T, NEW s \in Streams, ring[s] \in Seq(T), written[s] \in Nat, NEW off \in Nat
    PROVE  SinceOffset(s, off) \in Seq(T)
<1> DEFINE q == ring[s]
           b == written[s] - Len(q)
           m == (IF off < b THEN 0 ELSE off - b) + 1
<1>1. q \in Seq(T) /\ Len(q) \in Nat /\ written[s] = b + Len(q) /\ b \in Int
  OBVIOUS
<1>2. CASE off >= written[s]
  BY <1>2 DEF SinceOffset
<1>3. CASE ~(off >= written[s])
  <2>1. SinceOffset(s, off) = SubSeq(q, m, Len(q))
    BY <1>3 DEF SinceOffset
  <2>2. m \in 1 .. Len(q) + 1 /\ Len(q) \in 0 .. Len(q)
    <3> HIDE DEF b, q
    <3> QED BY <1>1, <1>3
  <2> HIDE DEF m, b, q
  <2> QED BY <1>1, <2>1, <2>2, PartType
<1> QED BY <1>2, <1>3

\* TypeOK in two parts: where everybody is ...
ControlType ==
    /\ kind \in Kinds /\ leader \in {"running", "zombie", "reaped"} /\ kid \in {"none", "group", "escaped"}
    /\ open \in BOOLEAN /\ pump \in [Streams -> PumpPlaces]
    /\ main \in {"drain", "wait", "close", "record", "done"}
    /\ timer \in {"live", "deadline", "cancelled"} /\ timedOut \in BOOLEAN /\ stalled \in BOOLEAN
    /\ state \in {"running", "exited", "killed"} /\ ended \in BOOLEAN /\ known \in BOOLEAN
    /\ kpc \in [Killers -> {"idle", "mark", "check"}] /\ signalled \in BOOLEAN /\ marked \in BOOLEAN

\* ... and the bytes.
DataType ==
    /\ loud \subseteq Streams /\ flagged \subseteq Streams
    /\ made \in [Streams -> 0 .. MaxBytes] /\ written \in [Streams -> 0 .. MaxBytes]
    /\ pipe \in [Streams -> Seq(1 .. MaxBytes)] /\ chunks \in [Streams -> Seq(1 .. MaxBytes)]
    /\ ring \in [Streams -> Seq(1 .. MaxBytes)] /\ seen \in [Streams -> Seq(1 .. MaxBytes)]
    /\ \A s \in Streams : Len(chunks[s]) <= StreamCap /\ Len(ring[s]) <= RingCap
    /\ poll \in {<<>>} \cup {<<n>> : n \in 0 .. MaxBytes}
    /\ since \in 0 .. MaxBytes /\ polls \in 0 .. MaxPolls

\* The inductive strengthening: what a pump has taken from its pipe and what is
\* still in it is no more than what was written.
TypeInv ==
    /\ ControlType /\ DataType
    /\ \A s \in Streams : written[s] + Len(pipe[s]) <= made[s]

\* Nothing was written when the process starts.
LEMMA TypeInvInit == Init => TypeInv
<1> SUFFICES ASSUME Init PROVE TypeInv
  OBVIOUS
<1>1. <<>> \in Seq(1 .. MaxBytes) /\ Len(<<>>) = 0 /\ 0 \in 0 .. MaxBytes /\ 0 \in 0 .. MaxPolls
  BY BoundAssumption
<1>2. ControlType
  BY DEF Init, ControlType, PumpPlaces
<1>3. DataType
  BY <1>1, BoundAssumption DEF Init, DataType
<1>4. \A s \in Streams : written[s] + Len(pipe[s]) <= made[s]
  BY <1>1 DEF Init
<1> QED
  BY <1>2, <1>3, <1>4 DEF TypeInv

\* No step takes a goroutine, a process or a command out of its states.
LEMMA ControlTypeNext == ControlType /\ [Next]_vars => ControlType'
<1> SUFFICES ASSUME ControlType, [Next]_vars
             PROVE  ControlType'
  OBVIOUS
<1> USE DEF ControlType, PumpPlaces, osVars, fgVars, bgVars, logVars
<1>1. ASSUME NEW s \in Streams, WriteByte(s) \/ PumpStep(s) PROVE ControlType'
  BY <1>1 DEF WriteByte, PumpStep, StreamChunk, ChunkSent, Discard, Pump, PumpEnds
<1>2. CASE Fork \/ Exit
  BY <1>2 DEF Fork, Exit
<1>3. CASE Stall \/ Deadline \/ SessionEnds
  <2>1. timer' \in {"live", "deadline", "cancelled"} /\ known' \in BOOLEAN /\ stalled' \in BOOLEAN
    BY <1>3 DEF Stall, Deadline, SessionEnds
  <2>2. UNCHANGED <<kind, leader, kid, open, pump, main, timedOut, state, ended, kpc, signalled, marked>>
    BY <1>3 DEF Stall, Deadline, SessionEnds
  <2> QED BY <2>1, <2>2
<1>4. CASE KillOnTimeout
  BY <1>4 DEF KillOnTimeout, GroupDies
<1>5. CASE Drained \/ Reap
  BY <1>5 DEF Drained, Reap
<1>6. CASE ClosePipes \/ Complete \/ Record
  BY <1>6 DEF ClosePipes, Complete, Record
<1>7. ASSUME NEW k \in Killers, Signal(k) PROVE ControlType'
  <2>1. leader' \in {"running", "zombie", "reaped"} /\ kid' \in {"none", "group", "escaped"}
    BY <1>7 DEF Signal, GroupDies
  <2>2. kpc' \in [Killers -> {"idle", "mark", "check"}] /\ signalled' \in BOOLEAN
    BY <1>7 DEF Signal
  <2>3. UNCHANGED <<kind, open, pump, main, timer, timedOut, stalled, state, ended, known, marked>>
    BY <1>7 DEF Signal
  <2> QED BY <2>1, <2>2, <2>3
<1>8. ASSUME NEW k \in Killers, MarkKilled(k) \/ CheckState(k) PROVE ControlType'
  <2>1. kpc' = [kpc EXCEPT ![k] = "idle"]
    BY <1>8 DEF MarkKilled, CheckState
  <2>3. state' \in {"running", "exited", "killed"} /\ marked' \in BOOLEAN
    BY <1>8 DEF MarkKilled, CheckState
  <2>2. UNCHANGED <<kind, leader, kid, open, pump, main, timer, timedOut, stalled, ended, known, signalled>>
    BY <1>8 DEF MarkKilled, CheckState
  <2>4. kpc' \in [Killers -> {"idle", "mark", "check"}]
    BY <2>1
  <2> QED BY <2>2, <2>3, <2>4
<1>9. CASE LogsStdout \/ LogsStderr \/ UNCHANGED vars
  BY <1>9 DEF LogsStdout, LogsStderr, vars
<1> QED
  BY <1>1, <1>2, <1>3, <1>4, <1>5, <1>6, <1>7, <1>8, <1>9 DEF Next, MainStep

\* No step makes up a byte, and none takes a buffer beyond its cap.
LEMMA DataTypeNext == TypeInv /\ [Next]_vars => DataType' /\ \A s \in Streams : written'[s] + Len(pipe'[s]) <= made'[s]
<1> DEFINE B == 1 .. MaxBytes
           Goal == DataType' /\ \A s \in Streams : written'[s] + Len(pipe'[s]) <= made'[s]
<1> SUFFICES ASSUME TypeInv, [Next]_vars
             PROVE  Goal
  OBVIOUS
<1> USE BoundAssumption DEF TypeInv, DataType, logVars
<1>t. ASSUME NEW s \in Streams
      PROVE  /\ pipe[s] \in Seq(B) /\ chunks[s] \in Seq(B) /\ ring[s] \in Seq(B) /\ seen[s] \in Seq(B)
             /\ Len(pipe[s]) \in Nat /\ made[s] \in 0 .. MaxBytes /\ written[s] \in 0 .. MaxBytes
             /\ written[s] + Len(pipe[s]) <= made[s]
  BY <1>t
<1>1. ASSUME NEW s \in Streams, WriteByte(s) PROVE Goal
  <2>1. /\ made[s] + 1 \in 1 .. MaxBytes /\ made' = [made EXCEPT ![s] = @ + 1]
        /\ pipe' = [pipe EXCEPT ![s] = Append(@, made[s] + 1)]
        /\ UNCHANGED <<loud, chunks, ring, written, logVars>>
    BY <1>t, <1>1 DEF WriteByte, fgVars, bgVars
  <2>2. Append(pipe[s], made[s] + 1) \in Seq(B) /\ Len(Append(pipe[s], made[s] + 1)) = Len(pipe[s]) + 1
    BY <1>t, <2>1
  <2>3. made' \in [Streams -> 0 .. MaxBytes] /\ pipe' \in [Streams -> Seq(B)]
    BY <2>1, <2>2
  <2>4. \A r \in Streams : written'[r] + Len(pipe'[r]) <= made'[r]
    BY <1>t, <2>1, <2>2
  <2> QED BY <2>1, <2>3, <2>4
<1>2. ASSUME NEW s \in Streams, NEW n \in 1 .. Len(pipe[s])
      PROVE  /\ SubSeq(pipe[s], 1, n) \in Seq(B) /\ Len(SubSeq(pipe[s], 1, n)) = n /\ n \in Nat
             /\ SubSeq(pipe[s], n + 1, Len(pipe[s])) \in Seq(B)
             /\ Len(SubSeq(pipe[s], n + 1, Len(pipe[s]))) = Len(pipe[s]) - n
  <2> DEFINE q == pipe[s]
  <2>1. q \in Seq(B) /\ Len(q) \in Nat /\ n \in 1 .. Len(q)
    BY <1>t
  <2> HIDE DEF q, B
  <2>2. 1 \in 1 .. Len(q) + 1 /\ n \in 0 .. Len(q) /\ n + 1 \in 1 .. Len(q) + 1 /\ Len(q) \in 0 .. Len(q)
    BY <2>1
  <2>3. SubSeq(q, 1, n) \in Seq(B)
    BY <2>1, <2>2, PartType
  <2>4. SubSeq(q, n + 1, Len(q)) \in Seq(B)
    BY <2>1, <2>2, PartType
  <2>5. Len(SubSeq(q, 1, n)) = n /\ n \in Nat
    BY <2>1, <2>2
  <2>6. Len(SubSeq(q, n + 1, Len(q))) = Len(q) - n
    BY <2>1, <2>2
  <2> QED BY <2>3, <2>4, <2>5, <2>6 DEF q
<1>3. ASSUME NEW s \in Streams, StreamChunk(s) PROVE Goal
  <2>1. PICK n \in 1 .. Len(pipe[s]) :
          LET all == chunks[s] \o SubSeq(pipe[s], 1, n) IN
          /\ chunks' = [chunks EXCEPT ![s] = SubSeq(all, 1, IF Len(all) < StreamCap THEN Len(all) ELSE StreamCap)]
          /\ pipe' = [pipe EXCEPT ![s] = SubSeq(@, n + 1, Len(@))]
    BY <1>3 DEF StreamChunk
  <2> DEFINE part == SubSeq(pipe[s], 1, n)
             rest == SubSeq(pipe[s], n + 1, Len(pipe[s]))
             all == chunks[s] \o part
             cut == IF Len(all) < StreamCap THEN Len(all) ELSE StreamCap
  <2>2. part \in Seq(B) /\ rest \in Seq(B) /\ Len(rest) = Len(pipe[s]) - n /\ n \in Nat
    BY <1>2
  <2>3. chunks' = [chunks EXCEPT ![s] = SubSeq(all, 1, cut)] /\ pipe' = [pipe EXCEPT ![s] = rest]
    BY <2>1
  <2>4. UNCHANGED <<loud, made, ring, written, logVars>>
    BY <1>3 DEF StreamChunk, bgVars
  <2> HIDE DEF part, rest
  <2>5. all \in Seq(B) /\ Len(all) \in Nat
    BY <1>t, <2>2
  <2>6. cut \in 0 .. Len(all) /\ cut <= StreamCap
    BY <2>5
  <2> HIDE DEF all, cut, B
  <2>7. SubSeq(all, 1, cut) \in Seq(B) /\ Len(SubSeq(all, 1, cut)) <= StreamCap
    <3>1. 1 \in 1 .. Len(all) + 1
      BY <2>5
    <3>2. SubSeq(all, 1, cut) \in Seq(B)
      BY <2>5, <2>6, <3>1, PartType
    <3>3. Len(SubSeq(all, 1, cut)) = cut
      BY <2>5, <2>6
    <3> QED BY <2>6, <3>2, <3>3
  <2>8. chunks' \in [Streams -> Seq(B)] /\ \A r \in Streams : Len(chunks'[r]) <= StreamCap
    BY <2>3, <2>7 DEF B
  <2>9. pipe' \in [Streams -> Seq(B)]
    BY <2>2, <2>3 DEF B
  <2>10. \A r \in Streams : written'[r] + Len(pipe'[r]) <= made'[r]
    BY <1>t, <2>2, <2>3, <2>4
  <2> QED BY <2>4, <2>8, <2>9, <2>10 DEF B
<1>4. ASSUME NEW s \in Streams, Discard(s) PROVE Goal
  <2>1. <<>> \in Seq(B) /\ Len(<<>>) = 0
    OBVIOUS
  <2>2. pipe' = [pipe EXCEPT ![s] = <<>>] /\ UNCHANGED <<loud, made, chunks, ring, written, logVars>>
    BY <1>4 DEF Discard, fgVars, bgVars
  <2>3. pipe' \in [Streams -> Seq(B)] /\ \A r \in Streams : written'[r] + Len(pipe'[r]) <= made'[r]
    BY <1>t, <2>1, <2>2
  <2> QED BY <2>2, <2>3
<1>5. ASSUME NEW s \in Streams, Pump(s) PROVE Goal
  <2>1. PICK n \in 1 .. Len(pipe[s]) :
          RingWrite(s, SubSeq(pipe[s], 1, n)) /\ pipe' = [pipe EXCEPT ![s] = SubSeq(@, n + 1, Len(@))]
    BY <1>5 DEF Pump
  <2> DEFINE part == SubSeq(pipe[s], 1, n)
             rest == SubSeq(pipe[s], n + 1, Len(pipe[s]))
             new == LastN(ring[s] \o part, RingCap)
  <2>2. /\ part \in Seq(B) /\ Len(part) = n /\ n \in Nat
        /\ rest \in Seq(B) /\ Len(rest) = Len(pipe[s]) - n
    BY <1>2
  <2>3. /\ pipe' = [pipe EXCEPT ![s] = rest] /\ written' = [written EXCEPT ![s] = @ + Len(part)]
        /\ ring' = [ring EXCEPT ![s] = new]
    BY <2>1 DEF RingWrite
  <2>4. UNCHANGED <<loud, made, chunks, logVars>>
    BY <1>5 DEF Pump, fgVars
  <2> HIDE DEF part, rest
  <2>5. ring[s] \o part \in Seq(B)
    BY <1>t, <2>2
  <2>6. new \in Seq(B) /\ Len(new) <= RingCap
    BY <2>5, RingType
  <2> HIDE DEF new
  <2>7. ring' \in [Streams -> Seq(B)] /\ \A r \in Streams : Len(ring'[r]) <= RingCap
    BY <2>3, <2>6
  <2>8. written[s] + n \in 0 .. MaxBytes /\ written[s] + n + Len(rest) <= made[s]
    <3>1. /\ written[s] \in Nat /\ Len(pipe[s]) \in Nat /\ n \in 1 .. Len(pipe[s]) /\ made[s] \in 0 .. MaxBytes
          /\ written[s] + Len(pipe[s]) <= made[s] /\ Len(rest) = Len(pipe[s]) - n
      BY <1>t, <2>2
    <3> QED BY <3>1
  <2>9. pipe' \in [Streams -> Seq(B)] /\ written' \in [Streams -> 0 .. MaxBytes]
    BY <2>2, <2>3, <2>8
  <2>10. \A r \in Streams : written'[r] + Len(pipe'[r]) <= made'[r]
    BY <1>t, <2>2, <2>3, <2>4, <2>8
  <2> QED BY <2>4, <2>7, <2>9, <2>10
<1>6. ASSUME UNCHANGED <<loud, made, pipe, chunks, ring, written, logVars>> PROVE Goal
  BY <1>6
<1>7. ASSUME NEW s \in Streams, ChunkSent(s) \/ PumpEnds(s) PROVE Goal
  BY <1>6, <1>7 DEF ChunkSent, PumpEnds, osVars, fgVars, bgVars
<1>8. CASE Fork \/ Exit \/ Stall \/ Deadline \/ SessionEnds \/ KillOnTimeout
  BY <1>6, <1>8 DEF Fork, Exit, Stall, Deadline, SessionEnds, KillOnTimeout, osVars, fgVars, bgVars
<1>9. CASE Drained \/ Reap \/ ClosePipes \/ Complete \/ Record
  BY <1>6, <1>9 DEF Drained, Reap, ClosePipes, Complete, Record, osVars, fgVars, bgVars
<1>10. ASSUME NEW k \in Killers, Signal(k) \/ MarkKilled(k) \/ CheckState(k) PROVE Goal
  BY <1>6, <1>10 DEF Signal, MarkKilled, CheckState, osVars, fgVars, bgVars
<1>11. CASE LogsStdout
  <2> DEFINE got == SinceOffset("stdout", since)
  <2>1. /\ polls < MaxPolls /\ polls' = polls + 1 /\ poll' = <<written["stdout"]>>
        /\ seen' = [seen EXCEPT !["stdout"] = @ \o got]
        /\ flagged' = flagged \/ flagged' = flagged \cup {"stdout"}
        /\ UNCHANGED <<loud, made, pipe, chunks, ring, written, since>>
    BY <1>11 DEF LogsStdout, osVars, fgVars, bgVars
  <2>2. "stdout" \in Streams /\ since \in Nat
    BY DEF Streams
  <2>3. got \in Seq(B)
    BY <1>t, <2>2, SinceOffsetType
  <2> HIDE DEF got
  <2>4. seen["stdout"] \o got \in Seq(B)
    BY <1>t, <2>2, <2>3
  <2>5. seen' \in [Streams -> Seq(B)]
    BY <2>1, <2>2, <2>4
  <2>6. polls' \in 0 .. MaxPolls /\ poll' \in {<<>>} \cup {<<n>> : n \in 0 .. MaxBytes}
    BY <1>t, <2>1, <2>2
  <2>7. flagged' \subseteq Streams
    BY <2>1, <2>2
  <2> QED BY <2>1, <2>5, <2>6, <2>7
<1>12. CASE LogsStderr
  <2> DEFINE got == SinceOffset("stderr", since)
  <2>1. /\ poll # <<>> /\ poll' = <<>> /\ since' = Larger(poll[1], written["stderr"])
        /\ seen' = [seen EXCEPT !["stderr"] = @ \o got]
        /\ flagged' = flagged \/ flagged' = flagged \cup {"stderr"}
        /\ UNCHANGED <<loud, made, pipe, chunks, ring, written, polls>>
    BY <1>12 DEF LogsStderr, osVars, fgVars, bgVars
  <2>2. "stderr" \in Streams /\ since \in Nat
    BY DEF Streams
  <2>3. got \in Seq(B)
    BY <1>t, <2>2, SinceOffsetType
  <2> HIDE DEF got
  <2>4. seen["stderr"] \o got \in Seq(B)
    BY <1>t, <2>2, <2>3
  <2>5. seen' \in [Streams -> Seq(B)]
    BY <2>1, <2>2, <2>4
  <2>6. since' \in 0 .. MaxBytes
    BY <1>t, <2>1, <2>2 DEF Larger
  <2>7. flagged' \subseteq Streams
    BY <2>1, <2>2
  <2> QED BY <2>1, <2>5, <2>6, <2>7
<1>13. CASE UNCHANGED vars
  BY <1>6, <1>13 DEF vars, osVars, fgVars, bgVars
<1> HIDE DEF Goal
<1> QED
  BY <1>1, <1>3, <1>4, <1>5, <1>7, <1>8, <1>9, <1>10, <1>11, <1>12, <1>13
  DEF Next, MainStep, PumpStep

\* No step takes a variable out of its type.
LEMMA TypeInvNext == TypeInv /\ [Next]_vars => TypeInv'
BY ControlTypeNext, DataTypeNext DEF TypeInv

\* exec.go, bgexec.go: every variable stays in its type; in particular a stream
\* of exec is never passed on beyond its cap, nor a ring filled beyond its own.
THEOREM ExecTypeCorrect == Spec => []TypeOK
<1>1. TypeInv => TypeOK
  BY DEF TypeInv, ControlType, PumpPlaces, DataType, TypeOK
<1> QED
  BY <1>1, TypeInvInit, TypeInvNext, PTL DEF Spec
=============================================================================
