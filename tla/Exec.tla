------------------------------- MODULE Exec -------------------------------
(***************************************************************************)
(* One process of the daemon's exec tools.  tools.Exec (kind "fg") runs a  *)
(* command to its end: two goroutines drain its pipes, then cmd.Wait reaps *)
(* it, and a timeout kills its process group.  tools.BgRegistry ("bg")     *)
(* starts a process and forgets it: pumps fill two ring buffers, a waiter  *)
(* records its end, and Kill and Logs come from other goroutines at any    *)
(* time.                                                                   *)
(*                                                                         *)
(* The operating system is part of the model: the leader of the process    *)
(* group (running, zombie, reaped), one descendant that has inherited the  *)
(* pipes and may have left the group, and the pipes.  The bytes of a       *)
(* stream are numbered 1, 2, ... as they are written.                      *)
(***************************************************************************)
EXTENDS Naturals, Sequences, FiniteSets

CONSTANTS
    Kinds,      \* the tools considered
    MaxBytes,   \* bound: bytes a process writes to a stream
    StreamCap,  \* exec.go MaxBytesPerStream
    RingCap,    \* bgexec.go BgBufferCap
    Killers,    \* goroutines that may run Kill
    MaxPolls    \* bound: calls of Logs

ASSUME KindAssumption == Kinds \subseteq {"fg", "bg"}
ASSUME BoundAssumption == MaxBytes \in Nat /\ StreamCap \in Nat /\ RingCap \in Nat /\ MaxPolls \in Nat

Streams == {"stdout", "stderr"}
UpTo(n) == [k \in 1 .. n |-> k]
\* The last n elements of a sequence, or all of them.
LastN(s, n) == IF Len(s) <= n THEN s ELSE SubSeq(s, Len(s) - n + 1, Len(s))
Larger(a, b) == IF a > b THEN a ELSE b

VARIABLES
    kind,     \* which tool runs this process
    loud,     \* the streams the program writes to
    leader,   \* the process that was started
    kid,      \* its descendant: "none", in the "group", or "escaped" from it
    made,     \* bytes written to each stream
    pipe,     \* bytes in each pipe
    open,     \* whether the parent's ends of the pipes are open
    pump,     \* streamChunks (fg) and pump (bg), one per stream
    main,     \* Exec's goroutine (fg), the waiter of StartBg (bg)
    timer,    \* cctx of Exec: "live", "deadline" or "cancelled"
    chunks,   \* bytes handed to onChunk
    timedOut, \* ExecComplete.TimedOut
    stalled,  \* whether a frame sent to the gateway blocks: it has stopped reading
    ring,     \* bgBuffer.data
    written,  \* bgBuffer.written
    state,    \* BgProcess.state
    ended,    \* whether BgProcess.endedAt is set
    known,    \* whether this session's registry holds the process
    kpc,      \* where each Kill is
    signalled, \* history: whether a Kill has delivered a signal
    marked,   \* history: whether a Kill has recorded the process as killed
    poll,     \* a Logs call under way: the bytes of stdout it has taken
    since,    \* the offset the client passes next
    polls,    \* how many calls of Logs were made
    seen,     \* history: the bytes of each stream the client was given
    flagged   \* history: streams whose output was reported truncated

osVars == <<leader, kid, made, pipe, open>>
fgVars == <<timer, chunks, timedOut, stalled>>
logVars == <<poll, since, polls, seen, flagged>>
bgVars == <<ring, written, state, ended, known, kpc, signalled, marked>>
vars == <<kind, loud, osVars, pump, main, fgVars, bgVars, logVars>>

\* The write end of a pipe is open as long as a process holds it.
Eof == leader # "running" /\ kid = "none"
-----------------------------------------------------------------------------
(* The processes *)

WriteByte(s) ==
    /\ ~Eof /\ open /\ s \in loud /\ made[s] < MaxBytes
    /\ made' = [made EXCEPT ![s] = @ + 1]
    /\ pipe' = [pipe EXCEPT ![s] = Append(@, made[s] + 1)]
    /\ UNCHANGED <<kind, loud, leader, kid, open, pump, main, fgVars, bgVars, logVars>>

Fork ==
    /\ leader = "running" /\ kid = "none"
    /\ kid' \in {"group", "escaped"}
    /\ UNCHANGED <<kind, loud, leader, made, pipe, open, pump, main, fgVars, bgVars, logVars>>

Exit ==
    /\ \/ leader = "running" /\ leader' = "zombie" /\ UNCHANGED kid
       \/ kid # "none" /\ kid' = "none" /\ UNCHANGED leader
    /\ UNCHANGED <<kind, loud, made, pipe, open, pump, main, fgVars, bgVars, logVars>>

\* SIGKILL to the process group.
GroupDies ==
    /\ leader' = IF leader = "running" THEN "zombie" ELSE leader
    /\ kid' = IF kid = "group" THEN "none" ELSE kid
-----------------------------------------------------------------------------
(* The pumps *)

\* streamChunks: pass a chunk on, up to the cap; beyond it, discard.  onChunk
\* sends the chunk to the gateway ("last": the one that reaches the cap) ...
StreamChunk(s) ==
    /\ kind = "fg" /\ pump[s] = "read" /\ open
    /\ \E n \in 1 .. Len(pipe[s]) :
        LET all == chunks[s] \o SubSeq(pipe[s], 1, n) IN
        /\ chunks' = [chunks EXCEPT ![s] = SubSeq(all, 1, IF Len(all) < StreamCap THEN Len(all) ELSE StreamCap)]
        /\ pump' = [pump EXCEPT ![s] = IF Len(all) <= StreamCap THEN "send"
                                        ELSE IF Len(chunks[s]) < StreamCap THEN "last" ELSE "discard"]
        /\ pipe' = [pipe EXCEPT ![s] = SubSeq(@, n + 1, Len(@))]
    /\ UNCHANGED <<kind, loud, leader, kid, made, open, main, timer, timedOut, stalled, bgVars, logVars>>

\* ... and the reader goes on when wss.Conn.Send has returned, which has no
\* timeout of its own: it looks at its context on entry only.
ChunkSent(s) ==
    /\ pump[s] \in {"send", "last"} /\ ~stalled
    /\ pump' = [pump EXCEPT ![s] = IF @ = "send" THEN "read" ELSE "discard"]
    /\ UNCHANGED <<kind, loud, osVars, main, fgVars, bgVars, logVars>>

\* The gateway, or the bridge behind it, stops reading while a chunk is being
\* sent (no one else would notice), or goes on.
Stall ==
    /\ known /\ \E s \in Streams : pump[s] \in {"send", "last"}
    /\ stalled' = ~stalled
    /\ UNCHANGED <<kind, loud, osVars, pump, main, timer, chunks, timedOut, bgVars, logVars>>

Discard(s) ==
    /\ pump[s] = "discard" /\ pipe[s] # <<>>
    /\ pipe' = [pipe EXCEPT ![s] = <<>>]
    /\ UNCHANGED <<kind, loud, leader, kid, made, open, pump, main, fgVars, bgVars, logVars>>

\* Faulty variant: when the ring overflows, the newest bytes are dropped.
RingWrite_KeepsOldest(s, p) ==
    /\ ring' = [ring EXCEPT ![s] = SubSeq(@ \o p, 1, IF Len(@ \o p) < RingCap THEN Len(@ \o p) ELSE RingCap)]
    /\ written' = [written EXCEPT ![s] = @ + Len(p)]

\* Faulty variant: nothing is dropped.
RingWrite_Unbounded(s, p) ==
    /\ ring' = [ring EXCEPT ![s] = @ \o p]
    /\ written' = [written EXCEPT ![s] = @ + Len(p)]

\* bgBuffer.Write: append, and drop the oldest bytes beyond the capacity.
RingWrite(s, p) ==
    /\ ring' = [ring EXCEPT ![s] = LastN(@ \o p, RingCap)]
    /\ written' = [written EXCEPT ![s] = @ + Len(p)]

\* pump: what one Read returns goes into the ring.
Pump(s) ==
    /\ kind = "bg" /\ pump[s] = "read" /\ open
    /\ \E n \in 1 .. Len(pipe[s]) :
        /\ RingWrite(s, SubSeq(pipe[s], 1, n))
        /\ pipe' = [pipe EXCEPT ![s] = SubSeq(@, n + 1, Len(@))]
    /\ UNCHANGED <<kind, loud, leader, kid, made, open, pump, main, fgVars,
                   state, ended, known, kpc, signalled, marked, logVars>>

\* End of file, or the parent's end was closed under the reader.
PumpEnds(s) ==
    /\ pump[s] \in {"read", "discard"}
    /\ ~open \/ (Eof /\ pipe[s] = <<>>)
    /\ pump' = [pump EXCEPT ![s] = "end"]
    /\ UNCHANGED <<kind, loud, osVars, main, fgVars, bgVars, logVars>>
-----------------------------------------------------------------------------
(* tools.Exec *)

\* The deadline passes, or the session that asked for the command ends: its
\* connection is closed, so nothing blocks on it any more, and its registry of
\* background processes is gone.
SessionEnds ==
    /\ known /\ known' = FALSE /\ stalled' = FALSE
    /\ timer' = IF timer = "live" THEN "cancelled" ELSE timer
    /\ UNCHANGED <<kind, loud, osVars, pump, main, chunks, timedOut, ring, written, state, ended,
                   kpc, signalled, marked, logVars>>

Deadline ==
    /\ kind = "fg" /\ main # "done" /\ timer = "live" /\ timer' = "deadline"
    /\ UNCHANGED <<kind, loud, osVars, pump, main, chunks, timedOut, stalled, bgVars, logVars>>

\* Faulty variant: the default Cancel, which kills the leader alone.
KillOnTimeout_Leader ==
    /\ kind = "fg" /\ timer # "live" /\ main \in {"drain", "wait"} /\ leader = "running"
    /\ leader' = "zombie" /\ UNCHANGED kid
    /\ UNCHANGED <<kind, loud, made, pipe, open, pump, main, fgVars, bgVars, logVars>>

\* cmd.Cancel, called once Exec's context is done and until Wait has returned.
KillOnTimeout ==
    /\ kind = "fg" /\ timer # "live" /\ main \in {"drain", "wait"}
    /\ leader = "running" \/ kid = "group"
    /\ GroupDies
    /\ UNCHANGED <<kind, loud, made, pipe, open, pump, main, fgVars, bgVars, logVars>>

\* wg.Wait.
Drained ==
    /\ main = "drain" /\ \A s \in Streams : pump[s] = "end"
    /\ main' = "wait"
    /\ UNCHANGED <<kind, loud, osVars, pump, fgVars, bgVars, logVars>>

\* Faulty variant: Exec does not drain the pipes first.
Reap_Undrained ==
    /\ main \in {"drain", "wait"} /\ leader = "zombie"
    /\ leader' = "reaped" /\ main' = "close"
    /\ UNCHANGED <<kind, loud, kid, made, pipe, open, pump, fgVars, bgVars, logVars>>

\* cmd.Wait reaps the leader ...
Reap ==
    /\ main = "wait" /\ leader = "zombie"
    /\ leader' = "reaped" /\ main' = "close"
    /\ UNCHANGED <<kind, loud, kid, made, pipe, open, pump, fgVars, bgVars, logVars>>

\* ... and closes the parent's ends of the pipes.
ClosePipes ==
    /\ main = "close" /\ open' = FALSE /\ main' = "record"
    /\ UNCHANGED <<kind, loud, leader, kid, made, pipe, pump, fgVars, bgVars, logVars>>

\* Exec's answer.
Complete ==
    /\ kind = "fg" /\ main = "record" /\ main' = "done"
    /\ timedOut' = (timer = "deadline")
    /\ UNCHANGED <<kind, loud, osVars, pump, timer, chunks, stalled, bgVars, logVars>>
-----------------------------------------------------------------------------
(* BgRegistry *)

\* The waiter of StartBg, after cmd.Wait: a recorded kill is kept.  "exited"
\* stands for the code's exited and failed.
Record ==
    /\ kind = "bg" /\ main = "record" /\ main' = "done"
    /\ ended' = TRUE
    /\ state' = IF state = "killed" THEN "killed" ELSE "exited"
    /\ UNCHANGED <<kind, loud, osVars, pump, fgVars, ring, written, known, kpc, signalled, marked,
                   logVars>>

\* Faulty variant: the error of kill(2) is ignored.
Signal_IgnoresError(k) ==
    /\ kind = "bg" /\ known /\ kpc[k] = "idle" /\ kpc' = [kpc EXCEPT ![k] = "mark"]
    /\ IF leader # "reaped" \/ kid = "group"
       THEN signalled' = TRUE /\ (GroupDies \/ UNCHANGED <<leader, kid>>)
       ELSE UNCHANGED <<signalled, leader, kid>>
    /\ UNCHANGED <<kind, loud, made, pipe, open, pump, main, fgVars, ring, written, state, ended,
                   known, marked, logVars>>

\* Kill: signal the group, whatever the recorded state is.  A zombie counts as
\* a member; TERM and INT may be ignored.  No member: ESRCH.
Signal(k) ==
    /\ kind = "bg" /\ known /\ kpc[k] = "idle"
    /\ \/ /\ leader # "reaped" \/ kid = "group"
          /\ signalled' = TRUE /\ kpc' = [kpc EXCEPT ![k] = "mark"]
          /\ GroupDies \/ UNCHANGED <<leader, kid>>
       \/ /\ leader = "reaped" /\ kid # "group"
          /\ kpc' = [kpc EXCEPT ![k] = "check"]
          /\ UNCHANGED <<signalled, leader, kid>>
    /\ UNCHANGED <<kind, loud, made, pipe, open, pump, main, fgVars, ring, written, state, ended,
                   known, marked, logVars>>

\* The signal was delivered: the process is recorded as killed.
MarkKilled(k) ==
    /\ kpc[k] = "mark" /\ kpc' = [kpc EXCEPT ![k] = "idle"]
    /\ state' = "killed" /\ marked' = TRUE
    /\ UNCHANGED <<kind, loud, osVars, pump, main, fgVars, ring, written, ended, known, signalled, logVars>>

\* ESRCH: answer with the recorded state, or with kill_failed if it is still "running".
CheckState(k) ==
    /\ kpc[k] = "check" /\ kpc' = [kpc EXCEPT ![k] = "idle"]
    /\ UNCHANGED <<kind, loud, osVars, pump, main, fgVars, ring, written, state, ended, known, signalled,
                   marked, logVars>>

\* Faulty variant: a slice that starts one byte late.
SinceOffset_Late(s, offset) ==
    LET bufStart == written[s] - Len(ring[s]) IN
    IF offset >= written[s] THEN <<>>
    ELSE SubSeq(ring[s], (IF offset < bufStart THEN 0 ELSE offset + 1 - bufStart) + 1, Len(ring[s]))

\* bgBuffer.SinceOffset: the retained bytes from the offset on ...
SinceOffset(s, offset) ==
    LET bufStart == written[s] - Len(ring[s]) IN
    IF offset >= written[s] THEN <<>>
    ELSE SubSeq(ring[s], (IF offset < bufStart THEN 0 ELSE offset - bufStart) + 1, Len(ring[s]))

\* ... and whether older ones were dropped.
Truncated(s, offset) == offset < written[s] - Len(ring[s])

\* Logs reads the two buffers one after the other ...
LogsStdout ==
    /\ kind = "bg" /\ known /\ poll = <<>> /\ polls < MaxPolls
    /\ poll' = <<written["stdout"]>> /\ polls' = polls + 1
    /\ seen' = [seen EXCEPT !["stdout"] = @ \o SinceOffset("stdout", since)]
    /\ flagged' = IF Truncated("stdout", since) THEN flagged \cup {"stdout"} ELSE flagged
    /\ UNCHANGED <<kind, loud, osVars, pump, main, fgVars, bgVars, since>>

\* ... and answers with the larger total as the next offset of both.
LogsStderr ==
    /\ poll # <<>> /\ poll' = <<>>
    /\ seen' = [seen EXCEPT !["stderr"] = @ \o SinceOffset("stderr", since)]
    /\ flagged' = IF Truncated("stderr", since) THEN flagged \cup {"stderr"} ELSE flagged
    /\ since' = Larger(poll[1], written["stderr"])
    /\ UNCHANGED <<kind, loud, osVars, pump, main, fgVars, bgVars, polls>>
-----------------------------------------------------------------------------
Init ==
    /\ kind \in Kinds /\ loud \in SUBSET Streams
    /\ leader = "running" /\ kid = "none" /\ open = TRUE
    /\ made = [s \in Streams |-> 0] /\ pipe = [s \in Streams |-> <<>>]
    /\ pump = [s \in Streams |-> "read"]
    /\ main = IF kind = "fg" THEN "drain" ELSE "wait"
    /\ timer = "live" /\ chunks = [s \in Streams |-> <<>>] /\ timedOut = FALSE /\ stalled = FALSE
    /\ ring = [s \in Streams |-> <<>>] /\ written = [s \in Streams |-> 0]
    /\ state = "running" /\ ended = FALSE /\ known = TRUE
    /\ kpc = [k \in Killers |-> "idle"] /\ signalled = FALSE /\ marked = FALSE
    /\ poll = <<>> /\ since = 0 /\ polls = 0
    /\ seen = [s \in Streams |-> <<>>] /\ flagged = {}

PumpStep(s) == StreamChunk(s) \/ ChunkSent(s) \/ Discard(s) \/ Pump(s) \/ PumpEnds(s)

MainStep == KillOnTimeout \/ Drained \/ Reap \/ ClosePipes \/ Complete \/ Record

Next ==
    \/ \E s \in Streams : WriteByte(s) \/ PumpStep(s)
    \/ Fork \/ Exit \/ Stall \/ Deadline \/ SessionEnds \/ MainStep
    \/ \E k \in Killers : Signal(k) \/ MarkKilled(k) \/ CheckState(k)
    \/ LogsStdout \/ LogsStderr

\* The daemon's goroutines run and the deadline passes.  Nothing is assumed of
\* the process, which may write, fork, exit or ignore signals as it likes, nor
\* of the gateway, which may stop reading for good.
Fairness ==
    /\ WF_vars(MainStep) /\ WF_vars(Deadline)
    /\ \A s \in Streams : WF_vars(PumpStep(s))

Spec == Init /\ [][Next]_vars
FairSpec == Spec /\ Fairness
-----------------------------------------------------------------------------
(* Properties *)

\* Every variable stays in its type, the rings and the chunks within their caps.
TypeOK ==
    /\ kind \in Kinds /\ loud \subseteq Streams
    /\ leader \in {"running", "zombie", "reaped"} /\ kid \in {"none", "group", "escaped"}
    /\ made \in [Streams -> 0 .. MaxBytes] /\ open \in BOOLEAN
    /\ pipe \in [Streams -> Seq(1 .. MaxBytes)] /\ chunks \in [Streams -> Seq(1 .. MaxBytes)]
    /\ ring \in [Streams -> Seq(1 .. MaxBytes)] /\ seen \in [Streams -> Seq(1 .. MaxBytes)]
    /\ \A s \in Streams : Len(chunks[s]) <= StreamCap /\ Len(ring[s]) <= RingCap
    /\ pump \in [Streams -> {"read", "send", "last", "discard", "end"}] /\ stalled \in BOOLEAN
    /\ main \in {"drain", "wait", "close", "record", "done"}
    /\ timer \in {"live", "deadline", "cancelled"} /\ timedOut \in BOOLEAN
    /\ written \in [Streams -> 0 .. MaxBytes]
    /\ state \in {"running", "exited", "killed"} /\ ended \in BOOLEAN /\ known \in BOOLEAN
    /\ kpc \in [Killers -> {"idle", "mark", "check"}] /\ signalled \in BOOLEAN /\ marked \in BOOLEAN
    /\ poll \in {<<>>} \cup {<<n>> : n \in 0 .. MaxBytes} /\ since \in 0 .. MaxBytes /\ polls \in 0 .. MaxPolls
    /\ flagged \subseteq Streams

\* exec.go:85: a command's output is not cut short however fast it exits, and
\* however it ends: the answer follows every byte that was written, up to the cap.
OutputIsComplete ==
    kind = "fg" /\ main = "done" =>
        \A s \in Streams : chunks[s] = UpTo(IF made[s] < StreamCap THEN made[s] ELSE StreamCap)

\* A client that follows the logs sees each stream's bytes in order and none
\* twice, out of a ring that holds the newest ones; and when the program
\* writes to one stream only, it is told of every gap.
LogsFollow ==
    \A s \in Streams :
        /\ ring[s] = LastN(UpTo(written[s]), RingCap)
        /\ \A i, j \in DOMAIN seen[s] : i < j => seen[s][i] < seen[s][j]
        /\ loud = {s} /\ s \notin flagged => seen[s] = UpTo(Len(seen[s]))

\* What status and list say of a background process: an end is recorded only
\* of a process that was reaped, "killed" only of one that a signal reached, and
\* a kill that was recorded is not overwritten when the waiter records the end.
RecordIsSound ==
    /\ ended => leader = "reaped" /\ state # "running"
    /\ state = "exited" => ended
    /\ state = "killed" => signalled
    /\ marked => state = "killed"

\* A command ends by its deadline, unless a descendant that has left its group
\* holds its pipes for good or the gateway has stopped reading for good: then a
\* reader is blocked in onChunk, the deadline does not interrupt it, and wg.Wait
\* (exec.go:88) does not return before the connection is closed.  (The left side
\* holds in every state of an "fg" run, so a passing stall excuses nothing.)  A
\* background process that has exited is recorded and its pumps end, whoever
\* holds the pipes.
RunsEnd ==
    /\ kind = "fg" ~> main = "done" \/ kid = "escaped" \/ stalled
    /\ kind = "bg" /\ leader = "zombie" ~> main = "done" /\ \A s \in Streams : pump[s] = "end"
=============================================================================
