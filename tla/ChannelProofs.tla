--------------------------- MODULE ChannelProofs ---------------------------
(***************************************************************************)
(* That the counters of a Noise session stay in step in both directions    *)
(* and that a request runs once, in its client's session, proved for any   *)
(* number of clients, requests and replies.                                *)
(***************************************************************************)
EXTENDS Channel, Counting, TLAPS

\* The session in which a client's requests travel, and the frames it sends.
SidOf(c) == IF c \in cfg.e2e THEN c ELSE Plain
Sends(c, f) ==
    \/ f.t = "noise_init" /\ f.sid = c /\ c \in cfg.e2e
    \/ f.t = "route" /\ f.sid = SidOf(c) /\ f.req \in Reqs /\ f.req[1] = c

\* The frames of client c, and those of clients whose handler has subscribed.
Sent(c) == {f \in Frames : Sends(c, f)}
Carried == {f \in Frames : \E c \in Clients : sub[c] # "none" /\ Sends(c, f)}

\* A client's wire carries its own frames, and none before it connects or its
\* handler subscribes; the writer's handler is running.
ClientInv(c) ==
    /\ up[c] \in Seq(Sent(c))
    /\ cpc[c] = "new" => up[c] = <<>> /\ sub[c] = "none" /\ csend[c] = 0 /\ asked[c] = 0
    /\ sub[c] = "off" => cpc[c] = "closed"
    /\ writer = c => sub[c] = "on"

\* What reaches the daemon was sent by a client whose handler has subscribed,
\* and the session is of such a client, admitted by the daemon.
WireInv ==
    /\ \A c \in Clients : ClientInv(c)
    /\ toDaemon \in Seq(Carried)
    /\ session # Plain => session \in cfg.e2e /\ sub[session] # "none"
                          /\ cfg.mode # "disabled" /\ peerAllowed(session)

\* The frames of session c towards the daemon, with NoiseInit before the
\* sealed ones, and those back to the client; the requests of client c.
UpFrames(c) == {f \in Frames : f.t \in {"noise_init", "route"} /\ f.sid = c}
UpNum == [f \in Frames |-> IF f.t = "noise_init" THEN 0 ELSE f.n + 1]
DownFrames(c) == {f \in Frames : f.t = "route" /\ f.sid = c}
DownNum == [f \in Frames |-> f.n]
ReqFrames(c) == {f \in Frames : f.t = "route" /\ f.req \in Reqs /\ f.req[1] = c}
ReqNum == [f \in Frames |-> f.req[2]]

\* Frames of session c that its client has sent.
UpSent(c) == IF cpc[c] = "new" THEN 0 ELSE 1 + csend[c]

\* The daemon has taken the first b frames of session c off its wire, and the
\* others follow without a gap, on that wire and the client's.  As long as c is
\* the session, it has opened every one after NoiseInit.
UpInv(c) ==
    \E b, k \in 0 .. 1 + csend[c] :
        /\ Runs(toDaemon, UpFrames(c), UpNum, b, k)
        /\ sub[c] # "off" => Runs(up[c], UpFrames(c), UpNum, k, UpSent(c))
        /\ b = 0 => drecv[c] = 0 /\ session # c
        /\ session = c => b = 1 + drecv[c]

\* 1 when the goroutine that holds sendMu has sealed a frame in session c.
Sealed(c) == IF sendMu # NoReq /\ out[sendMu] \in DownFrames(c) THEN 1 ELSE 0

\* The frames sealed in session c follow each other without a gap on the wire
\* to the gateway, and on the wire to the client, from the one it expects.
\* There is none between the two as long as c's handler is the writer, which
\* it was before the session began.
DownInv(c) ==
    /\ \E j, k, m \in 0 .. dsend[c] :
        /\ Runs(fromDaemon, DownFrames(c), DownNum, k, m)
        /\ m + Sealed(c) = dsend[c]
        /\ Sealed(c) = 1 => out[sendMu].n = m
        /\ j <= k
        /\ cpc[c] # "closed" => Runs(down[c], DownFrames(c), DownNum, crecv[c], j)
        /\ writer = c \/ sub[c] = "none" => j = k
    /\ sub[c] = "none" \/ c \notin cfg.e2e => dsend[c] = 0

\* The requests of client c come to the daemon in order, and none that has
\* not come yet has run.
ReqInv(c) ==
    \E a, k \in 1 .. asked[c] + 1 :
        /\ Runs(toDaemon, ReqFrames(c), ReqNum, a, k)
        /\ sub[c] # "off" => Runs(up[c], ReqFrames(c), ReqNum, k, asked[c] + 1)
        /\ \A n \in a .. MaxReqs : via[<<c, n>>] = <<>>

\* Tool goroutines run for requests that were accepted; in required mode only
\* once there is a session, and what they seal is not in the clear.
WorkInv ==
    /\ \A r \in Reqs :
          /\ via[r] = <<>> => work[r] = "none"
          /\ work[r] = "send" => replies[r] < MaxReplies
          /\ work[r] # "none" /\ cfg.mode = "required" => session # Plain
    /\ sendMu # NoReq /\ cfg.mode = "required" => out[sendMu].sid # Plain

ChannelInv ==
    /\ TypeOK /\ WireInv /\ WorkInv /\ RequestIsAuthentic /\ NoPlaintextWhenRequired
    /\ \A c \in cfg.e2e : UpInv(c)
    /\ \A c \in Clients : DownInv(c) /\ ReqInv(c)
-----------------------------------------------------------------------------
(* Frames and wires *)

\* A frame has the fields it was made of.
LEMMA FrameForms ==
    ASSUME NEW t \in {"noise_init", "noise_resp", "error", "route"}, NEW sid \in Sids, NEW n \in Nat,
           NEW req \in Reqs \cup {NoReq}
    PROVE  /\ Frame(t, sid, n, req) \in Frames
           /\ Frame(t, sid, n, req).t = t /\ Frame(t, sid, n, req).sid = sid
           /\ Frame(t, sid, n, req).n = n /\ Frame(t, sid, n, req).req = req
BY DEF Frame, Frames

\* A request is a client and a number; no request is NoReq.
LEMMA RequestForms ==
    /\ NoReq \notin Reqs /\ Plain \notin Clients /\ Clients \subseteq Sids /\ Plain \in Sids
    /\ \A r \in Reqs : r[1] \in Clients /\ r[2] \in 1 .. MaxReqs /\ r = <<r[1], r[2]>>
    /\ \A c \in Clients, n \in 1 .. MaxReqs : <<c, n>> \in Reqs /\ <<c, n>>[1] = c /\ <<c, n>>[2] = n
BY ClientAssumption DEF Reqs, NoReq, Sids

\* What a configuration is.
LEMMA ConfigForms ==
    ASSUME cfg \in Configs
    PROVE  /\ cfg.mode \in {"disabled", "optional", "required"} /\ cfg.e2e \subseteq Clients
           /\ cfg.mode = "required" => cfg.allowed # {}
<1>1. cfg \in [mode : {"disabled", "optional", "required"}, allowed : SUBSET Clients, e2e : SUBSET Clients]
  BY ConfigAssumption
<1> QED
  BY <1>1, ConfigAssumption

\* Frames are numbered by natural numbers.
LEMMA NumTypes == UpNum \in [Frames -> Nat] /\ DownNum \in [Frames -> Nat] /\ ReqNum \in [Frames -> Nat]
<1>1. ASSUME NEW f \in Frames PROVE f.n \in Nat /\ f.n + 1 \in Nat /\ f.req[2] \in Nat
  <2>1. f.n \in Nat /\ f.req \in Reqs \cup {NoReq}
    BY DEF Frames
  <2>2. CASE f.req = NoReq
    BY <2>1, <2>2 DEF NoReq
  <2>3. CASE f.req \in Reqs
    BY <2>1, <2>3, RequestForms, BoundAssumption
  <2> QED BY <2>1, <2>2, <2>3
<1> QED
  BY <1>1 DEF UpNum, DownNum, ReqNum

\* The first frame of a wire and the rest.
LEMMA WireHead ==
    ASSUME NEW S, NEW q \in Seq(S), q # <<>>
    PROVE  Head(q) \in S /\ Tail(q) \in Seq(S)
OBVIOUS

\* A frame at the end of a wire.
LEMMA WireAppend ==
    ASSUME NEW S, NEW q \in Seq(S), NEW f \in S
    PROVE  Append(q, f) \in Seq(S)
OBVIOUS

\* The frame that a client's handler forwards was sent by that client.
LEMMA Forwarded ==
    ASSUME WireInv, NEW c \in Clients, up[c] # <<>>
    PROVE  Head(up[c]) \in Frames /\ Sends(c, Head(up[c]))
<1>1. Head(up[c]) \in Sent(c)
  BY WireHead DEF WireInv, ClientInv
<1> QED BY <1>1 DEF Sent

\* What the daemon receives was sent by a client whose handler has subscribed.
LEMMA Received ==
    ASSUME WireInv, toDaemon # <<>>
    PROVE  Head(toDaemon) \in Frames /\ \E c \in Clients : sub[c] # "none" /\ Sends(c, Head(toDaemon))
<1>1. Head(toDaemon) \in Carried
  BY WireHead DEF WireInv
<1> QED BY <1>1 DEF Carried

\* A NoiseInit comes from the client whose session it opens.
LEMMA ReceivedInit ==
    ASSUME TypeOK, WireInv, Receives("noise_init")
    PROVE  LET f == Head(toDaemon) IN
           f \in Frames /\ f.sid \in cfg.e2e /\ f.sid \in Clients /\ f.sid # Plain /\ sub[f.sid] # "none"
<1>1. Head(toDaemon) \in Frames /\ \E c \in Clients : sub[c] # "none" /\ Sends(c, Head(toDaemon))
  BY Received DEF Receives
<1>2. Head(toDaemon).t = "noise_init"
  BY DEF Receives
<1> QED
  BY <1>1, <1>2, RequestForms DEF Sends

\* A request that is accepted has not been before, and comes in the session of
\* its client.
LEMMA Accepted ==
    ASSUME ChannelInv, Accept
    PROVE  LET f == Head(toDaemon) IN
           /\ f \in Frames /\ f.t = "route" /\ f.req \in Reqs /\ f.sid = SidOf(f.req[1])
           /\ sub[f.req[1]] # "none"
           /\ via[f.req] = <<>> /\ work[f.req] = "none"
           /\ session = f.sid /\ (session # Plain => session = f.req[1] /\ f.n = drecv[session])
           /\ session = Plain => cfg.mode # "required"
<1> DEFINE f == Head(toDaemon)
<1>1. toDaemon # <<>> /\ f.t = "route" /\ unwrapRoute(f)
  BY DEF Accept, Receives
<1>2. TypeOK /\ WireInv /\ WorkInv
  BY DEF ChannelInv
<1>3. PICK c \in Clients : sub[c] # "none" /\ Sends(c, f)
  BY <1>1, <1>2, Received
<1>4. f \in Frames
  BY <1>1, <1>2, Received
<1>5. f.sid = SidOf(c) /\ f.req \in Reqs /\ f.req[1] = c
  BY <1>1, <1>3 DEF Sends
<1>6. f \in ReqFrames(c) /\ ReqNum[f] = f.req[2]
  BY <1>1, <1>4, <1>5 DEF ReqFrames, ReqNum
<1>7. via[f.req] = <<>>
  <2>1. PICK a \in 1 .. asked[c] + 1, k \in 1 .. asked[c] + 1 :
          /\ Runs(toDaemon, ReqFrames(c), ReqNum, a, k)
          /\ \A n \in a .. MaxReqs : via[<<c, n>>] = <<>>
    BY DEF ChannelInv, ReqInv
  <2>2. a \in Nat /\ k \in Nat /\ toDaemon \in Seq(Frames)
    <3>1. asked[c] \in Nat
      BY <1>2, BoundAssumption DEF TypeOK
    <3> QED
      BY <1>2, <2>1, <3>1 DEF TypeOK
  <2>3. ReqNum[f] = a
    <3>1. toDaemon # <<>> /\ Head(toDaemon) \in ReqFrames(c) /\ ReqNum \in [Frames -> Nat]
      BY <1>1, <1>6, NumTypes
    <3>2. Runs(toDaemon, ReqFrames(c), ReqNum, a, k)
      BY <2>1
    <3>3. ReqNum[Head(toDaemon)] = a
      BY <2>2, <3>1, <3>2, RunsHead, SMTT(40)
    <3> QED
      BY <3>3
  <2>4. f.req = <<c, a>> /\ a \in 1 .. MaxReqs
    BY <1>5, <1>6, <2>3, RequestForms
  <2>5. a \in a .. MaxReqs
    BY <2>4
  <2> QED
    BY <2>1, <2>4, <2>5
<1>8. work[f.req] = "none"
  BY <1>2, <1>5, <1>7 DEF WorkInv
<1>9. /\ session = f.sid /\ (session # Plain => f.n = drecv[session])
      /\ session = Plain => cfg.mode # "required"
  BY <1>1 DEF unwrapRoute
<1>10. session # Plain => session = c
  BY <1>5, <1>9 DEF SidOf
<1> QED
  BY <1>1, <1>3, <1>4, <1>5, <1>7, <1>8, <1>9, <1>10
-----------------------------------------------------------------------------
(* The invariant holds initially *)

\* Nothing has been sent.
LEMMA ChannelInvInit == Init => ChannelInv
<1> SUFFICES ASSUME Init PROVE ChannelInv
  OBVIOUS
<1>1. TypeOK
  <2>1. /\ NoFrame \in Frames /\ NoReq \notin Reqs /\ Plain \in Sids
        /\ 0 \in 0 .. MaxReqs /\ 0 \in 0 .. MaxReplies
    <3>1. "error" \in {"noise_init", "noise_resp", "error", "route"} /\ Plain \in Sids /\ 0 \in Nat
          /\ NoReq \in Reqs \cup {NoReq}
      BY RequestForms
    <3>2. NoFrame \in Frames
      BY <3>1, FrameForms DEF NoFrame
    <3> QED
      BY <3>2, RequestForms, BoundAssumption
  <2>2. <<>> \in Seq(Frames) /\ <<>> \in Seq(Sids)
    OBVIOUS
  <2>3. \A r \in Reqs : work[r] # "send" /\ sendMu # r
    BY <2>1 DEF Init
  <2> QED
    BY <2>1, <2>2, <2>3 DEF Init, TypeOK
<1>2. \A c \in Clients : /\ up[c] = <<>> /\ down[c] = <<>> /\ cpc[c] = "new" /\ sub[c] = "none"
                         /\ csend[c] = 0 /\ crecv[c] = 0 /\ asked[c] = 0 /\ dsend[c] = 0 /\ drecv[c] = 0
  BY DEF Init
<1>3. /\ toDaemon = <<>> /\ fromDaemon = <<>> /\ session = Plain /\ writer = Plain /\ sendMu = NoReq
      /\ Plain \notin Clients /\ 0 \in Nat /\ 1 \in Nat
  BY RequestForms DEF Init
<1>4. \A r \in Reqs : work[r] = "none" /\ via[r] = <<>>
  BY DEF Init
<1>5. WireInv
  <2>1. ASSUME NEW S PROVE <<>> \in Seq(S)
    OBVIOUS
  <2>2. \A c \in Clients : ClientInv(c)
    BY <1>2, <1>3, <2>1 DEF ClientInv
  <2> QED
    BY <1>3, <2>1, <2>2 DEF WireInv
<1>6. WorkInv
  BY <1>3, <1>4 DEF WorkInv
<1>7. RequestIsAuthentic
  BY <1>4 DEF RequestIsAuthentic
<1>8. NoPlaintextWhenRequired
  BY <1>3 DEF NoPlaintextWhenRequired
<1>9. ASSUME NEW c \in Clients PROVE UpInv(c)
  <2>1. UpSent(c) = 0 /\ 0 \in 0 .. 1 + csend[c] /\ session # c
    BY <1>2, <1>3, <1>9 DEF UpSent
  <2>2. Runs(toDaemon, UpFrames(c), UpNum, 0, 0) /\ Runs(up[c], UpFrames(c), UpNum, 0, UpSent(c))
    BY <1>2, <1>3, <2>1, RunsEmpty
  <2> QED
    BY <1>2, <2>1, <2>2 DEF UpInv
<1>10. ASSUME NEW c \in Clients PROVE DownInv(c)
  <2>1. Sealed(c) = 0 /\ 0 \in 0 .. dsend[c] /\ 0 + Sealed(c) = dsend[c] /\ crecv[c] = 0 /\ dsend[c] = 0
    BY <1>2, <1>3 DEF Sealed
  <2>2. /\ Runs(fromDaemon, DownFrames(c), DownNum, 0, 0)
        /\ Runs(down[c], DownFrames(c), DownNum, crecv[c], 0)
    BY <1>2, <1>3, RunsEmpty
  <2> QED
    BY <2>1, <2>2 DEF DownInv
<1>11. ASSUME NEW c \in Clients PROVE ReqInv(c)
  <2>1. 1 \in 1 .. asked[c] + 1 /\ asked[c] + 1 = 1
    BY <1>2
  <2>2. Runs(toDaemon, ReqFrames(c), ReqNum, 1, 1) /\ Runs(up[c], ReqFrames(c), ReqNum, 1, asked[c] + 1)
    BY <1>2, <1>3, <2>1, RunsEmpty
  <2>3. \A n \in 1 .. MaxReqs : via[<<c, n>>] = <<>>
    BY <1>4, RequestForms
  <2> QED
    BY <2>1, <2>2, <2>3 DEF ReqInv
<1>12. cfg.e2e \subseteq Clients
  BY <1>1, ConfigForms DEF TypeOK
<1> QED
  BY <1>1, <1>5, <1>6, <1>7, <1>8, <1>9, <1>10, <1>11, <1>12 DEF ChannelInv
-----------------------------------------------------------------------------
(* Every step preserves it *)

\* The frames that are made: a request, an answer to NoiseInit, a sealed reply.
LEMMA MadeFrames ==
    ASSUME TypeOK
    PROVE  /\ NoFrame \in Frames /\ Frame("noise_resp", session, 0, NoReq) \in Frames
           /\ \A sid \in Sids : Frame("error", sid, 0, NoReq) \in Frames
           /\ \A c \in Clients : Frame("noise_init", c, 0, NoReq) \in Frames
           /\ \A c \in Clients, n \in 1 .. MaxReqs :
                 Frame("route", SidOf(c), csend[c], <<c, n>>) \in Frames
           /\ \A r \in Reqs : Seal(r) \in Frames
<1>1. session \in Sids /\ (\A c \in Clients : csend[c] \in Nat /\ dsend[c] \in Nat)
  BY DEF TypeOK
<1>2. \A c \in Clients : SidOf(c) \in Sids
  BY RequestForms DEF SidOf
<1>3. session # Plain => session \in Clients
  BY <1>1 DEF Sids
<1>4. ASSUME NEW r \in Reqs PROVE Seal(r) \in Frames
  BY <1>1, <1>3, FrameForms DEF Seal
<1> QED
  BY <1>1, <1>2, <1>4, FrameForms, RequestForms DEF NoFrame

\* A type is kept.
LEMMA TypeStep == ChannelInv /\ [Next]_vars => TypeOK'
<1> SUFFICES ASSUME ChannelInv, [Next]_vars PROVE TypeOK'
  OBVIOUS
<1>t. TypeOK /\ WireInv /\ WorkInv
  BY DEF ChannelInv
<1>m. /\ MaxReqs \in Nat /\ MaxReplies \in Nat \ {0} /\ Plain \notin Clients /\ NoReq \notin Reqs
      /\ Plain \in Sids /\ Clients \subseteq Sids
  BY BoundAssumption, RequestForms
<1>1. ASSUME NEW c \in Clients, Connect(c) PROVE TypeOK'
  <2>1. Frame("noise_init", c, 0, NoReq) \in Frames /\ up \in [Clients -> Seq(Frames)]
    BY <1>t, MadeFrames DEF TypeOK
  <2>2. up' \in [Clients -> Seq(Frames)]
    <3>1. up' = up \/ up' = [up EXCEPT ![c] = Append(@, Frame("noise_init", c, 0, NoReq))]
      BY <1>1 DEF Connect
    <3>2. CASE up' = up
      BY <2>1, <3>2
    <3>3. CASE up' = [up EXCEPT ![c] = Append(@, Frame("noise_init", c, 0, NoReq))]
      BY <2>1, <3>3, WireAppend, ZenonT(60)
    <3> QED
      BY <3>1, <3>2, <3>3
  <2>3. cpc' \in [Clients -> {"new", "wait", "ready", "closed"}]
    BY <1>t, <1>1 DEF TypeOK, Connect
  <2> QED
    BY <1>t, <1>1, <2>2, <2>3 DEF TypeOK, Connect, gwVars, daemonVars
<1>2. ASSUME NEW c \in Clients, FinishHandshake(c) PROVE TypeOK'
  <2>1. down' \in [Clients -> Seq(Frames)]
    BY <1>t, <1>2, WireHead DEF TypeOK, FinishHandshake
  <2>2. cpc' \in [Clients -> {"new", "wait", "ready", "closed"}]
    BY <1>t, <1>2 DEF TypeOK, FinishHandshake
  <2> QED
    BY <1>t, <1>2, <2>1, <2>2 DEF TypeOK, FinishHandshake, gwVars, daemonVars
<1>3. ASSUME NEW c \in Clients, Request(c) PROVE TypeOK'
  <2>1. asked[c] \in 0 .. MaxReqs /\ asked[c] < MaxReqs /\ asked' = [asked EXCEPT ![c] = @ + 1]
    BY <1>t, <1>3 DEF TypeOK, Request
  <2>2. asked[c] + 1 \in 0 .. MaxReqs /\ asked[c] + 1 \in 1 .. MaxReqs
    BY <1>m, <2>1
  <2>3. asked' \in [Clients -> 0 .. MaxReqs] /\ asked'[c] = asked[c] + 1
    BY <1>t, <2>1, <2>2 DEF TypeOK
  <2>4. Frame("route", SidOf(c), csend[c], <<c, asked'[c]>>) \in Frames /\ up \in [Clients -> Seq(Frames)]
    BY <1>t, <2>2, <2>3, MadeFrames DEF TypeOK
  <2>5. up' = [up EXCEPT ![c] = Append(@, Frame("route", SidOf(c), csend[c], <<c, asked'[c]>>))]
    BY <1>3 DEF Request, SidOf
  <2>6. up' \in [Clients -> Seq(Frames)]
    BY <2>4, <2>5, WireAppend
  <2>7. csend' \in [Clients -> Nat]
    <3>1. csend \in [Clients -> Nat] /\ (csend' = csend \/ csend' = [csend EXCEPT ![c] = @ + 1])
      BY <1>t, <1>3 DEF TypeOK, Request
    <3> QED
      BY <3>1
  <2> QED
    BY <1>t, <1>3, <2>3, <2>6, <2>7 DEF TypeOK, Request, gwVars, daemonVars
<1>4. ASSUME NEW c \in Clients, Read(c) PROVE TypeOK'
  <2>1. down' \in [Clients -> Seq(Frames)]
    BY <1>t, <1>4, WireHead DEF TypeOK, Read
  <2>2. crecv' \in [Clients -> Nat]
    BY <1>t, <1>4, SMTT(40) DEF TypeOK, Read
  <2> QED
    BY <1>t, <1>4, <2>1, <2>2 DEF TypeOK, Read, gwVars, daemonVars
<1>5. ASSUME NEW c \in Clients, Close(c) PROVE TypeOK'
  <2>1. /\ down' \in [Clients -> Seq(Frames)]
        /\ cpc' \in [Clients -> {"new", "wait", "ready", "closed"}]
    BY <1>t, <1>5, SMTT(40) DEF TypeOK, Close
  <2> QED
    BY <1>t, <1>5, <2>1 DEF TypeOK, Close, gwVars, daemonVars
<1>6. ASSUME NEW c \in Clients, Subscribe(c) PROVE TypeOK'
  <2>1. sub' \in [Clients -> {"none", "on", "off"}] /\ writer' \in Sids
    BY <1>t, <1>m, <1>6 DEF TypeOK, Subscribe
  <2> QED
    BY <1>t, <1>6, <2>1 DEF TypeOK, Subscribe, clientVars, daemonVars
<1>7. ASSUME NEW c \in Clients, Forward(c) PROVE TypeOK'
  <2>1. Head(up[c]) \in Frames
    BY <1>t, <1>7, Forwarded DEF Forward
  <2>2. toDaemon' \in Seq(Frames)
    BY <1>t, <1>7, <2>1, WireAppend DEF TypeOK, Forward
  <2>3. up' \in [Clients -> Seq(Frames)]
    BY <1>t, <1>7, WireHead DEF TypeOK, Forward
  <2> QED
    BY <1>t, <1>7, <2>2, <2>3 DEF TypeOK, Forward, clientVars, gwVars, daemonVars
<1>8. ASSUME NEW c \in Clients, Unsubscribe(c) PROVE TypeOK'
  <2>1. /\ sub' \in [Clients -> {"none", "on", "off"}] /\ writer' \in Sids
        /\ up' \in [Clients -> Seq(Frames)]
    BY <1>t, <1>m, <1>8 DEF TypeOK, Unsubscribe
  <2> QED
    BY <1>t, <1>8, <2>1 DEF TypeOK, Unsubscribe, clientVars, daemonVars
<1>9. ASSUME Deliver PROVE TypeOK'
  <2>1. fromDaemon \in Seq(Frames) /\ fromDaemon # <<>> /\ down \in [Clients -> Seq(Frames)]
    BY <1>t, <1>9 DEF TypeOK, Deliver
  <2>2. Head(fromDaemon) \in Frames /\ fromDaemon' \in Seq(Frames)
    BY <1>9, <2>1, WireHead DEF Deliver
  <2>3. down' \in [Clients -> Seq(Frames)]
    BY <1>9, <2>1, <2>2, WireAppend DEF Deliver
  <2> QED
    BY <1>t, <1>9, <2>2, <2>3 DEF TypeOK, Deliver, clientVars, gwVars, daemonVars
<1>10. ASSUME NoiseRefuse PROVE TypeOK'
  <2>1. Head(toDaemon) \in Frames /\ toDaemon' \in Seq(Frames)
    BY <1>t, <1>10, WireHead DEF TypeOK, NoiseRefuse, Receives
  <2>2. Head(toDaemon).sid \in Sids
    BY <2>1 DEF Frames
  <2>3. fromDaemon' \in Seq(Frames)
    BY <1>t, <1>10, <2>2, MadeFrames, WireAppend DEF TypeOK, NoiseRefuse
  <2> QED
    BY <1>t, <1>10, <2>1, <2>3 DEF TypeOK, NoiseRefuse, clientVars, gwVars, daemonVars
<1>11. ASSUME NoiseInstall PROVE TypeOK'
  <2>1. Head(toDaemon) \in Frames /\ toDaemon' \in Seq(Frames)
    BY <1>t, <1>11, WireHead DEF TypeOK, NoiseInstall, Receives
  <2>2. session' \in Sids /\ dpc' = "resp"
    BY <1>11, <2>1 DEF Frames, NoiseInstall
  <2> QED
    BY <1>t, <1>11, <2>1, <2>2 DEF TypeOK, NoiseInstall, clientVars, gwVars
<1>12. ASSUME NoiseAnswer PROVE TypeOK'
  <2>1. fromDaemon' \in Seq(Frames) /\ dpc' = "recv"
    BY <1>t, <1>12, MadeFrames, WireAppend DEF TypeOK, NoiseAnswer
  <2> QED
    BY <1>t, <1>12, <2>1 DEF TypeOK, NoiseAnswer, clientVars, gwVars
<1>13. ASSUME Accept PROVE TypeOK'
  <2> DEFINE r == Head(toDaemon).req
  <2>1. r \in Reqs /\ work[r] = "none"
    BY <1>13, Accepted
  <2>2. /\ work' = [work EXCEPT ![r] = "run"] /\ via' = [via EXCEPT ![r] = Append(@, session)]
        /\ drecv' = IF session = Plain THEN drecv ELSE [drecv EXCEPT ![session] = @ + 1]
        /\ toDaemon # <<>> /\ toDaemon' = Tail(toDaemon)
    BY <1>13 DEF Accept, Receives
  <2> HIDE DEF r
  <2>3. toDaemon' \in Seq(Frames)
    BY <1>t, <2>2, WireHead DEF TypeOK
  <2>4. work' \in [Reqs -> {"none", "run", "send", "done"}]
    BY <1>t, <2>2 DEF TypeOK
  <2>5. via' \in [Reqs -> Seq(Sids)]
    BY <1>t, <2>1, <2>2, WireAppend DEF TypeOK
  <2>6. drecv' \in [Clients -> Nat]
    <3>1. drecv \in [Clients -> Nat] /\ (session = Plain \/ session \in Clients)
      BY <1>t DEF TypeOK, Sids
    <3> QED
      BY <2>2, <3>1
  <2>7. \A s \in Reqs : (work'[s] = "send") <=> (sendMu = s)
    <3>1. \A s \in Reqs : (work[s] = "send") <=> (sendMu = s)
      BY <1>t DEF TypeOK
    <3>2. \A s \in Reqs : s # r => work'[s] = work[s]
      BY <1>t, <2>2 DEF TypeOK
    <3>3. work'[r] = "run" /\ sendMu # r
      BY <1>t, <2>1, <2>2, <3>1 DEF TypeOK
    <3> QED
      BY <3>1, <3>2, <3>3
  <2>8. UNCHANGED <<cfg, clientVars, gwVars, up, fromDaemon, down, dpc, session, dsend, sendMu, out, replies>>
    BY <1>13 DEF Accept
  <2> QED
    BY <1>t, <2>3, <2>4, <2>5, <2>6, <2>7, <2>8 DEF TypeOK, clientVars, gwVars
<1>14. ASSUME Skip PROVE TypeOK'
  <2>1. toDaemon' \in Seq(Frames)
    BY <1>t, <1>14, WireHead DEF TypeOK, Skip, Receives
  <2> QED
    BY <1>t, <1>14, <2>1 DEF TypeOK, Skip, clientVars, gwVars, daemonVars
<1>15. ASSUME NEW r \in Reqs, Encrypt(r) PROVE TypeOK'
  <2>1. /\ out' = [out EXCEPT ![r] = Seal(r)] /\ work' = [work EXCEPT ![r] = "send"]
        /\ sendMu = NoReq /\ sendMu' = r
        /\ dsend' = IF session = Plain THEN dsend ELSE [dsend EXCEPT ![session] = @ + 1]
    BY <1>15 DEF Encrypt
  <2>2. out' \in [Reqs -> Frames]
    BY <1>t, <2>1, MadeFrames DEF TypeOK
  <2>3. dsend' \in [Clients -> Nat]
    <3>1. dsend \in [Clients -> Nat] /\ (session = Plain \/ session \in Clients)
      BY <1>t DEF TypeOK, Sids
    <3> QED
      BY <2>1, <3>1
  <2>4. work' \in [Reqs -> {"none", "run", "send", "done"}] /\ sendMu' \in Reqs \cup {NoReq}
    BY <1>t, <2>1 DEF TypeOK
  <2>5. \A s \in Reqs : (work'[s] = "send") <=> (sendMu' = s)
    BY <1>t, <1>m, <2>1 DEF TypeOK
  <2>6. UNCHANGED <<cfg, clientVars, gwVars, up, toDaemon, fromDaemon, down, dpc, session, drecv, replies, via>>
    BY <1>15 DEF Encrypt
  <2> QED
    BY <1>t, <2>2, <2>3, <2>4, <2>5, <2>6 DEF TypeOK, clientVars, gwVars
<1>16. ASSUME NEW r \in Reqs, Transmit(r) PROVE TypeOK'
  <2>1. /\ work[r] = "send" /\ sendMu' = NoReq /\ fromDaemon' = Append(fromDaemon, out[r])
        /\ out' = [out EXCEPT ![r] = NoFrame] /\ replies' = [replies EXCEPT ![r] = @ + 1]
    BY <1>16 DEF Transmit
  <2>2. PICK next \in {"run", "done"} : work' = [work EXCEPT ![r] = next]
    BY <1>16 DEF Transmit
  <2>3. out[r] \in Frames /\ out' \in [Reqs -> Frames]
    BY <1>t, <2>1, MadeFrames DEF TypeOK
  <2>4. fromDaemon' \in Seq(Frames)
    BY <1>t, <2>1, <2>3, WireAppend DEF TypeOK
  <2>5. replies[r] \in 0 .. MaxReplies /\ replies[r] < MaxReplies
    BY <1>t, <2>1 DEF TypeOK, WorkInv
  <2>6. replies[r] + 1 \in 0 .. MaxReplies
    BY <1>m, <2>5
  <2>7. replies' \in [Reqs -> 0 .. MaxReplies]
    BY <1>t, <2>1, <2>6 DEF TypeOK
  <2>8. work' \in [Reqs -> {"none", "run", "send", "done"}] /\ sendMu' \in Reqs \cup {NoReq}
    BY <1>t, <2>1, <2>2 DEF TypeOK
  <2>9. \A s \in Reqs : (work'[s] = "send") <=> (sendMu' = s)
    <3>1. \A s \in Reqs : s # r => work'[s] = work[s] /\ work[s] # "send"
      BY <1>t, <2>1, <2>2 DEF TypeOK
    <3>2. work'[r] # "send"
      BY <1>t, <2>2 DEF TypeOK
    <3> QED
      BY <1>m, <2>1, <3>1, <3>2
  <2>10. UNCHANGED <<cfg, clientVars, gwVars, up, toDaemon, down, dpc, session, dsend, drecv, via>>
    BY <1>16 DEF Transmit
  <2> QED
    BY <1>t, <2>3, <2>4, <2>7, <2>8, <2>9, <2>10 DEF TypeOK, clientVars, gwVars
<1>17. CASE UNCHANGED vars
  BY <1>t, <1>17 DEF TypeOK, vars, clientVars, gwVars, daemonVars
<1> QED
  BY <1>1, <1>2, <1>3, <1>4, <1>5, <1>6, <1>7, <1>8, <1>9, <1>10, <1>11, <1>12, <1>13, <1>14, <1>15,
     <1>16, <1>17 DEF Next

\* The configuration is fixed, and a handler that has subscribed has.
LEMMA Fixed ==
    ASSUME TypeOK, [Next]_vars
    PROVE  /\ cfg' = cfg
           /\ \A c \in Clients : sub[c] # "none" => sub'[c] # "none"
<1>1. cfg' = cfg /\ \/ sub' = sub
                    \/ \E c \in Clients, s \in {"on", "off"} : sub' = [sub EXCEPT ![c] = s]
  BY DEF Next, Connect, FinishHandshake, Request, Read, Close, Subscribe, Forward, Unsubscribe, Deliver,
         NoiseRefuse, NoiseInstall, NoiseAnswer, Accept, Skip, Encrypt, Transmit, vars, gwVars
<1>2. sub \in [Clients -> {"none", "on", "off"}]
  BY DEF TypeOK
<1> QED
  BY <1>1, <1>2

\* What the frames of a client are does not change.
LEMMA SameFrames ==
    ASSUME TypeOK, [Next]_vars
    PROVE  /\ \A c \in Clients : SidOf(c)' = SidOf(c) /\ Sent(c)' = Sent(c)
           /\ Carried \subseteq Carried'
           /\ \A c \in Clients : peerAllowed(c)' = peerAllowed(c)
<1>1. cfg' = cfg /\ \A c \in Clients : sub[c] # "none" => sub'[c] # "none"
  BY Fixed
<1>2. \A c \in Clients : SidOf(c)' = SidOf(c) /\ peerAllowed(c)' = peerAllowed(c)
  BY <1>1 DEF SidOf, peerAllowed
<1>3. \A c \in Clients, f \in Frames : Sends(c, f)' = Sends(c, f)
  BY <1>1, <1>2 DEF Sends
<1> QED
  BY <1>1, <1>2, <1>3 DEF Sent, Carried

\* A client's wire is as it was.
LEMMA ClientKept ==
    ASSUME TypeOK, [Next]_vars, NEW c \in Clients, ClientInv(c),
           up'[c] = up[c], sub'[c] = sub[c], csend'[c] = csend[c], asked'[c] = asked[c],
           cpc'[c] = cpc[c] \/ (cpc[c] # "new" /\ cpc'[c] = "closed")
                            \/ (cpc[c] = "wait" /\ cpc'[c] = "ready"),
           writer' = c => writer = c
    PROVE  ClientInv(c)'
BY SameFrames DEF ClientInv

\* What reaches the daemon.
LEMMA WireStep == ChannelInv /\ [Next]_vars => WireInv'
<1> SUFFICES ASSUME ChannelInv, [Next]_vars PROVE WireInv'
  OBVIOUS
<1>t. TypeOK /\ WireInv
  BY DEF ChannelInv
<1>f. /\ \A c \in Clients : SidOf(c)' = SidOf(c) /\ Sent(c)' = Sent(c) /\ peerAllowed(c)' = peerAllowed(c)
      /\ Carried \subseteq Carried' /\ cfg' = cfg
      /\ \A c \in Clients : sub[c] # "none" => sub'[c] # "none"
  BY <1>t, Fixed, SameFrames
<1>w. \A c \in Clients : ClientInv(c)
  BY <1>t DEF WireInv
<1>d. toDaemon \in Seq(Carried) /\ toDaemon \in Seq(Carried')
  BY <1>t, <1>f, SeqWider DEF WireInv
<1>e. session' = session => (session' # Plain => session' \in cfg'.e2e /\ sub'[session'] # "none"
                             /\ cfg'.mode # "disabled" /\ peerAllowed(session)')
  <2>1. session # Plain => session \in Clients
    BY <1>t DEF TypeOK, Sids
  <2> QED
    BY <1>t, <1>f, <2>1 DEF WireInv
<1>k. ASSUME UNCHANGED <<up, sub, csend, asked, cpc, writer, session>>, toDaemon' \in Seq(Carried')
      PROVE  WireInv'
  <2>1. \A c \in Clients : ClientInv(c)'
    BY <1>t, <1>w, <1>k, ClientKept
  <2> QED
    BY <1>k, <1>e, <2>1 DEF WireInv
<1>1. ASSUME NEW c \in Clients, Connect(c) PROVE WireInv'
  <2>1. /\ cpc[c] = "new" /\ UNCHANGED <<csend, asked, sub, writer, toDaemon, session>>
        /\ cpc' = [cpc EXCEPT ![c] = cpc'[c]] /\ cpc'[c] \in {"wait", "ready"}
    BY <1>t, <1>1 DEF TypeOK, Connect, gwVars, daemonVars
  <2>2. \/ up' = [up EXCEPT ![c] = Append(@, Frame("noise_init", c, 0, NoReq))] /\ c \in cfg.e2e
        \/ up' = up
    BY <1>1 DEF Connect
  <2>3. c \in cfg.e2e => Frame("noise_init", c, 0, NoReq) \in Sent(c)
    BY <1>t, FrameForms, RequestForms, MadeFrames DEF Sent, Sends
  <2>4. up[c] \in Seq(Sent(c)) /\ sub[c] = "none" /\ writer # c
    BY <1>w, <2>1 DEF ClientInv
  <2>5. up'[c] \in Seq(Sent(c))
    <3>1. c \in cfg.e2e => Append(up[c], Frame("noise_init", c, 0, NoReq)) \in Seq(Sent(c))
      BY <2>3, <2>4, WireAppend
    <3>2. \/ up'[c] = Append(up[c], Frame("noise_init", c, 0, NoReq)) /\ c \in cfg.e2e
          \/ up'[c] = up[c]
      BY <1>t, <2>2 DEF TypeOK
    <3> QED
      BY <2>4, <3>1, <3>2
  <2>6. ClientInv(c)'
    BY <1>f, <2>1, <2>4, <2>5 DEF ClientInv
  <2>7. ASSUME NEW d \in Clients, d # c PROVE ClientInv(d)'
    <3>1. up'[d] = up[d] /\ cpc'[d] = cpc[d]
      BY <1>t, <2>1, <2>2, <2>7 DEF TypeOK
    <3> QED
      BY <1>t, <1>w, <2>1, <3>1, ClientKept
  <2> QED
    BY <1>d, <1>e, <2>1, <2>6, <2>7 DEF WireInv
<1>2. ASSUME NEW c \in Clients, FinishHandshake(c) \/ Close(c) PROVE WireInv'
  <2>1. /\ UNCHANGED <<up, sub, csend, asked, writer, toDaemon, session>>
        /\ \A d \in Clients : d # c => cpc'[d] = cpc[d]
        /\ cpc[c] \in {"wait", "ready"} /\ (cpc'[c] = "closed" \/ (cpc[c] = "wait" /\ cpc'[c] = "ready"))
    BY <1>t, <1>2 DEF TypeOK, FinishHandshake, Close, gwVars, daemonVars
  <2>2. \A d \in Clients : ClientInv(d)'
    BY <1>t, <1>w, <2>1, ClientKept
  <2> QED
    BY <1>d, <1>e, <2>1, <2>2 DEF WireInv
<1>3. ASSUME NEW c \in Clients, Request(c) PROVE WireInv'
  <2> DEFINE f == Frame("route", SidOf(c), csend[c], <<c, asked'[c]>>)
  <2>1. /\ cpc[c] = "ready" /\ UNCHANGED <<cpc, sub, writer, toDaemon, session>>
        /\ asked[c] < MaxReqs /\ asked' = [asked EXCEPT ![c] = @ + 1]
        /\ up' = [up EXCEPT ![c] = Append(@, f)]
        /\ csend' = csend \/ csend' = [csend EXCEPT ![c] = @ + 1]
    BY <1>3 DEF Request, gwVars, daemonVars, SidOf
  <2>2. asked'[c] \in 1 .. MaxReqs
    <3>1. asked[c] \in 0 .. MaxReqs /\ asked'[c] = asked[c] + 1
      BY <1>t, <2>1 DEF TypeOK
    <3> QED
      BY <2>1, <3>1, BoundAssumption
  <2>3. f \in Sent(c)
    <3>1. f \in Frames
      BY <1>t, <2>2, MadeFrames
    <3>2. f.t = "route" /\ f.sid = SidOf(c) /\ f.req = <<c, asked'[c]>>
      BY DEF Frame
    <3> QED
      BY <2>2, <3>1, <3>2, RequestForms DEF Sent, Sends
  <2> HIDE DEF f
  <2>4. up[c] \in Seq(Sent(c)) /\ sub[c] # "off" /\ (writer = c => sub[c] = "on")
    BY <1>w, <2>1 DEF ClientInv
  <2>5. up'[c] \in Seq(Sent(c))
    BY <1>t, <2>1, <2>3, <2>4, WireAppend DEF TypeOK
  <2>6. ClientInv(c)'
    BY <1>f, <2>1, <2>4, <2>5 DEF ClientInv
  <2>7. ASSUME NEW d \in Clients, d # c PROVE ClientInv(d)'
    <3>1. up'[d] = up[d] /\ asked'[d] = asked[d] /\ csend'[d] = csend[d]
      BY <1>t, <2>1, <2>7 DEF TypeOK
    <3> QED
      BY <1>t, <1>w, <2>1, <3>1, ClientKept
  <2> QED
    BY <1>d, <1>e, <2>1, <2>6, <2>7 DEF WireInv
<1>4. ASSUME NEW c \in Clients, Subscribe(c) PROVE WireInv'
  <2>1. /\ cpc[c] # "new" /\ UNCHANGED <<up, csend, asked, cpc, toDaemon, session>>
        /\ sub'[c] = "on" /\ writer' = c /\ \A d \in Clients : d # c => sub'[d] = sub[d]
    BY <1>t, <1>4 DEF TypeOK, Subscribe, clientVars, daemonVars
  <2>2. ClientInv(c)'
    BY <1>f, <1>w, <2>1 DEF ClientInv
  <2>3. \A d \in Clients : d # c => ClientInv(d)'
    BY <1>t, <1>w, <2>1, ClientKept
  <2> QED
    BY <1>d, <1>e, <2>1, <2>2, <2>3 DEF WireInv
<1>5. ASSUME NEW c \in Clients, Forward(c) PROVE WireInv'
  <2>1. /\ sub[c] = "on" /\ up[c] # <<>> /\ UNCHANGED <<csend, asked, cpc, sub, writer, session>>
        /\ toDaemon' = Append(toDaemon, Head(up[c])) /\ up'[c] = Tail(up[c])
        /\ \A d \in Clients : d # c => up'[d] = up[d]
    BY <1>t, <1>5 DEF TypeOK, Forward, clientVars, gwVars, daemonVars
  <2>2. Head(up[c]) \in Carried' /\ Tail(up[c]) \in Seq(Sent(c))
    <3>1. Head(up[c]) \in Sent(c) /\ Tail(up[c]) \in Seq(Sent(c))
      BY <1>w, <2>1, WireHead DEF ClientInv
    <3>2. Head(up[c]) \in Carried
      BY <2>1, <3>1 DEF Sent, Carried
    <3> QED
      BY <1>f, <3>1, <3>2
  <2>3. toDaemon' \in Seq(Carried')
    BY <1>d, <2>1, <2>2, WireAppend
  <2>4. ClientInv(c)'
    BY <1>f, <1>w, <2>1, <2>2 DEF ClientInv
  <2>5. \A d \in Clients : d # c => ClientInv(d)'
    BY <1>t, <1>w, <2>1, ClientKept
  <2> QED
    BY <1>e, <2>1, <2>3, <2>4, <2>5 DEF WireInv
<1>6. ASSUME NEW c \in Clients, Unsubscribe(c) PROVE WireInv'
  <2>1. /\ cpc[c] = "closed" /\ UNCHANGED <<csend, asked, cpc, toDaemon, session>>
        /\ sub'[c] = "off" /\ writer' = Plain /\ up'[c] = <<>>
        /\ \A d \in Clients : d # c => sub'[d] = sub[d] /\ up'[d] = up[d]
    BY <1>t, <1>6 DEF TypeOK, Unsubscribe, clientVars, daemonVars
  <2>2. <<>> \in Seq(Sent(c))
    OBVIOUS
  <2>3. ClientInv(c)'
    BY <1>f, <2>1, <2>2, RequestForms DEF ClientInv
  <2>4. \A d \in Clients : d # c => ClientInv(d)'
    BY <1>t, <1>w, <2>1, RequestForms, ClientKept
  <2> QED
    BY <1>d, <1>e, <2>1, <2>3, <2>4 DEF WireInv
<1>7. CASE NoiseRefuse \/ Accept \/ Skip
  <2>1. /\ UNCHANGED <<up, sub, csend, asked, cpc, writer, session>>
        /\ toDaemon # <<>> /\ toDaemon' = Tail(toDaemon)
    BY <1>7 DEF NoiseRefuse, Accept, Skip, Receives, clientVars, gwVars, daemonVars
  <2> QED
    BY <1>d, <1>k, <2>1, WireHead
<1>8. CASE NoiseInstall
  <2>1. /\ UNCHANGED <<up, sub, csend, asked, cpc, writer>>
        /\ toDaemon # <<>> /\ toDaemon' = Tail(toDaemon) /\ session' = Head(toDaemon).sid
        /\ cfg.mode # "disabled" /\ peerAllowed(session') /\ Receives("noise_init")
    BY <1>8 DEF NoiseInstall, Receives, clientVars, gwVars
  <2>2. session' \in cfg.e2e /\ session' \in Clients /\ sub[session'] # "none"
    BY <1>t, <2>1, ReceivedInit
  <2>3. \A c \in Clients : ClientInv(c)'
    BY <1>t, <1>w, <2>1, ClientKept
  <2>4. peerAllowed(session)'
    BY <1>f, <2>1 DEF peerAllowed
  <2> QED
    BY <1>d, <1>f, <2>1, <2>2, <2>3, <2>4, WireHead DEF WireInv
<1>9. ASSUME (\E c \in Clients : Read(c)) \/ Deliver \/ NoiseAnswer
             \/ (\E r \in Reqs : Encrypt(r) \/ Transmit(r)) \/ UNCHANGED vars
      PROVE  WireInv'
  <2>1. UNCHANGED <<up, sub, csend, asked, cpc, writer, session, toDaemon>>
    BY <1>9 DEF Read, Deliver, NoiseAnswer, Encrypt, Transmit, vars, clientVars, gwVars, daemonVars
  <2> QED
    BY <1>d, <1>k, <2>1
<1> QED
  BY <1>1, <1>2, <1>3, <1>4, <1>5, <1>6, <1>7, <1>8, <1>9 DEF Next

\* Goroutines run for accepted requests.
LEMMA WorkStep == ChannelInv /\ [Next]_vars => WorkInv'
<1> SUFFICES ASSUME ChannelInv, [Next]_vars PROVE WorkInv'
  OBVIOUS
<1>t. TypeOK /\ WorkInv /\ cfg' = cfg
  BY Fixed DEF ChannelInv
<1>1. CASE Accept
  <2> DEFINE r == Head(toDaemon).req
  <2>1. r \in Reqs /\ via[r] = <<>> /\ work[r] = "none" /\ (session = Plain => cfg.mode # "required")
    BY <1>1, Accepted
  <2>2. /\ work' = [work EXCEPT ![r] = "run"] /\ via' = [via EXCEPT ![r] = Append(@, session)]
        /\ UNCHANGED <<replies, session, sendMu, out>>
    BY <1>1 DEF Accept
  <2> HIDE DEF r
  <2>3. work'[r] = "run" /\ via'[r] # <<>>
    <3>1. via[r] \in Seq(Sids) /\ via'[r] = Append(via[r], session)
      BY <1>t, <2>1, <2>2 DEF TypeOK
    <3>2. Append(via[r], session) # <<>>
      BY <3>1
    <3> QED
      BY <1>t, <2>1, <2>2, <3>1, <3>2 DEF TypeOK
  <2>4. \A s \in Reqs : s # r => work'[s] = work[s] /\ via'[s] = via[s]
    BY <1>t, <2>2 DEF TypeOK
  <2> QED
    BY <1>t, <2>1, <2>2, <2>3, <2>4 DEF WorkInv
<1>2. ASSUME NEW r \in Reqs, Encrypt(r) PROVE WorkInv'
  <2>1. /\ work[r] = "run" /\ replies[r] < MaxReplies /\ sendMu' = r
        /\ out' = [out EXCEPT ![r] = Seal(r)] /\ work' = [work EXCEPT ![r] = "send"]
        /\ UNCHANGED <<replies, session, via>>
    BY <1>2 DEF Encrypt
  <2>2. out'[r].sid = session
    BY <1>t, <2>1 DEF TypeOK, Seal, Frame
  <2>3. work'[r] = "send" /\ \A s \in Reqs : s # r => work'[s] = work[s]
    BY <1>t, <2>1 DEF TypeOK
  <2> QED
    BY <1>t, <2>1, <2>2, <2>3 DEF WorkInv
<1>3. ASSUME NEW r \in Reqs, Transmit(r) PROVE WorkInv'
  <2>1. /\ work[r] = "send" /\ sendMu' = NoReq /\ replies' = [replies EXCEPT ![r] = @ + 1]
        /\ UNCHANGED <<session, via>>
    BY <1>3 DEF Transmit
  <2>2. PICK next \in {"run", "done"} : work' = [work EXCEPT ![r] = next]
    BY <1>3 DEF Transmit
  <2>3. work'[r] # "send" /\ \A s \in Reqs : s # r => work'[s] = work[s] /\ replies'[s] = replies[s]
    BY <1>t, <2>1, <2>2 DEF TypeOK
  <2> QED
    BY <1>t, <2>1, <2>3 DEF WorkInv
<1>4. CASE NoiseInstall
  <2>1. UNCHANGED <<work, via, replies, sendMu, out>> /\ session' # Plain
    BY <1>4, <1>t, ReceivedInit DEF NoiseInstall, ChannelInv
  <2> QED
    BY <1>t, <2>1 DEF WorkInv
<1>5. ASSUME UNCHANGED <<work, via, replies, sendMu, out, session>> PROVE WorkInv'
  BY <1>t, <1>5 DEF WorkInv
<1> QED
  BY <1>1, <1>2, <1>3, <1>4, <1>5 DEF Next, Connect, FinishHandshake, Request, Read, Close, Subscribe,
     Forward, Unsubscribe, Deliver, NoiseRefuse, NoiseAnswer, Skip, vars, daemonVars

\* A request runs once, in its client's session.
LEMMA AuthenticStep == ChannelInv /\ [Next]_vars => RequestIsAuthentic'
<1> SUFFICES ASSUME ChannelInv, [Next]_vars PROVE RequestIsAuthentic'
  OBVIOUS
<1>t. TypeOK /\ WireInv /\ RequestIsAuthentic /\ cfg' = cfg
  BY Fixed DEF ChannelInv
<1>1. CASE Accept
  <2> DEFINE r == Head(toDaemon).req
  <2>1. /\ r \in Reqs /\ via[r] = <<>> /\ session = SidOf(r[1])
        /\ session = Plain => cfg.mode # "required"
    BY <1>1, Accepted
  <2>2. via' = [via EXCEPT ![r] = Append(@, session)]
    BY <1>1 DEF Accept
  <2> HIDE DEF r
  <2>3. via'[r] = <<session>>
    BY <1>t, <2>1, <2>2 DEF TypeOK
  <2>4. cfg.mode = "required" => session # Plain /\ session \in cfg.allowed
    <3>1. session # Plain => peerAllowed(session)
      BY <1>t DEF WireInv
    <3>2. cfg.mode = "required" => cfg.allowed # {}
      BY <1>t, ConfigForms DEF TypeOK
    <3> QED
      BY <2>1, <3>1, <3>2 DEF peerAllowed
  <2>5. Len(<<session>>) = 1 /\ (\A i \in DOMAIN <<session>> : <<session>>[i] = session)
    OBVIOUS
  <2>6. session = IF r[1] \in cfg.e2e THEN r[1] ELSE Plain
    BY <2>1 DEF SidOf
  <2>7. /\ Len(via'[r]) <= 1
        /\ \A i \in DOMAIN via'[r] :
              /\ via'[r][i] = IF r[1] \in cfg'.e2e THEN r[1] ELSE Plain
              /\ cfg'.mode = "required" => via'[r][i] # Plain /\ via'[r][i] \in cfg'.allowed
    BY <1>t, <2>3, <2>4, <2>5, <2>6
  <2>8. \A s \in Reqs : s # r => via'[s] = via[s]
    BY <1>t, <2>2 DEF TypeOK
  <2> QED
    BY <1>t, <2>7, <2>8 DEF RequestIsAuthentic
<1>2. ASSUME UNCHANGED via PROVE RequestIsAuthentic'
  BY <1>t, <1>2 DEF RequestIsAuthentic
<1> QED
  BY <1>1, <1>2 DEF Next, Connect, FinishHandshake, Request, Read, Close, Subscribe, Forward, Unsubscribe,
     Deliver, NoiseRefuse, NoiseInstall, NoiseAnswer, Skip, Encrypt, Transmit, vars, daemonVars

\* A frame at the end of the wire to the gateway that is no plaintext.
LEMMA SentInTheClear ==
    ASSUME TypeOK, NoPlaintextWhenRequired, cfg' = cfg, NEW f \in Frames,
           fromDaemon' = Append(fromDaemon, f),
           cfg.mode = "required" => ~(f.t = "route" /\ f.sid = Plain)
    PROVE  NoPlaintextWhenRequired'
<1>1. fromDaemon \in Seq(Frames)
  BY DEF TypeOK
<1>2. \A i \in DOMAIN fromDaemon' : \/ i \in DOMAIN fromDaemon /\ fromDaemon'[i] = fromDaemon[i]
                                    \/ fromDaemon'[i] = f
  BY <1>1
<1> QED
  BY <1>2 DEF NoPlaintextWhenRequired

\* Nothing leaves the daemon in the clear when e2e is required.
LEMMA NoPlaintextStep == ChannelInv /\ [Next]_vars => NoPlaintextWhenRequired'
<1> SUFFICES ASSUME ChannelInv, [Next]_vars PROVE NoPlaintextWhenRequired'
  OBVIOUS
<1>t. TypeOK /\ WorkInv /\ NoPlaintextWhenRequired /\ cfg' = cfg
  BY Fixed DEF ChannelInv
<1>1. CASE Deliver
  <2>1. fromDaemon \in Seq(Frames) /\ fromDaemon # <<>> /\ fromDaemon' = Tail(fromDaemon)
    BY <1>t, <1>1 DEF TypeOK, Deliver
  <2>2. \A i \in DOMAIN fromDaemon' : i + 1 \in DOMAIN fromDaemon /\ fromDaemon'[i] = fromDaemon[i + 1]
    BY <2>1
  <2> QED
    BY <1>t, <2>2 DEF NoPlaintextWhenRequired
<1>2. CASE NoiseRefuse
  <2>1. Head(toDaemon).sid \in Sids
    <3>1. Head(toDaemon) \in Frames
      BY <1>t, <1>2, WireHead DEF TypeOK, NoiseRefuse, Receives
    <3> QED
      BY <3>1 DEF Frames
  <2>2. Frame("error", Head(toDaemon).sid, 0, NoReq) \in Frames
    BY <1>t, <2>1, MadeFrames
  <2> QED
    BY <1>t, <1>2, <2>2, SentInTheClear DEF NoiseRefuse, Frame
<1>3. CASE NoiseAnswer
  BY <1>t, <1>3, MadeFrames, SentInTheClear DEF NoiseAnswer, Frame
<1>4. ASSUME NEW r \in Reqs, Transmit(r) PROVE NoPlaintextWhenRequired'
  <2>1. sendMu = r /\ out[r] \in Frames /\ r # NoReq
    BY <1>t, <1>4, RequestForms DEF TypeOK, Transmit
  <2>2. cfg.mode = "required" => out[r].sid # Plain
    BY <1>t, <2>1 DEF WorkInv
  <2> QED
    BY <1>t, <1>4, <2>1, <2>2, SentInTheClear DEF Transmit
<1>5. ASSUME UNCHANGED fromDaemon PROVE NoPlaintextWhenRequired'
  BY <1>t, <1>5 DEF NoPlaintextWhenRequired
<1> QED
  BY <1>1, <1>2, <1>3, <1>4, <1>5 DEF Next, Connect, FinishHandshake, Request, Read, Close, Subscribe,
     Forward, Unsubscribe, NoiseInstall, Accept, Skip, Encrypt, vars, daemonVars

\* What the invariants say of session c is untouched when the wires to the
\* daemon are, or c's handler is gone.
LEMMA UpKept ==
    ASSUME NEW c \in Clients, UpInv(c), toDaemon' = toDaemon, csend'[c] = csend[c],
           sub'[c] # "off" => sub[c] # "off" /\ up'[c] = up[c] /\ (cpc'[c] = "new") = (cpc[c] = "new"),
           drecv'[c] = drecv[c], session' = session
    PROVE  UpInv(c)'
<1>1. sub'[c] # "off" => UpSent(c)' = UpSent(c)
  BY DEF UpSent
<1> QED
  BY <1>1 DEF UpInv

\* The frames of session c follow each other towards the daemon.
LEMMA UpStep ==
    ASSUME ChannelInv, [Next]_vars, NEW c \in cfg.e2e
    PROVE  UpInv(c)'
<1>t. TypeOK /\ WireInv /\ UpInv(c) /\ c \in Clients /\ c # Plain /\ ClientInv(c) /\ cfg' = cfg
  <2>1. TypeOK /\ WireInv /\ UpInv(c)
    BY DEF ChannelInv
  <2>2. c \in Clients /\ c # Plain
    BY <2>1, ConfigForms, RequestForms DEF TypeOK
  <2> QED
    BY <2>1, <2>2, Fixed DEF WireInv
<1>y. /\ toDaemon \in Seq(Frames) /\ up[c] \in Seq(Frames) /\ csend[c] \in Nat /\ drecv[c] \in Nat
      /\ UpNum \in [Frames -> Nat] /\ UpSent(c) \in Nat
  BY <1>t, NumTypes DEF TypeOK, UpSent
<1>b. PICK b \in 0 .. 1 + csend[c], k \in 0 .. 1 + csend[c] :
        /\ Runs(toDaemon, UpFrames(c), UpNum, b, k)
        /\ sub[c] # "off" => Runs(up[c], UpFrames(c), UpNum, k, UpSent(c))
        /\ b = 0 => drecv[c] = 0 /\ session # c
        /\ session = c => b = 1 + drecv[c]
  BY <1>t DEF UpInv
<1>n. b \in Nat /\ k \in Nat
  BY <1>y, <1>b
<1>h. toDaemon # <<>> =>
        /\ Head(toDaemon) \in UpFrames(c) =>
              /\ UpNum[Head(toDaemon)] = b /\ b + 1 \in 0 .. 1 + csend[c]
              /\ Runs(Tail(toDaemon), UpFrames(c), UpNum, b + 1, k)
        /\ Head(toDaemon) \notin UpFrames(c) => Runs(Tail(toDaemon), UpFrames(c), UpNum, b, k)
  <2>1. ASSUME toDaemon # <<>>, Head(toDaemon) \in UpFrames(c)
        PROVE  UpNum[Head(toDaemon)] = b /\ b < k /\ Runs(Tail(toDaemon), UpFrames(c), UpNum, b + 1, k)
    BY <1>y, <1>b, <1>n, <2>1, RunsHead
  <2>2. ASSUME toDaemon # <<>>, Head(toDaemon) \notin UpFrames(c)
        PROVE  Runs(Tail(toDaemon), UpFrames(c), UpNum, b, k)
    BY <1>y, <1>b, <1>n, <2>2, RunsTail
  <2>3. b < k => b + 1 \in 0 .. 1 + csend[c]
    BY <1>y, <1>b
  <2> QED
    BY <2>1, <2>2, <2>3
<1>p. UNCHANGED <<csend, up, sub, cpc>> => csend'[c] = csend[c] /\ up'[c] = up[c] /\ sub'[c] = sub[c]
                                           /\ UpSent(c)' = UpSent(c)
  BY DEF UpSent
<1>1. ASSUME NEW d \in Clients, Connect(d) PROVE UpInv(c)'
  <2>1. UNCHANGED <<toDaemon, csend, sub, drecv, session>>
    BY <1>1 DEF Connect, gwVars, daemonVars
  <2>2. CASE d = c
    <3> DEFINE f == Frame("noise_init", c, 0, NoReq)
    <3>1. cpc[c] = "new" /\ up'[c] = Append(up[c], f) /\ cpc'[c] = "wait"
      BY <1>t, <1>1, <2>2 DEF TypeOK, Connect
    <3>2. f \in Frames /\ f \in UpFrames(c) /\ UpNum[f] = 0
      <4>1. f \in Frames /\ f.t = "noise_init" /\ f.sid = c
        BY <1>t, MadeFrames DEF Frame
      <4> QED
        BY <4>1 DEF UpFrames, UpNum
    <3> HIDE DEF f
    <3>3. UpSent(c) = 0 /\ csend[c] = 0 /\ sub[c] = "none" /\ UpSent(c)' = 1
      BY <1>t, <2>1, <3>1 DEF ClientInv, UpSent
    <3>4. k = 0
      BY <1>b, <1>n, <1>y, <3>3, RunsBounds
    <3>5. Runs(up'[c], UpFrames(c), UpNum, 0, 1)
      <4>1. Runs(up[c], UpFrames(c), UpNum, 0, 0)
        BY <1>b, <3>3, <3>4
      <4>2. Runs(Append(up[c], f), UpFrames(c), UpNum, 0, 0 + 1)
        BY <1>y, <3>2, <4>1, RunsAppend
      <4> QED
        BY <3>1, <4>2
    <3>6. csend'[c] = csend[c] /\ drecv'[c] = drecv[c] /\ session' = session /\ toDaemon' = toDaemon
      BY <2>1
    <3> QED
      BY <1>b, <3>3, <3>4, <3>5, <3>6 DEF UpInv
  <2>3. CASE d # c
    <3>1. up'[c] = up[c] /\ cpc'[c] = cpc[c]
      BY <1>t, <1>1, <2>3 DEF TypeOK, Connect
    <3> QED
      BY <1>t, <2>1, <3>1, UpKept
  <2> QED BY <2>2, <2>3
<1>2. ASSUME NEW d \in Clients, FinishHandshake(d) \/ Close(d) PROVE UpInv(c)'
  <2>1. UNCHANGED <<toDaemon, csend, sub, drecv, session, up>> /\ (cpc'[c] = "new") = (cpc[c] = "new")
    BY <1>t, <1>2 DEF TypeOK, FinishHandshake, Close, gwVars, daemonVars
  <2> QED
    BY <1>t, <2>1, UpKept
<1>3. ASSUME NEW d \in Clients, Request(d) PROVE UpInv(c)'
  <2>1. UNCHANGED <<toDaemon, cpc, sub, drecv, session>>
    BY <1>3 DEF Request, gwVars, daemonVars
  <2>2. CASE d = c
    <3> DEFINE f == Frame("route", c, csend[c], <<c, asked'[c]>>)
    <3>1. /\ cpc[c] = "ready" /\ asked[c] < MaxReqs /\ asked'[c] = asked[c] + 1
          /\ up'[c] = Append(up[c], f) /\ csend'[c] = csend[c] + 1
      BY <1>t, <1>3, <2>2 DEF TypeOK, Request
    <3>2. SidOf(c) = c /\ asked'[c] \in 1 .. MaxReqs
      <4>1. asked[c] \in 0 .. MaxReqs
        BY <1>t DEF TypeOK
      <4> QED
        BY <3>1, <4>1, BoundAssumption DEF SidOf
    <3>3. f \in Frames /\ f \in UpFrames(c) /\ UpNum[f] = csend[c] + 1
      <4>1. f \in Frames /\ f.t = "route" /\ f.sid = c /\ f.n = csend[c]
        BY <1>t, <3>2, MadeFrames DEF Frame
      <4> QED
        BY <4>1 DEF UpFrames, UpNum
    <3> HIDE DEF f
    <3>4. UpSent(c) = csend[c] + 1 /\ UpSent(c)' = UpSent(c) + 1
      BY <1>y, <2>1, <3>1 DEF UpSent
    <3>5. sub[c] # "off" => Runs(up'[c], UpFrames(c), UpNum, k, UpSent(c)')
      <4>1. sub[c] # "off" => Runs(Append(up[c], f), UpFrames(c), UpNum, k, UpSent(c) + 1)
        BY <1>y, <1>b, <1>n, <3>3, <3>4, RunsAppend
      <4> QED
        BY <3>1, <3>4, <4>1
    <3>6. b \in 0 .. 1 + csend'[c] /\ k \in 0 .. 1 + csend'[c]
      BY <1>b, <1>y, <3>1
    <3>7. drecv'[c] = drecv[c] /\ session' = session /\ toDaemon' = toDaemon /\ sub'[c] = sub[c]
      BY <2>1
    <3> QED
      BY <1>b, <3>5, <3>6, <3>7 DEF UpInv
  <2>3. CASE d # c
    <3>1. up'[c] = up[c] /\ csend'[c] = csend[c]
      BY <1>t, <1>3, <2>3 DEF TypeOK, Request
    <3> QED
      BY <1>t, <2>1, <3>1, UpKept
  <2> QED BY <2>2, <2>3
<1>4. ASSUME NEW d \in Clients, Subscribe(d) \/ Unsubscribe(d) PROVE UpInv(c)'
  <2>1. UNCHANGED <<toDaemon, csend, cpc, drecv, session>>
    BY <1>4 DEF Subscribe, Unsubscribe, clientVars, daemonVars
  <2>2. sub'[c] # "off" => sub[c] # "off" /\ up'[c] = up[c]
    BY <1>t, <1>4 DEF TypeOK, Subscribe, Unsubscribe
  <2> QED
    BY <1>t, <2>1, <2>2, UpKept
<1>5. ASSUME NEW d \in Clients, Forward(d) PROVE UpInv(c)'
  <2> DEFINE f == Head(up[d])
  <2>1. /\ UNCHANGED <<csend, cpc, sub, drecv, session>> /\ sub[d] = "on" /\ up[d] # <<>>
        /\ toDaemon' = Append(toDaemon, f) /\ up' = [up EXCEPT ![d] = Tail(@)]
    BY <1>5 DEF Forward, clientVars, gwVars, daemonVars
  <2>2. f \in Frames /\ Sends(d, f)
    BY <1>t, <2>1, Forwarded
  <2>3. CASE d = c
    <3>1. f \in UpFrames(c)
      BY <2>2, <2>3 DEF Sends, SidOf, UpFrames
    <3>2. UpNum[f] = k /\ k < UpSent(c) /\ Runs(Tail(up[c]), UpFrames(c), UpNum, k + 1, UpSent(c))
      <4>1. up[c] # <<>> /\ Head(up[c]) \in UpFrames(c) /\ f = Head(up[c])
        BY <2>1, <2>3, <3>1
      <4>2. Runs(up[c], UpFrames(c), UpNum, k, UpSent(c))
        BY <1>b, <2>1, <2>3
      <4>3. /\ UpNum[Head(up[c])] = k /\ k < UpSent(c)
            /\ Runs(Tail(up[c]), UpFrames(c), UpNum, k + 1, UpSent(c))
        BY <1>y, <1>n, <4>1, <4>2, RunsHead
      <4> QED
        BY <4>1, <4>3
    <3> HIDE DEF f
    <3>3. Runs(toDaemon', UpFrames(c), UpNum, b, k + 1)
      BY <1>y, <1>b, <1>n, <2>1, <2>2, <3>1, <3>2, RunsAppend
    <3>4. k + 1 \in 0 .. 1 + csend[c]
      BY <1>y, <1>n, <3>2 DEF UpSent
    <3>5. UpSent(c)' = UpSent(c) /\ up'[c] = Tail(up[c])
      BY <1>t, <2>1, <2>3 DEF UpSent, TypeOK
    <3>6. csend'[c] = csend[c] /\ drecv'[c] = drecv[c] /\ session' = session /\ sub'[c] = sub[c]
      BY <2>1
    <3> QED
      BY <1>b, <3>2, <3>3, <3>4, <3>5, <3>6 DEF UpInv
  <2>4. CASE d # c
    <3>1. f \notin UpFrames(c)
      BY <1>t, <2>2, <2>4 DEF Sends, SidOf, UpFrames
    <3> HIDE DEF f
    <3>2. Runs(toDaemon', UpFrames(c), UpNum, b, k)
      BY <1>y, <1>b, <1>n, <2>1, <2>2, <3>1, RunsAppendOther
    <3>3. UpSent(c)' = UpSent(c) /\ up'[c] = up[c]
      BY <1>t, <2>1, <2>4 DEF UpSent, TypeOK
    <3>6. csend'[c] = csend[c] /\ drecv'[c] = drecv[c] /\ session' = session /\ sub'[c] = sub[c]
      BY <2>1
    <3> QED
      BY <1>b, <3>2, <3>3, <3>6 DEF UpInv
  <2> QED BY <2>3, <2>4
<1>6. CASE NoiseRefuse
  <2>1. UNCHANGED <<csend, up, sub, cpc, drecv, session>> /\ Receives("noise_init") /\ toDaemon' = Tail(toDaemon)
    BY <1>6 DEF NoiseRefuse, clientVars, gwVars, daemonVars
  <2>2. toDaemon # <<>> /\ Head(toDaemon).t = "noise_init" /\ Head(toDaemon) \in Frames
    BY <1>t, <2>1, Received DEF Receives
  <2>3. CASE Head(toDaemon) \in UpFrames(c)
    <3>1. b = 0
      BY <1>h, <2>2, <2>3 DEF UpNum
    <3>2. b + 1 = 1 /\ session # c /\ Runs(toDaemon', UpFrames(c), UpNum, b + 1, k) /\ b + 1 \in 0 .. 1 + csend[c]
      BY <1>b, <1>h, <2>1, <2>2, <2>3, <3>1
    <3> QED
      BY <1>b, <1>p, <2>1, <3>2 DEF UpInv
  <2>4. CASE Head(toDaemon) \notin UpFrames(c)
    <3>1. Runs(toDaemon', UpFrames(c), UpNum, b, k)
      BY <1>h, <2>1, <2>2, <2>4
    <3> QED
      BY <1>b, <1>p, <2>1, <3>1 DEF UpInv
  <2> QED BY <2>3, <2>4
<1>7. CASE NoiseInstall
  <2>1. /\ UNCHANGED <<csend, up, sub, cpc, drecv>> /\ Receives("noise_init") /\ toDaemon' = Tail(toDaemon)
        /\ session' = Head(toDaemon).sid
    BY <1>7 DEF NoiseInstall, clientVars, gwVars
  <2>2. toDaemon # <<>> /\ Head(toDaemon).t = "noise_init" /\ Head(toDaemon) \in Frames
    BY <1>t, <2>1, Received DEF Receives
  <2>3. CASE Head(toDaemon) \in UpFrames(c)
    <3>1. b = 0
      BY <1>h, <2>2, <2>3 DEF UpNum
    <3>2. /\ b + 1 = 1 /\ drecv'[c] = 0 /\ Runs(toDaemon', UpFrames(c), UpNum, b + 1, k)
          /\ b + 1 \in 0 .. 1 + csend[c]
      BY <1>b, <1>h, <2>1, <2>2, <2>3, <3>1
    <3> QED
      BY <1>b, <1>p, <2>1, <3>2 DEF UpInv
  <2>4. CASE Head(toDaemon) \notin UpFrames(c)
    <3>1. Runs(toDaemon', UpFrames(c), UpNum, b, k)
      BY <1>h, <2>1, <2>2, <2>4
    <3>2. session' # c
      BY <2>1, <2>2, <2>4 DEF UpFrames
    <3> QED
      BY <1>b, <1>p, <2>1, <3>1, <3>2 DEF UpInv
  <2> QED BY <2>3, <2>4
<1>8. CASE Accept
  <2> DEFINE f == Head(toDaemon)
  <2>1. /\ UNCHANGED <<csend, up, sub, cpc, session>> /\ toDaemon # <<>> /\ toDaemon' = Tail(toDaemon)
        /\ drecv' = IF session = Plain THEN drecv ELSE [drecv EXCEPT ![session] = @ + 1]
    BY <1>8 DEF Accept, Receives, clientVars, gwVars
  <2>2. f \in Frames /\ f.t = "route" /\ session = f.sid
    BY <1>8, Accepted
  <2>3. f \in UpFrames(c) <=> session = c
    BY <2>2 DEF UpFrames
  <2>4. CASE session = c
    <3>1. b = 1 + drecv[c] /\ drecv'[c] = drecv[c] + 1 /\ b + 1 # 0 /\ b + 1 = 1 + drecv'[c]
      <4>1. drecv \in [Clients -> Nat] /\ session # Plain
        BY <1>t, <1>y, <2>4 DEF TypeOK
      <4>2. drecv' = [drecv EXCEPT ![c] = @ + 1]
        BY <2>1, <2>4, <4>1
      <4>3. drecv'[c] = drecv[c] + 1 /\ drecv[c] \in Nat
        BY <1>t, <4>1, <4>2
      <4>4. b = 1 + drecv[c]
        BY <1>b, <2>4
      <4> QED
        BY <4>3, <4>4
    <3>2. Runs(toDaemon', UpFrames(c), UpNum, b + 1, k) /\ b + 1 \in 0 .. 1 + csend[c]
      BY <1>h, <2>1, <2>3, <2>4
    <3> QED
      BY <1>b, <1>p, <2>1, <3>1, <3>2 DEF UpInv
  <2>5. CASE session # c
    <3>1. Runs(toDaemon', UpFrames(c), UpNum, b, k)
      BY <1>h, <2>1, <2>3, <2>5
    <3>2. drecv'[c] = drecv[c]
      BY <1>t, <2>1, <2>5 DEF TypeOK
    <3> QED
      BY <1>b, <1>p, <2>1, <2>5, <3>1, <3>2 DEF UpInv
  <2> QED BY <2>4, <2>5
<1>9. CASE Skip
  <2> DEFINE f == Head(toDaemon)
  <2>1. /\ UNCHANGED <<csend, up, sub, cpc, session, drecv>> /\ toDaemon # <<>> /\ toDaemon' = Tail(toDaemon)
        /\ f.t = "route" /\ ~unwrapRoute(f)
    BY <1>9 DEF Skip, Receives, clientVars, gwVars, daemonVars
  <2>2. f \in Frames /\ f.n \in Nat
    <3>1. f \in Frames
      BY <1>t, <2>1, Received
    <3> QED
      BY <3>1 DEF Frames
  <2>3. CASE f \in UpFrames(c)
    <3>1. b = f.n + 1
      BY <1>h, <2>1, <2>2, <2>3 DEF UpNum
    <3>2. session # c
      <4>1. f.sid = c
        BY <2>3 DEF UpFrames
      <4> QED
        BY <1>b, <1>t, <1>y, <2>1, <2>2, <3>1, <4>1 DEF unwrapRoute
    <3>3. b + 1 # 0 /\ Runs(toDaemon', UpFrames(c), UpNum, b + 1, k) /\ b + 1 \in 0 .. 1 + csend[c]
      BY <1>h, <1>n, <2>1, <2>3
    <3> QED
      BY <1>b, <1>p, <2>1, <3>2, <3>3 DEF UpInv
  <2>4. CASE f \notin UpFrames(c)
    <3>1. Runs(toDaemon', UpFrames(c), UpNum, b, k)
      BY <1>h, <2>1, <2>4
    <3> QED
      BY <1>b, <1>p, <2>1, <3>1 DEF UpInv
  <2> QED BY <2>3, <2>4
<1>10. ASSUME NEW r \in Reqs, Encrypt(r) \/ Transmit(r) PROVE UpInv(c)'
  <2>1. UNCHANGED <<toDaemon, csend, sub, cpc, up, drecv, session>>
    BY <1>10 DEF Encrypt, Transmit, clientVars, gwVars
  <2> QED
    BY <1>t, <2>1, UpKept
<1>11. ASSUME (\E d \in Clients : Read(d)) \/ Deliver \/ NoiseAnswer \/ UNCHANGED vars PROVE UpInv(c)'
  <2>1. UNCHANGED <<toDaemon, csend, sub, cpc, up, drecv, session>>
    BY <1>11 DEF Read, Deliver, NoiseAnswer, vars, clientVars, gwVars, daemonVars
  <2> QED
    BY <1>t, <2>1, UpKept
<1> QED
  BY <1>1, <1>2, <1>3, <1>4, <1>5, <1>6, <1>7, <1>8, <1>9, <1>10, <1>11 DEF Next

\* What the invariants say of the frames back to c is untouched when the wires
\* are, or c is gone, and its handler does not become the writer.
LEMMA DownKept ==
    ASSUME NEW c \in Clients, DownInv(c), cfg' = cfg, fromDaemon' = fromDaemon, dsend'[c] = dsend[c],
           sendMu' = sendMu, out' = out,
           cpc'[c] # "closed" => cpc[c] # "closed" /\ down'[c] = down[c] /\ crecv'[c] = crecv[c],
           writer' = c => writer = c \/ sub[c] = "none",
           sub'[c] = "none" => sub[c] = "none"
    PROVE  DownInv(c)'
BY DEF DownInv, Sealed

\* The sealed frames of session c follow each other back to the client.
LEMMA DownStep ==
    ASSUME ChannelInv, [Next]_vars, NEW c \in Clients
    PROVE  DownInv(c)'
<1>t. TypeOK /\ WireInv /\ DownInv(c) /\ c # Plain /\ ClientInv(c) /\ cfg' = cfg
  BY Fixed, RequestForms DEF ChannelInv, WireInv
<1>y. /\ fromDaemon \in Seq(Frames) /\ down[c] \in Seq(Frames) /\ dsend[c] \in Nat /\ crecv[c] \in Nat
      /\ DownNum \in [Frames -> Nat] /\ \A f \in Frames : DownNum[f] = f.n
  BY <1>t, NumTypes DEF TypeOK, DownNum
<1>b. PICK j \in 0 .. dsend[c], k \in 0 .. dsend[c], m \in 0 .. dsend[c] :
        /\ Runs(fromDaemon, DownFrames(c), DownNum, k, m)
        /\ m + Sealed(c) = dsend[c]
        /\ Sealed(c) = 1 => out[sendMu].n = m
        /\ j <= k
        /\ cpc[c] # "closed" => Runs(down[c], DownFrames(c), DownNum, crecv[c], j)
        /\ writer = c \/ sub[c] = "none" => j = k
  BY <1>t DEF DownInv
<1>z. sub[c] = "none" \/ c \notin cfg.e2e => dsend[c] = 0
  BY <1>t DEF DownInv
<1>n. j \in Nat /\ k \in Nat /\ m \in Nat /\ k <= m
  <2>1. j \in Nat /\ k \in Nat /\ m \in Nat
    BY <1>y
  <2> QED
    BY <1>b, <2>1, RunsBounds
<1>s. Sealed(c) \in {0, 1}
  BY DEF Sealed
<1>a. ASSUME NEW f \in Frames, f \notin DownFrames(c), fromDaemon' = Append(fromDaemon, f),
             UNCHANGED <<dsend, sendMu, out, cpc, down, crecv, writer, sub>>
      PROVE  DownInv(c)'
  <2>1. Runs(fromDaemon', DownFrames(c), DownNum, k, m)
    BY <1>a, <1>b, <1>n, <1>y, RunsAppendOther
  <2>2. Sealed(c)' = Sealed(c)
    BY <1>a DEF Sealed
  <2> QED
    BY <1>a, <1>b, <1>t, <1>z, <2>1, <2>2 DEF DownInv
<1>1. ASSUME NEW d \in Clients, Connect(d) \/ Request(d) \/ Close(d) \/ Forward(d) \/ Unsubscribe(d)
      PROVE  DownInv(c)'
  <2>1. UNCHANGED <<fromDaemon, dsend, sendMu, out>>
    BY <1>1 DEF Connect, Request, Close, Forward, Unsubscribe, gwVars, daemonVars
  <2>2. cpc'[c] # "closed" => cpc[c] # "closed" /\ down'[c] = down[c] /\ crecv'[c] = crecv[c]
    BY <1>1, <1>t DEF TypeOK, Connect, Request, Close, Forward, Unsubscribe, clientVars, gwVars
  <2>3. (writer' = c => writer = c) /\ (sub'[c] = "none" => sub[c] = "none")
    BY <1>1, <1>t DEF TypeOK, Connect, Request, Close, Forward, Unsubscribe, clientVars, gwVars
  <2> QED
    BY <1>t, <2>1, <2>2, <2>3, DownKept
<1>2. ASSUME NEW d \in Clients, FinishHandshake(d) PROVE DownInv(c)'
  <2>1. UNCHANGED <<fromDaemon, dsend, sendMu, out, crecv, writer, sub>>
    BY <1>2 DEF FinishHandshake, gwVars, daemonVars
  <2>2. CASE d = c
    <3>1. \/ cpc'[c] = "closed"
          \/ /\ cpc[c] = "wait" /\ down[c] # <<>> /\ Head(down[c]).t = "noise_resp"
             /\ down'[c] = Tail(down[c])
      BY <1>2, <1>t, <2>2 DEF TypeOK, FinishHandshake
    <3>2. CASE cpc'[c] = "closed"
      BY <1>t, <2>1, <3>2, DownKept
    <3>3. CASE cpc'[c] # "closed"
      <4>1. Head(down[c]) \notin DownFrames(c)
        BY <3>1, <3>3 DEF DownFrames
      <4>2. Runs(down'[c], DownFrames(c), DownNum, crecv[c], j)
        BY <1>b, <1>n, <1>y, <3>1, <3>3, <4>1, RunsTail
      <4>3. Sealed(c)' = Sealed(c)
        BY <2>1 DEF Sealed
      <4> QED
        BY <1>b, <1>t, <1>z, <2>1, <4>2, <4>3 DEF DownInv
    <3> QED BY <3>2, <3>3
  <2>3. CASE d # c
    <3>1. cpc'[c] = cpc[c] /\ down'[c] = down[c]
      BY <1>2, <1>t, <2>3 DEF TypeOK, FinishHandshake
    <3> QED
      BY <1>t, <2>1, <3>1, DownKept
  <2> QED BY <2>2, <2>3
<1>3. ASSUME NEW d \in Clients, Read(d) PROVE DownInv(c)'
  <2>1. UNCHANGED <<fromDaemon, dsend, sendMu, out, cpc, writer, sub>>
    BY <1>3 DEF Read, gwVars, daemonVars
  <2>2. CASE d = c
    <3> DEFINE f == Head(down[c])
    <3>1. /\ cpc[c] = "ready" /\ down[c] # <<>> /\ down'[c] = Tail(down[c])
          /\ crecv'[c] = IF c \in cfg.e2e /\ Opens(c, f) THEN crecv[c] + 1 ELSE crecv[c]
      BY <1>3, <1>t, <2>2 DEF TypeOK, Read
    <3>2. f \in Frames
      BY <1>y, <3>1, WireHead
    <3>3. Runs(down[c], DownFrames(c), DownNum, crecv[c], j)
      BY <1>b, <3>1
    <3>4. CASE f \in DownFrames(c)
      <4>1. DownNum[f] = crecv[c] /\ crecv[c] < j /\ Runs(Tail(down[c]), DownFrames(c), DownNum, crecv[c] + 1, j)
        BY <1>n, <1>y, <3>1, <3>3, <3>4, RunsHead
      <4>2. c \in cfg.e2e
        BY <1>y, <1>z, <4>1
      <4>3. Opens(c, f)
        BY <1>y, <3>2, <3>4, <4>1, <4>2 DEF Opens, DownFrames
      <4>4. Runs(down'[c], DownFrames(c), DownNum, crecv'[c], j)
        BY <3>1, <4>1, <4>2, <4>3
      <4> QED
        BY <1>b, <1>t, <1>z, <2>1, <4>4 DEF DownInv, Sealed
    <3>5. CASE f \notin DownFrames(c)
      <4>1. Runs(Tail(down[c]), DownFrames(c), DownNum, crecv[c], j)
        BY <1>n, <1>y, <3>1, <3>3, <3>5, RunsTail
      <4>2. ~(c \in cfg.e2e /\ Opens(c, f))
        BY <3>2, <3>5 DEF Opens, DownFrames
      <4>3. Runs(down'[c], DownFrames(c), DownNum, crecv'[c], j)
        BY <3>1, <4>1, <4>2
      <4> QED
        BY <1>b, <1>t, <1>z, <2>1, <4>3 DEF DownInv, Sealed
    <3> QED BY <3>4, <3>5
  <2>3. CASE d # c
    <3>1. crecv'[c] = crecv[c] /\ down'[c] = down[c]
      BY <1>3, <1>t, <2>3 DEF TypeOK, Read
    <3> QED
      BY <1>t, <2>1, <3>1, DownKept
  <2> QED BY <2>2, <2>3
<1>4. ASSUME NEW d \in Clients, Subscribe(d) PROVE DownInv(c)'
  <2>1. UNCHANGED <<fromDaemon, dsend, sendMu, out, cpc, down, crecv>>
    BY <1>4 DEF Subscribe, clientVars, daemonVars
  <2>2. (writer' = c => sub[c] = "none") /\ (sub'[c] = "none" => sub[c] = "none")
    BY <1>4, <1>t DEF TypeOK, Subscribe
  <2> QED
    BY <1>t, <2>1, <2>2, DownKept
<1>5. CASE Deliver
  <2> DEFINE f == Head(fromDaemon)
  <2>1. /\ fromDaemon # <<>> /\ fromDaemon' = Tail(fromDaemon)
        /\ UNCHANGED <<dsend, sendMu, out, cpc, crecv, writer, sub>>
    BY <1>5 DEF Deliver, clientVars, gwVars, daemonVars
  <2>2. f \in Frames /\ Sealed(c)' = Sealed(c)
    BY <1>y, <2>1, WireHead DEF Sealed
  <2>3. cpc[c] # "closed" => down'[c] = IF writer = c THEN Append(down[c], f) ELSE down[c]
    BY <1>5, <1>t DEF TypeOK, Deliver
  <2>4. CASE f \in DownFrames(c)
    <3>1. DownNum[f] = k /\ k < m /\ Runs(fromDaemon', DownFrames(c), DownNum, k + 1, m)
      <4>1. fromDaemon # <<>> /\ Head(fromDaemon) \in DownFrames(c)
        BY <2>1, <2>4
      <4>2. Runs(fromDaemon, DownFrames(c), DownNum, k, m)
        BY <1>b
      <4>3. /\ DownNum[Head(fromDaemon)] = k /\ k < m
            /\ Runs(Tail(fromDaemon), DownFrames(c), DownNum, k + 1, m)
        BY <1>n, <1>y, <4>1, <4>2, RunsHead
      <4> QED
        BY <2>1, <4>3
    <3>2. k + 1 \in 0 .. dsend[c] /\ sub[c] # "none"
      BY <1>n, <1>y, <1>z, <3>1
    <3>3. CASE writer = c
      <4>1. cpc[c] # "closed" => Runs(down'[c], DownFrames(c), DownNum, crecv[c], k + 1)
        <5>1. cpc[c] # "closed" => Runs(down[c], DownFrames(c), DownNum, crecv[c], k)
          BY <1>b, <3>3
        <5>2. cpc[c] # "closed" => Runs(Append(down[c], f), DownFrames(c), DownNum, crecv[c], k + 1)
          BY <1>n, <1>y, <2>2, <2>4, <3>1, <5>1, RunsAppend
        <5> QED
          BY <2>3, <3>3, <5>2
      <4>2. k + 1 <= k + 1
        BY <1>n
      <4> QED
        BY <1>b, <1>t, <1>z, <2>1, <2>2, <3>1, <3>2, <4>1, <4>2 DEF DownInv
    <3>4. CASE writer # c
      <4>1. cpc[c] # "closed" => Runs(down'[c], DownFrames(c), DownNum, crecv[c], j)
        BY <1>b, <2>3, <3>4
      <4>2. j <= k + 1
        BY <1>b, <1>n
      <4> QED
        BY <1>b, <1>t, <1>z, <2>1, <2>2, <3>1, <3>2, <3>4, <4>1, <4>2 DEF DownInv
    <3> QED BY <3>3, <3>4
  <2>5. CASE f \notin DownFrames(c)
    <3>1. Runs(fromDaemon', DownFrames(c), DownNum, k, m)
      BY <1>b, <1>n, <1>y, <2>1, <2>5, RunsTail
    <3>2. cpc[c] # "closed" => Runs(down'[c], DownFrames(c), DownNum, crecv[c], j)
      <4>1. cpc[c] # "closed" => Runs(Append(down[c], f), DownFrames(c), DownNum, crecv[c], j)
        BY <1>b, <1>n, <1>y, <2>2, <2>5, RunsAppendOther
      <4> QED
        BY <1>b, <2>3, <4>1
    <3> QED
      BY <1>b, <1>t, <1>z, <2>1, <2>2, <3>1, <3>2 DEF DownInv
  <2> QED BY <2>4, <2>5
<1>6. CASE NoiseRefuse
  <2> DEFINE f == Frame("error", Head(toDaemon).sid, 0, NoReq)
  <2>1. Head(toDaemon) \in Frames
    BY <1>6, <1>t, Received DEF NoiseRefuse, Receives
  <2>2. Head(toDaemon).sid \in Sids
    BY <2>1 DEF Frames
  <2>3. f \in Frames /\ f \notin DownFrames(c)
    BY <1>t, <2>2, MadeFrames DEF DownFrames, Frame
  <2>4. fromDaemon' = Append(fromDaemon, f) /\ UNCHANGED <<dsend, sendMu, out, cpc, down, crecv, writer, sub>>
    BY <1>6 DEF NoiseRefuse, clientVars, gwVars, daemonVars
  <2> HIDE DEF f
  <2> QED
    BY <1>a, <2>3, <2>4
<1>7. CASE NoiseAnswer
  <2> DEFINE f == Frame("noise_resp", session, 0, NoReq)
  <2>1. f \in Frames /\ f \notin DownFrames(c)
    BY <1>t, MadeFrames DEF DownFrames, Frame
  <2>2. fromDaemon' = Append(fromDaemon, f) /\ UNCHANGED <<dsend, sendMu, out, cpc, down, crecv, writer, sub>>
    BY <1>7 DEF NoiseAnswer, clientVars, gwVars
  <2> HIDE DEF f
  <2> QED
    BY <1>a, <2>1, <2>2
<1>8. ASSUME NEW r \in Reqs, Encrypt(r) PROVE DownInv(c)'
  <2>1. /\ UNCHANGED <<fromDaemon, cpc, down, crecv, writer, sub, session>>
        /\ sendMu = NoReq /\ sendMu' = r /\ out' = [out EXCEPT ![r] = Seal(r)]
        /\ dsend' = IF session = Plain THEN dsend ELSE [dsend EXCEPT ![session] = @ + 1]
    BY <1>8 DEF Encrypt, clientVars, gwVars
  <2>2. Sealed(c) = 0 /\ m = dsend[c]
    <3>1. Sealed(c) = 0
      BY <2>1 DEF Sealed
    <3> QED
      BY <1>b, <1>n, <3>1
  <2>3. /\ Seal(r) \in Frames /\ out'[sendMu'] = Seal(r) /\ sendMu' # NoReq
        /\ Seal(r).t = "route" /\ Seal(r).sid = session
        /\ Seal(r).n = IF session = Plain THEN 0 ELSE dsend[session]
    <3>1. Seal(r) \in Frames /\ r # NoReq
      BY <1>t, MadeFrames, RequestForms
    <3>2. out'[r] = Seal(r)
      BY <1>t, <2>1 DEF TypeOK
    <3>3. /\ Seal(r).t = "route" /\ Seal(r).sid = session
          /\ Seal(r).n = IF session = Plain THEN 0 ELSE dsend[session]
      BY DEF Seal, Frame
    <3> QED
      BY <2>1, <3>1, <3>2, <3>3
  <2>4. CASE session = c
    <3>1. dsend'[c] = dsend[c] + 1 /\ Sealed(c)' = 1 /\ out'[sendMu'].n = m
      BY <1>t, <2>1, <2>2, <2>3, <2>4 DEF TypeOK, Sealed, DownFrames
    <3>2. sub[c] # "none" /\ c \in cfg.e2e
      BY <1>t, <2>4 DEF WireInv
    <3>3. /\ j \in 0 .. dsend'[c] /\ k \in 0 .. dsend'[c] /\ m \in 0 .. dsend'[c]
          /\ m + 1 = dsend'[c]
      BY <1>n, <1>b, <1>y, <2>2, <3>1
    <3> QED
      BY <1>b, <1>t, <2>1, <3>1, <3>2, <3>3 DEF DownInv
  <2>5. CASE session # c
    <3>1. dsend'[c] = dsend[c] /\ Sealed(c)' = 0
      BY <1>t, <2>1, <2>3, <2>5 DEF TypeOK, Sealed, DownFrames
    <3> QED
      BY <1>b, <1>t, <1>z, <2>1, <2>2, <3>1 DEF DownInv
  <2> QED BY <2>4, <2>5
<1>9. ASSUME NEW r \in Reqs, Transmit(r) PROVE DownInv(c)'
  <2>1. /\ UNCHANGED <<cpc, down, crecv, writer, sub, dsend>> /\ work[r] = "send"
        /\ sendMu' = NoReq /\ fromDaemon' = Append(fromDaemon, out[r])
    BY <1>9 DEF Transmit, clientVars, gwVars
  <2>2. sendMu = r /\ r # NoReq /\ out[r] \in Frames /\ Sealed(c)' = 0
    BY <1>t, <2>1, RequestForms DEF TypeOK, Sealed
  <2>3. CASE out[r] \in DownFrames(c)
    <3>1. Sealed(c) = 1 /\ out[r].n = m
      BY <1>b, <2>2, <2>3 DEF Sealed
    <3>2. Runs(fromDaemon', DownFrames(c), DownNum, k, m + 1)
      <4>1. DownNum[out[r]] = m
        BY <1>y, <2>2, <3>1
      <4> QED
        BY <1>b, <1>n, <1>y, <2>1, <2>2, <2>3, <4>1, RunsAppend
    <3>3. m + 1 \in 0 .. dsend[c] /\ m + 1 + Sealed(c)' = dsend[c]
      BY <1>b, <1>n, <1>y, <2>2, <3>1
    <3> QED
      BY <1>b, <1>t, <1>z, <2>1, <2>2, <3>2, <3>3 DEF DownInv
  <2>4. CASE out[r] \notin DownFrames(c)
    <3>1. Sealed(c) = 0
      BY <2>2, <2>4 DEF Sealed
    <3>2. Runs(fromDaemon', DownFrames(c), DownNum, k, m)
      BY <1>b, <1>n, <1>y, <2>1, <2>2, <2>4, RunsAppendOther
    <3> QED
      BY <1>b, <1>t, <1>z, <2>1, <2>2, <3>1, <3>2 DEF DownInv
  <2> QED BY <2>3, <2>4
<1>10. ASSUME NoiseInstall \/ Accept \/ Skip \/ UNCHANGED vars PROVE DownInv(c)'
  <2>1. UNCHANGED <<fromDaemon, dsend, sendMu, out, cpc, down, crecv, writer, sub>>
    BY <1>10 DEF NoiseInstall, Accept, Skip, vars, clientVars, gwVars, daemonVars
  <2> QED
    BY <1>t, <2>1, DownKept
<1> QED
  BY <1>1, <1>2, <1>3, <1>4, <1>5, <1>6, <1>7, <1>8, <1>9, <1>10 DEF Next

\* What the invariants say of the requests of c is untouched when the wires to
\* the daemon are, or c's handler is gone.
LEMMA ReqKept ==
    ASSUME NEW c \in Clients, ReqInv(c), toDaemon' = toDaemon, asked'[c] = asked[c], via' = via,
           sub'[c] # "off" => sub[c] # "off" /\ up'[c] = up[c]
    PROVE  ReqInv(c)'
BY DEF ReqInv

\* The requests of c come to the daemon in order.
LEMMA ReqStep ==
    ASSUME ChannelInv, [Next]_vars, NEW c \in Clients
    PROVE  ReqInv(c)'
<1>t. TypeOK /\ WireInv /\ ReqInv(c)
  BY DEF ChannelInv
<1>y. /\ toDaemon \in Seq(Frames) /\ up[c] \in Seq(Frames) /\ asked[c] \in Nat
      /\ ReqNum \in [Frames -> Nat] /\ \A f \in Frames : ReqNum[f] = f.req[2]
  BY <1>t, NumTypes, BoundAssumption DEF TypeOK, ReqNum
<1>b. PICK a \in 1 .. asked[c] + 1, k \in 1 .. asked[c] + 1 :
        /\ Runs(toDaemon, ReqFrames(c), ReqNum, a, k)
        /\ sub[c] # "off" => Runs(up[c], ReqFrames(c), ReqNum, k, asked[c] + 1)
        /\ \A n \in a .. MaxReqs : via[<<c, n>>] = <<>>
  BY <1>t DEF ReqInv
<1>n. a \in Nat /\ k \in Nat
  BY <1>y, <1>b
<1>h. toDaemon # <<>> =>
        /\ Head(toDaemon) \in ReqFrames(c) =>
              /\ ReqNum[Head(toDaemon)] = a /\ a + 1 \in 1 .. asked[c] + 1
              /\ Runs(Tail(toDaemon), ReqFrames(c), ReqNum, a + 1, k)
        /\ Head(toDaemon) \notin ReqFrames(c) => Runs(Tail(toDaemon), ReqFrames(c), ReqNum, a, k)
  <2>1. ASSUME toDaemon # <<>>, Head(toDaemon) \in ReqFrames(c)
        PROVE  ReqNum[Head(toDaemon)] = a /\ a < k /\ Runs(Tail(toDaemon), ReqFrames(c), ReqNum, a + 1, k)
    BY <1>y, <1>b, <1>n, <2>1, RunsHead
  <2>2. ASSUME toDaemon # <<>>, Head(toDaemon) \notin ReqFrames(c)
        PROVE  Runs(Tail(toDaemon), ReqFrames(c), ReqNum, a, k)
    BY <1>y, <1>b, <1>n, <2>2, RunsTail
  <2>3. a < k => a + 1 \in 1 .. asked[c] + 1
    BY <1>y, <1>b
  <2> QED
    BY <2>1, <2>2, <2>3
<1>l. \A n \in a + 1 .. MaxReqs : via[<<c, n>>] = <<>> /\ <<c, n>> \in Reqs
  <2> TAKE n \in a + 1 .. MaxReqs
  <2>1. n \in a .. MaxReqs /\ n \in 1 .. MaxReqs
    BY <1>n, <1>b, BoundAssumption
  <2> QED
    BY <1>b, <2>1, RequestForms
<1>1. ASSUME NEW d \in Clients, Connect(d) PROVE ReqInv(c)'
  <2>1. UNCHANGED <<toDaemon, asked, via, sub>>
    BY <1>1 DEF Connect, gwVars, daemonVars
  <2>2. \/ up'[c] = up[c]
        \/ up'[c] = Append(up[c], Frame("noise_init", c, 0, NoReq))
    <3>1. up' = up \/ up' = [up EXCEPT ![d] = Append(@, Frame("noise_init", d, 0, NoReq))]
      BY <1>1 DEF Connect
    <3>2. up \in [Clients -> Seq(Frames)]
      BY <1>t DEF TypeOK
    <3>3. CASE d = c
      BY <3>1, <3>2, <3>3
    <3>4. CASE d # c
      BY <3>1, <3>2, <3>4
    <3> QED
      BY <3>3, <3>4
  <2>3. CASE up'[c] = up[c]
    BY <1>t, <2>1, <2>3, ReqKept
  <2>4. CASE up'[c] = Append(up[c], Frame("noise_init", c, 0, NoReq))
    <3> DEFINE f == Frame("noise_init", c, 0, NoReq)
    <3>1. f \in Frames /\ f \notin ReqFrames(c)
      BY <1>t, MadeFrames DEF Frame, ReqFrames
    <3>2. up'[c] = Append(up[c], f)
      BY <2>4
    <3> HIDE DEF f
    <3>3. sub[c] # "off" => Runs(up'[c], ReqFrames(c), ReqNum, k, asked[c] + 1)
      <4>1. asked[c] + 1 \in Nat /\ up[c] \in Seq(Frames) /\ ReqNum \in [Frames -> Nat]
        BY <1>y
      <4>2. sub[c] # "off" => Runs(up[c], ReqFrames(c), ReqNum, k, asked[c] + 1)
        BY <1>b
      <4>3. sub[c] # "off" => Runs(Append(up[c], f), ReqFrames(c), ReqNum, k, asked[c] + 1)
        BY <1>n, <3>1, <4>1, <4>2, RunsAppendOther
      <4> QED
        BY <3>2, <4>3
    <3> QED
      BY <1>b, <2>1, <3>3 DEF ReqInv
  <2> QED BY <2>2, <2>3, <2>4
<1>2. ASSUME NEW d \in Clients, Request(d) PROVE ReqInv(c)'
  <2>1. UNCHANGED <<toDaemon, via, sub>>
    BY <1>2 DEF Request, gwVars, daemonVars
  <2>2. CASE d = c
    <3> DEFINE f == Frame("route", SidOf(c), csend[c], <<c, asked'[c]>>)
    <3>1. /\ asked[c] < MaxReqs /\ asked'[c] = asked[c] + 1 /\ up'[c] = Append(up[c], f)
      BY <1>t, <1>2, <2>2 DEF TypeOK, Request, SidOf
    <3>2. asked'[c] \in 1 .. MaxReqs
      BY <1>y, <3>1, BoundAssumption
    <3>3. f \in Frames /\ f \in ReqFrames(c) /\ ReqNum[f] = asked[c] + 1
      <4>1. f \in Frames /\ f.t = "route" /\ f.req = <<c, asked'[c]>>
        BY <1>t, <3>2, MadeFrames DEF Frame
      <4>2. f.req \in Reqs /\ f.req[1] = c /\ f.req[2] = asked'[c]
        BY <3>2, <4>1, RequestForms
      <4> QED
        BY <1>y, <3>1, <4>1, <4>2 DEF ReqFrames
    <3> HIDE DEF f
    <3>4. sub[c] # "off" => Runs(up'[c], ReqFrames(c), ReqNum, k, asked'[c] + 1)
      <4>1. asked[c] + 1 \in Nat
        BY <1>y
      <4>2. sub[c] # "off" => Runs(Append(up[c], f), ReqFrames(c), ReqNum, k, asked[c] + 1 + 1)
        BY <1>b, <1>n, <1>y, <3>3, <4>1, RunsAppend
      <4> QED
        BY <3>1, <4>2
    <3>5. a \in 1 .. asked'[c] + 1 /\ k \in 1 .. asked'[c] + 1
      BY <1>b, <1>y, <3>1
    <3> QED
      BY <1>b, <2>1, <3>4, <3>5 DEF ReqInv
  <2>3. CASE d # c
    <3>1. up'[c] = up[c] /\ asked'[c] = asked[c]
      BY <1>t, <1>2, <2>3 DEF TypeOK, Request
    <3> QED
      BY <1>t, <2>1, <3>1, ReqKept
  <2> QED BY <2>2, <2>3
<1>3. ASSUME NEW d \in Clients, Subscribe(d) \/ Unsubscribe(d) PROVE ReqInv(c)'
  <2>1. UNCHANGED <<toDaemon, asked, via>>
    BY <1>3 DEF Subscribe, Unsubscribe, clientVars, daemonVars
  <2>2. sub'[c] # "off" => sub[c] # "off" /\ up'[c] = up[c]
    BY <1>t, <1>3 DEF TypeOK, Subscribe, Unsubscribe
  <2> QED
    BY <1>t, <2>1, <2>2, ReqKept
<1>4. ASSUME NEW d \in Clients, Forward(d) PROVE ReqInv(c)'
  <2> DEFINE f == Head(up[d])
  <2>1. /\ UNCHANGED <<asked, via, sub>> /\ sub[d] = "on" /\ up[d] # <<>>
        /\ toDaemon' = Append(toDaemon, f) /\ up' = [up EXCEPT ![d] = Tail(@)]
    BY <1>4 DEF Forward, clientVars, gwVars, daemonVars
  <2>2. f \in Frames /\ Sends(d, f) /\ asked[c] + 1 \in Nat
    BY <1>t, <1>y, <2>1, Forwarded
  <2>3. CASE d = c
    <3>1. up'[c] = Tail(up[c]) /\ up[c] # <<>> /\ f = Head(up[c])
      BY <1>t, <2>1, <2>3 DEF TypeOK
    <3>2. Runs(up[c], ReqFrames(c), ReqNum, k, asked[c] + 1)
      BY <1>b, <2>1, <2>3
    <3> HIDE DEF f
    <3>3. CASE f \in ReqFrames(c)
      <4>1. ReqNum[f] = k /\ k < asked[c] + 1 /\ Runs(up'[c], ReqFrames(c), ReqNum, k + 1, asked[c] + 1)
        <5>1. up[c] \in Seq(Frames) /\ ReqNum \in [Frames -> Nat] /\ asked[c] + 1 \in Nat
          BY <1>y, <2>2
        <5>2. up[c] # <<>> /\ Head(up[c]) \in ReqFrames(c)
          BY <3>1, <3>3
        <5>3. /\ ReqNum[Head(up[c])] = k /\ k < asked[c] + 1
              /\ Runs(Tail(up[c]), ReqFrames(c), ReqNum, k + 1, asked[c] + 1)
          BY <1>n, <3>2, <5>1, <5>2, RunsHead
        <5> QED
          BY <3>1, <5>3
      <4>2. Runs(toDaemon', ReqFrames(c), ReqNum, a, k + 1)
        BY <1>b, <1>n, <1>y, <2>1, <2>2, <3>3, <4>1, RunsAppend
      <4>3. k + 1 \in 1 .. asked[c] + 1
        BY <1>n, <1>y, <4>1
      <4> QED
        BY <1>b, <2>1, <4>1, <4>2, <4>3 DEF ReqInv
    <3>4. CASE f \notin ReqFrames(c)
      <4>1. Runs(up'[c], ReqFrames(c), ReqNum, k, asked[c] + 1)
        BY <1>n, <1>y, <2>2, <3>1, <3>2, <3>4, RunsTail
      <4>2. Runs(toDaemon', ReqFrames(c), ReqNum, a, k)
        BY <1>b, <1>n, <1>y, <2>1, <2>2, <3>4, RunsAppendOther
      <4> QED
        BY <1>b, <2>1, <4>1, <4>2 DEF ReqInv
    <3> QED BY <3>3, <3>4
  <2>4. CASE d # c
    <3>1. f \notin ReqFrames(c)
      BY <2>2, <2>4 DEF Sends, ReqFrames
    <3> HIDE DEF f
    <3>2. Runs(toDaemon', ReqFrames(c), ReqNum, a, k)
      BY <1>b, <1>n, <1>y, <2>1, <2>2, <3>1, RunsAppendOther
    <3>3. up'[c] = up[c]
      BY <1>t, <2>1, <2>4 DEF TypeOK
    <3> QED
      BY <1>b, <2>1, <3>2, <3>3 DEF ReqInv
  <2> QED BY <2>3, <2>4
<1>5. CASE NoiseRefuse \/ NoiseInstall \/ Skip
  <2>1. UNCHANGED <<asked, via, sub, up>> /\ toDaemon # <<>> /\ toDaemon' = Tail(toDaemon)
    BY <1>5 DEF NoiseRefuse, NoiseInstall, Skip, Receives, clientVars, gwVars, daemonVars
  <2>2. CASE Head(toDaemon) \in ReqFrames(c)
    BY <1>b, <1>h, <1>l, <2>1, <2>2 DEF ReqInv
  <2>3. CASE Head(toDaemon) \notin ReqFrames(c)
    BY <1>b, <1>h, <2>1, <2>3 DEF ReqInv
  <2> QED BY <2>2, <2>3
<1>6. CASE Accept
  <2> DEFINE f == Head(toDaemon)
  <2>1. /\ UNCHANGED <<asked, sub, up>> /\ toDaemon # <<>> /\ toDaemon' = Tail(toDaemon)
        /\ via' = [via EXCEPT ![f.req] = Append(@, session)]
    BY <1>6 DEF Accept, Receives, clientVars, gwVars
  <2>2. f \in Frames /\ f.t = "route" /\ f.req \in Reqs
    BY <1>6, Accepted
  <2>3. f.req = <<f.req[1], f.req[2]>> /\ f.req[2] \in 1 .. MaxReqs
    BY <2>2, RequestForms
  <2>4. CASE f \in ReqFrames(c)
    <3>1. f.req = <<c, a>>
      BY <1>h, <1>y, <2>1, <2>2, <2>3, <2>4 DEF ReqFrames
    <3>2. \A n \in a + 1 .. MaxReqs : <<c, n>> # <<c, a>>
      BY <1>n
    <3> HIDE DEF f
    <3>3. \A n \in a + 1 .. MaxReqs : via'[<<c, n>>] = <<>>
      BY <1>l, <1>t, <2>1, <3>1, <3>2 DEF TypeOK
    <3>4. Runs(toDaemon', ReqFrames(c), ReqNum, a + 1, k) /\ a + 1 \in 1 .. asked[c] + 1
      BY <1>h, <2>1, <2>4 DEF f
    <3> QED
      BY <1>b, <2>1, <3>3, <3>4 DEF ReqInv
  <2>5. CASE f \notin ReqFrames(c)
    <3>1. f.req[1] # c
      BY <2>2, <2>5 DEF ReqFrames
    <3>2. \A n \in a .. MaxReqs : <<c, n>> # f.req /\ <<c, n>> \in Reqs
      <4> TAKE n \in a .. MaxReqs
      <4>1. n \in 1 .. MaxReqs
        BY <1>b, <1>n, BoundAssumption
      <4> QED
        BY <3>1, <4>1, RequestForms
    <3>3. Runs(toDaemon', ReqFrames(c), ReqNum, a, k)
      BY <1>h, <2>1, <2>5
    <3> HIDE DEF f
    <3>4. \A n \in a .. MaxReqs : via'[<<c, n>>] = <<>>
      BY <1>b, <1>t, <2>1, <3>2 DEF TypeOK
    <3> QED
      BY <1>b, <2>1, <3>3, <3>4 DEF ReqInv
  <2> QED BY <2>4, <2>5
<1>7. ASSUME (\E d \in Clients : FinishHandshake(d) \/ Read(d) \/ Close(d)) \/ Deliver \/ NoiseAnswer
             \/ (\E r \in Reqs : Encrypt(r) \/ Transmit(r)) \/ UNCHANGED vars
      PROVE  ReqInv(c)'
  <2>1. UNCHANGED <<toDaemon, asked, via, sub, up>>
    BY <1>7 DEF FinishHandshake, Read, Close, Deliver, NoiseAnswer, Encrypt, Transmit, vars, clientVars,
                gwVars, daemonVars
  <2> QED
    BY <1>t, <2>1, ReqKept
<1> QED
  BY <1>1, <1>2, <1>3, <1>4, <1>5, <1>6, <1>7 DEF Next
-----------------------------------------------------------------------------
(* The theorems *)

\* The invariant holds in every reachable state.
LEMMA ChannelInvHolds == Spec => []ChannelInv
<1>1. ASSUME ChannelInv, [Next]_vars PROVE ChannelInv'
  <2>1. \A c \in cfg.e2e : UpInv(c)'
    BY <1>1, UpStep
  <2>2. \A c \in Clients : DownInv(c)' /\ ReqInv(c)'
    BY <1>1, DownStep, ReqStep
  <2>3. cfg' = cfg
    BY <1>1, Fixed DEF ChannelInv
  <2>4. \A c \in cfg'.e2e : UpInv(c)'
    BY <2>1, <2>3
  <2> QED
    BY <1>1, <2>2, <2>4, TypeStep, WireStep, WorkStep, AuthenticStep, NoPlaintextStep DEF ChannelInv
<1> QED
  BY <1>1, ChannelInvInit, PTL DEF Spec

\* Every variable stays in its type, and sendMu is held by at most the one
\* goroutine that is between Encrypt and Transmit.
THEOREM ChannelTypeCorrect == Spec => []TypeOK
<1>1. ChannelInv => TypeOK
  BY DEF ChannelInv
<1> QED
  BY <1>1, ChannelInvHolds, PTL

\* A sealed frame that reaches its client is the one its counter expects: none
\* before it was lost, and none overtook it between the counter and the wire.
THEOREM ClientNeverOutOfStep == Spec => []LockStepDown
<1>1. ASSUME ChannelInv PROVE LockStepDown
  <2> SUFFICES ASSUME NEW c \in Clients, cpc[c] = "ready", down[c] # <<>>,
                      Head(down[c]).t = "route", Head(down[c]).sid = c
               PROVE  Head(down[c]).n = crecv[c]
    BY DEF LockStepDown
  <2>1. down[c] \in Seq(Frames) /\ crecv[c] \in Nat /\ dsend[c] \in Nat
    BY <1>1 DEF ChannelInv, TypeOK
  <2>2. Head(down[c]) \in Frames /\ Head(down[c]) \in DownFrames(c)
    BY <2>1, WireHead DEF DownFrames
  <2>3. PICK j \in 0 .. dsend[c] : Runs(down[c], DownFrames(c), DownNum, crecv[c], j)
    BY <1>1 DEF ChannelInv, DownInv
  <2>4. DownNum \in [Frames -> Nat] /\ j \in Nat
    BY <2>1, NumTypes
  <2>5. DownNum[Head(down[c])] = crecv[c]
    BY <2>1, <2>2, <2>3, <2>4, RunsHead
  <2> QED
    BY <2>2, <2>5 DEF DownNum
<1> QED
  BY <1>1, ChannelInvHolds, PTL

\* A frame of the current session that reaches the daemon is the one its
\* counter expects, however many frames of other sessions it skipped.
THEOREM DaemonNeverOutOfStep == Spec => []LockStepUp
<1>1. ASSUME ChannelInv PROVE LockStepUp
  <2> DEFINE f == Head(toDaemon)
  <2> SUFFICES ASSUME toDaemon # <<>>, f.t = "route", f.sid = session, session # Plain
               PROVE  f.n = drecv[session]
    BY DEF LockStepUp
  <2>1. session \in cfg.e2e /\ session \in Clients
    BY <1>1, ConfigForms DEF ChannelInv, WireInv, TypeOK
  <2>2. /\ toDaemon \in Seq(Frames) /\ drecv[session] \in Nat /\ csend[session] \in Nat
        /\ UpNum \in [Frames -> Nat]
    BY <1>1, <2>1, NumTypes DEF ChannelInv, TypeOK
  <2>3. f \in Frames /\ f \in UpFrames(session)
    BY <2>2, WireHead DEF UpFrames
  <2>4. PICK b \in 0 .. 1 + csend[session], k \in 0 .. 1 + csend[session] :
          Runs(toDaemon, UpFrames(session), UpNum, b, k) /\ b = 1 + drecv[session]
    BY <1>1, <2>1 DEF ChannelInv, UpInv
  <2>5. b \in Nat /\ k \in Nat
    BY <2>2
  <2>6. toDaemon # <<>> /\ Head(toDaemon) \in UpFrames(session)
    BY <2>3
  <2>7. UpNum[Head(toDaemon)] = b
    BY <2>2, <2>4, <2>5, <2>6, RunsHead
  <2>8. f.n + 1 = b /\ f.n \in Nat
    BY <2>3, <2>7 DEF UpNum, Frames
  <2> QED
    BY <2>2, <2>4, <2>8
<1> QED
  BY <1>1, ChannelInvHolds, PTL

\* A request runs at most once, in the session of the client that sent it; in
\* required mode that client's key is in the allowlist.
THEOREM RequestsAreAuthentic == Spec => []RequestIsAuthentic
<1>1. ChannelInv => RequestIsAuthentic
  BY DEF ChannelInv
<1> QED
  BY <1>1, ChannelInvHolds, PTL

\* In required mode nothing leaves the daemon in the clear.
THEOREM NothingInTheClear == Spec => []NoPlaintextWhenRequired
<1>1. ChannelInv => NoPlaintextWhenRequired
  BY DEF ChannelInv
<1> QED
  BY <1>1, ChannelInvHolds, PTL
=============================================================================
