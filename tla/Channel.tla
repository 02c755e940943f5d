------------------------------ MODULE Channel ------------------------------
(***************************************************************************)
(* The end-to-end channel between bridges and one daemon connection: the   *)
(* Noise handshake and the encrypted Route frames of cliclient (client.go, *)
(* router.go), of the daemon (cmd/agbridge/daemon.go) and of e2e.Session,  *)
(* carried over the wires of the relay in the gateway, which shows every   *)
(* daemon frame to the bridge that subscribed last.                        *)
(*                                                                         *)
(* A Noise session is named by the bridge connection whose NoiseInit       *)
(* created it: session ids are random and never collide.  Cryptography is  *)
(* ideal: a ciphertext opens only in its session, and only when the        *)
(* receiver's implicit counter equals the one it was sealed with.          *)
(***************************************************************************)
EXTENDS Naturals, Sequences, FiniteSets

CONSTANTS
    Clients,     \* bridge connections (one per CLI invocation)
    Plain,       \* no session: the "sid" of a plaintext frame
    Configs,     \* configurations: the daemon's e2e_mode, the clients whose key is
                 \* in its allowed_bridge_pubkeys, the clients that use e2e
    Serial,      \* TRUE: a client connects only when every other has closed
    MaxReqs,     \* requests per client
    MaxReplies   \* frames a tool goroutine sends for one request

ASSUME ClientAssumption == Plain \notin Clients /\ Serial \in BOOLEAN
\* Validation (config.go, state/validate.go) refuses required mode with an empty allowlist.
ASSUME ConfigAssumption ==
    /\ Configs \subseteq [mode : {"disabled", "optional", "required"},
                          allowed : SUBSET Clients, e2e : SUBSET Clients]
    /\ \A g \in Configs : g.mode = "required" => g.allowed # {}
ASSUME BoundAssumption == MaxReqs \in Nat /\ MaxReplies \in Nat \ {0}

Sids == Clients \cup {Plain}
Reqs == Clients \X (1 .. MaxReqs)
NoReq == <<Plain, 0>>
\* A frame on a wire: its session, its nonce, and whose request it belongs to.
Frames == [t : {"noise_init", "noise_resp", "error", "route"}, sid : Sids, n : Nat,
           req : Reqs \cup {NoReq}]

VARIABLES
    cfg,      \* the configuration, fixed for the connection
    cpc,      \* where each client is
    csend,    \* each client's sending counter
    crecv,    \* each client's receiving counter
    asked,    \* how many requests each client has sent
    sub,      \* where each client's handler in the gateway is
    writer,   \* DaemonProxy.writer
    up,       \* wires client -> gateway
    toDaemon, \* wire gateway -> daemon
    fromDaemon, \* wire daemon -> gateway
    down,     \* wires gateway -> client
    dpc,      \* the daemon's dispatcher
    session,  \* daemonState.session
    dsend,    \* sending counter of each Session object of the daemon
    drecv,    \* receiving counter of each Session object of the daemon
    sendMu,   \* holder of daemonState.sendMu
    work,     \* tool goroutines: where they are
    out,      \* the frame each has encrypted and not yet sent
    replies,  \* how many frames each has sent
    via       \* history: the session each accepted request came in

clientVars == <<cpc, csend, crecv, asked>>
gwVars == <<sub, writer>>
daemonVars == <<dpc, session, dsend, drecv, sendMu, work, out, replies, via>>
vars == <<cfg, clientVars, gwVars, up, toDaemon, fromDaemon, down, daemonVars>>

Frame(t, sid, n, req) == [t |-> t, sid |-> sid, n |-> n, req |-> req]
NoFrame == Frame("error", Plain, 0, NoReq)
-----------------------------------------------------------------------------
(* The bridge: cliclient *)

\* dial: Hello and HelloAck, then NoiseInit unless e2e is disabled.
Connect(c) ==
    /\ cpc[c] = "new"
    /\ Serial => \A d \in Clients \ {c} : cpc[d] \in {"new", "closed"}
    /\ \/ /\ c \in cfg.e2e
          /\ cpc' = [cpc EXCEPT ![c] = "wait"]
          /\ up' = [up EXCEPT ![c] = Append(@, Frame("noise_init", c, 0, NoReq))]
       \/ c \notin cfg.e2e /\ cpc' = [cpc EXCEPT ![c] = "ready"] /\ UNCHANGED up
    /\ UNCHANGED <<cfg, csend, crecv, asked, gwVars, toDaemon, fromDaemon, down, daemonVars>>

\* handshakeE2E: the next frame must be the daemon's answer to this NoiseInit;
\* anything else, and dial fails and closes the connection.
FinishHandshake(c) ==
    /\ cpc[c] = "wait" /\ down[c] # <<>>
    /\ LET f == Head(down[c])
           ok == f.t = "noise_resp" /\ f.sid = c
       IN /\ cpc' = [cpc EXCEPT ![c] = IF ok THEN "ready" ELSE "closed"]
          /\ down' = [down EXCEPT ![c] = IF ok THEN Tail(@) ELSE <<>>]
    /\ UNCHANGED <<cfg, csend, crecv, asked, gwVars, up, toDaemon, fromDaemon, daemonVars>>

\* sendInner: seal with the session's counter, and send, in one critical section.
Request(c) ==
    /\ cpc[c] = "ready" /\ asked[c] < MaxReqs
    /\ asked' = [asked EXCEPT ![c] = @ + 1]
    /\ up' = [up EXCEPT ![c] = Append(@, Frame("route", IF c \in cfg.e2e THEN c ELSE Plain,
                                               csend[c], <<c, asked'[c]>>))]
    /\ csend' = IF c \in cfg.e2e THEN [csend EXCEPT ![c] = @ + 1] ELSE csend
    /\ UNCHANGED <<cfg, cpc, crecv, gwVars, toDaemon, fromDaemon, down, daemonVars>>

\* decodeInbound: only a frame of this session, sealed with the expected
\* counter, opens; a plaintext client reads plaintext only.
Opens(c, f) ==
    /\ f.t = "route"
    /\ IF c \in cfg.e2e THEN f.sid = c /\ f.n = crecv[c] ELSE f.sid = Plain

\* runReader: open the next frame and hand it to the pending call, if any;
\* a frame that does not open is skipped and the counter stays.
Read(c) ==
    /\ cpc[c] = "ready" /\ down[c] # <<>>
    /\ crecv' = IF c \in cfg.e2e /\ Opens(c, Head(down[c])) THEN [crecv EXCEPT ![c] = @ + 1] ELSE crecv
    /\ down' = [down EXCEPT ![c] = Tail(@)]
    /\ UNCHANGED <<cfg, cpc, csend, asked, gwVars, up, toDaemon, fromDaemon, daemonVars>>

\* Client.Close, or the process dies: at any time.
Close(c) ==
    /\ cpc[c] \in {"wait", "ready"}
    /\ cpc' = [cpc EXCEPT ![c] = "closed"]
    /\ down' = [down EXCEPT ![c] = <<>>]
    /\ UNCHANGED <<cfg, csend, crecv, asked, gwVars, up, toDaemon, fromDaemon, daemonVars>>
-----------------------------------------------------------------------------
(* The relay in the gateway (module Gateway has its handlers in full) *)

\* handleBridge: SetWriter, before the first frame of the bridge is read.
Subscribe(c) ==
    /\ sub[c] = "none" /\ cpc[c] # "new"
    /\ sub' = [sub EXCEPT ![c] = "on"] /\ writer' = c
    /\ UNCHANGED <<cfg, clientVars, up, toDaemon, fromDaemon, down, daemonVars>>

\* handleBridge forwards a NoiseInit or Route frame to the daemon.
Forward(c) ==
    /\ sub[c] = "on" /\ up[c] # <<>>
    /\ toDaemon' = Append(toDaemon, Head(up[c]))
    /\ up' = [up EXCEPT ![c] = Tail(@)]
    /\ UNCHANGED <<cfg, clientVars, gwVars, fromDaemon, down, daemonVars>>

\* The bridge is gone: the deferred SetWriter(nil).
Unsubscribe(c) ==
    /\ sub[c] = "on" /\ cpc[c] = "closed"
    /\ sub' = [sub EXCEPT ![c] = "off"] /\ writer' = Plain
    /\ up' = [up EXCEPT ![c] = <<>>]
    /\ UNCHANGED <<cfg, clientVars, toDaemon, fromDaemon, down, daemonVars>>

\* handleDaemon: Deliver the next daemon frame to the writer, or drop it.
Deliver ==
    /\ fromDaemon # <<>>
    /\ fromDaemon' = Tail(fromDaemon)
    /\ down' = IF writer \in Clients /\ cpc[writer] # "closed"
               THEN [down EXCEPT ![writer] = Append(@, Head(fromDaemon))]
               ELSE down
    /\ UNCHANGED <<cfg, clientVars, gwVars, up, toDaemon, daemonVars>>
-----------------------------------------------------------------------------
(* The daemon *)

\* Faulty variant: the allowlist is not consulted.
peerAllowed_Always(c) == TRUE

\* An empty allowlist admits everyone, in optional mode only.
peerAllowed(c) == IF cfg.allowed = {} THEN cfg.mode = "optional" ELSE c \in cfg.allowed

Receives(type) == dpc = "recv" /\ toDaemon # <<>> /\ Head(toDaemon).t = type

\* handleNoiseInit, refused: an Error frame, sent past sendMu.
NoiseRefuse ==
    /\ Receives("noise_init")
    /\ cfg.mode = "disabled" \/ ~peerAllowed(Head(toDaemon).sid)
    /\ toDaemon' = Tail(toDaemon)
    /\ fromDaemon' = Append(fromDaemon, Frame("error", Head(toDaemon).sid, 0, NoReq))
    /\ UNCHANGED <<cfg, clientVars, gwVars, up, down, daemonVars>>

\* handleNoiseInit, accepted: the new session replaces the current one ...
NoiseInstall ==
    /\ Receives("noise_init")
    /\ cfg.mode # "disabled" /\ peerAllowed(Head(toDaemon).sid)
    /\ session' = Head(toDaemon).sid
    /\ dpc' = "resp"
    /\ toDaemon' = Tail(toDaemon)
    /\ UNCHANGED <<cfg, clientVars, gwVars, up, fromDaemon, down, dsend, drecv, sendMu, work, out,
                   replies, via>>

\* ... and NoiseResp is sent afterwards, past sendMu.
NoiseAnswer ==
    /\ dpc = "resp"
    /\ fromDaemon' = Append(fromDaemon, Frame("noise_resp", session, 0, NoReq))
    /\ dpc' = "recv"
    /\ UNCHANGED <<cfg, clientVars, gwVars, up, toDaemon, down, session, dsend, drecv, sendMu, work,
                   out, replies, via>>

\* Faulty variant: plaintext is accepted whatever the mode.
unwrapRoute_AnyMode(f) ==
    \/ session = Plain /\ f.sid = Plain
    \/ session # Plain /\ f.sid = session /\ f.n = drecv[session]

\* unwrapRoute: plaintext without a session unless e2e is required, and with a
\* session only what it opens.
unwrapRoute(f) ==
    \/ session = Plain /\ f.sid = Plain /\ cfg.mode # "required"
    \/ session # Plain /\ f.sid = session /\ f.n = drecv[session]

\* The dispatch of a request: go handle...(ctx, inner).
Accept ==
    /\ Receives("route")
    /\ LET f == Head(toDaemon) IN
        /\ unwrapRoute(f)
        /\ drecv' = IF session = Plain THEN drecv ELSE [drecv EXCEPT ![session] = @ + 1]
        /\ work' = [work EXCEPT ![f.req] = "run"]
        /\ via' = [via EXCEPT ![f.req] = Append(@, session)]
    /\ toDaemon' = Tail(toDaemon)
    /\ UNCHANGED <<cfg, clientVars, gwVars, up, fromDaemon, down, dpc, session, dsend, sendMu, out,
                   replies>>

\* Faulty variant: a frame of another session consumes a nonce of this one.
Skip_Advances ==
    /\ Receives("route") /\ ~unwrapRoute(Head(toDaemon))
    /\ toDaemon' = Tail(toDaemon)
    /\ drecv' = IF session = Plain THEN drecv ELSE [drecv EXCEPT ![session] = @ + 1]
    /\ UNCHANGED <<cfg, clientVars, gwVars, up, fromDaemon, down, dpc, session, dsend, sendMu,
                   work, out, replies, via>>

\* A Route frame that does not open is skipped, and the counter stays.
Skip ==
    /\ Receives("route") /\ ~unwrapRoute(Head(toDaemon))
    /\ toDaemon' = Tail(toDaemon)
    /\ UNCHANGED <<cfg, clientVars, gwVars, up, fromDaemon, down, daemonVars>>

\* What sendInner makes of a reply: sealed in the session of this moment.
Seal(r) == Frame("route", session, IF session = Plain THEN 0 ELSE dsend[session], r)

\* Faulty variant: sendInner encrypts without holding sendMu (F4).
Encrypt_Unlocked(r) ==
    /\ work[r] = "run" /\ replies[r] < MaxReplies
    /\ out' = [out EXCEPT ![r] = Seal(r)]
    /\ dsend' = IF session = Plain THEN dsend ELSE [dsend EXCEPT ![session] = @ + 1]
    /\ work' = [work EXCEPT ![r] = "send"]
    /\ UNCHANGED <<cfg, clientVars, gwVars, up, toDaemon, fromDaemon, down, dpc, session, drecv,
                   sendMu, replies, via>>

\* sendInner: lock sendMu, capture the session, encrypt ...
Encrypt(r) ==
    /\ work[r] = "run" /\ replies[r] < MaxReplies
    /\ sendMu = NoReq /\ sendMu' = r
    /\ out' = [out EXCEPT ![r] = Seal(r)]
    /\ dsend' = IF session = Plain THEN dsend ELSE [dsend EXCEPT ![session] = @ + 1]
    /\ work' = [work EXCEPT ![r] = "send"]
    /\ UNCHANGED <<cfg, clientVars, gwVars, up, toDaemon, fromDaemon, down, dpc, session, drecv,
                   replies, via>>

\* Faulty variant: sendInner returns without unlocking.
Transmit_KeepsLock(r) ==
    /\ work[r] = "send"
    /\ fromDaemon' = Append(fromDaemon, out[r])
    /\ out' = [out EXCEPT ![r] = NoFrame]
    /\ replies' = [replies EXCEPT ![r] = @ + 1]
    /\ \E next \in {"run", "done"} : work' = [work EXCEPT ![r] = next]
    /\ UNCHANGED <<cfg, clientVars, gwVars, up, toDaemon, down, dpc, session, dsend, drecv,
                   sendMu, via>>

\* ... send, unlock; the goroutine goes on, or this was its last frame.
Transmit(r) ==
    /\ work[r] = "send"
    /\ fromDaemon' = Append(fromDaemon, out[r])
    /\ sendMu' = NoReq
    /\ out' = [out EXCEPT ![r] = NoFrame]
    /\ replies' = [replies EXCEPT ![r] = @ + 1]
    /\ \E next \in {"run", "done"} : work' = [work EXCEPT ![r] = next]
    /\ UNCHANGED <<cfg, clientVars, gwVars, up, toDaemon, down, dpc, session, dsend, drecv, via>>
-----------------------------------------------------------------------------
Init ==
    /\ cfg \in Configs
    /\ cpc = [c \in Clients |-> "new"]
    /\ csend = [c \in Clients |-> 0] /\ crecv = [c \in Clients |-> 0]
    /\ asked = [c \in Clients |-> 0]
    /\ sub = [c \in Clients |-> "none"] /\ writer = Plain
    /\ up = [c \in Clients |-> <<>>] /\ down = [c \in Clients |-> <<>>]
    /\ toDaemon = <<>> /\ fromDaemon = <<>>
    /\ dpc = "recv" /\ session = Plain
    /\ dsend = [c \in Clients |-> 0] /\ drecv = [c \in Clients |-> 0]
    /\ sendMu = NoReq
    /\ work = [r \in Reqs |-> "none"] /\ out = [r \in Reqs |-> NoFrame]
    /\ replies = [r \in Reqs |-> 0]
    /\ via = [r \in Reqs |-> <<>>]

Next ==
    \/ \E c \in Clients :
          \/ Connect(c) \/ FinishHandshake(c) \/ Request(c) \/ Read(c) \/ Close(c)
          \/ Subscribe(c) \/ Forward(c) \/ Unsubscribe(c)
    \/ Deliver
    \/ NoiseRefuse \/ NoiseInstall \/ NoiseAnswer \/ Accept \/ Skip
    \/ \E r \in Reqs : Encrypt(r) \/ Transmit(r)

Spec == Init /\ [][Next]_vars
-----------------------------------------------------------------------------
(* Properties *)

\* Every variable stays in its type, and sendMu is held by at most the one
\* goroutine that is between Encrypt and Transmit.
TypeOK ==
    /\ cfg \in Configs
    /\ cpc \in [Clients -> {"new", "wait", "ready", "closed"}]
    /\ csend \in [Clients -> Nat] /\ crecv \in [Clients -> Nat]
    /\ asked \in [Clients -> 0 .. MaxReqs]
    /\ sub \in [Clients -> {"none", "on", "off"}] /\ writer \in Sids
    /\ up \in [Clients -> Seq(Frames)] /\ down \in [Clients -> Seq(Frames)]
    /\ toDaemon \in Seq(Frames) /\ fromDaemon \in Seq(Frames)
    /\ dpc \in {"recv", "resp"} /\ session \in Sids
    /\ dsend \in [Clients -> Nat] /\ drecv \in [Clients -> Nat]
    /\ sendMu \in Reqs \cup {NoReq}
    /\ work \in [Reqs -> {"none", "run", "send", "done"}] /\ out \in [Reqs -> Frames]
    /\ replies \in [Reqs -> 0 .. MaxReplies]
    /\ via \in [Reqs -> Seq(Sids)]
    /\ \A r \in Reqs : (work[r] = "send") <=> (sendMu = r)

\* Whatever tool goroutines run, sessions replace each other and frames are
\* dropped on the way, a frame of a client's own session that reaches the
\* client always opens: its counter never falls out of step (daemon.go sendMu,
\* ROADMAP F4).
LockStepDown ==
    \A c \in Clients :
        LET f == Head(down[c]) IN
        cpc[c] = "ready" /\ down[c] # <<>> /\ f.t = "route" /\ f.sid = c => f.n = crecv[c]

\* The same towards the daemon: a frame of the current session that arrives
\* always opens, whatever frames of other sessions were skipped in between.
LockStepUp ==
    LET f == Head(toDaemon) IN
    toDaemon # <<>> /\ f.t = "route" /\ f.sid = session /\ session # Plain
    => f.n = drecv[session]

\* A request runs at most once, and only in the session of the client that
\* sent it; in required mode that client's key is in the allowlist.
RequestIsAuthentic ==
    \A r \in Reqs :
        /\ Len(via[r]) <= 1
        /\ \A i \in DOMAIN via[r] :
              /\ via[r][i] = IF r[1] \in cfg.e2e THEN r[1] ELSE Plain
              /\ cfg.mode = "required" => via[r][i] # Plain /\ via[r][i] \in cfg.allowed

\* In required mode nothing leaves the daemon in the clear: a tool goroutine
\* cannot outlive the session that its request came in into a state without one.
NoPlaintextWhenRequired ==
    cfg.mode = "required"
    => \A i \in DOMAIN fromDaemon : fromDaemon[i].t = "route" => fromDaemon[i].sid # Plain
=============================================================================
