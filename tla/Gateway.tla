------------------------------ MODULE Gateway ------------------------------
(***************************************************************************)
(* The relay core of the gateway: the goroutine that serves each accepted  *)
(* connection (handleConn, handleDaemon, handleBridge in                   *)
(* internal/gateway/server.go), the daemon registry and its proxies        *)
(* (registry.go), the session table (sessions.go), the live credentials    *)
(* (credregistry.go) and the SIGHUP reload (cmd/agbridge/gateway.go).      *)
(*                                                                         *)
(* Every step of a handler between two lock acquisitions, sends or         *)
(* receives is one action; the handler's place is pc[c].  A connection is  *)
(* identified with what hangs off it one to one: its handler, its entry in *)
(* the session table and, for a daemon, its DaemonProxy.                   *)
(***************************************************************************)
EXTENDS Naturals, FiniteSets

CONSTANTS
    Conns,       \* connections the listener may accept
    Names,       \* names of agents and of daemons
    Keys,        \* secrets; a hash of a secret is identified with the secret
    NoKey,       \* "no entry of this name"
    NoConn,      \* nil
    Hellos,      \* Hello frames that peers may send
    Configs,     \* credential sets that a reload or an enrolment may install
    StartConfig, \* credentials when the gateway starts
    MaxReloads,  \* bound on the number of SIGHUPs
    MaxEnrols,   \* bound on the number of enrolments
    Stalls       \* whether a peer may stop reading while it stays connected

Roles == {"daemon", "bridge", "other"}
HelloType == [role : Roles, name : Names, key : Keys, target : Names]
AgentEntry == [key : Keys \cup {NoKey}, allowed : SUBSET Names]
CredType == [agents : [Names -> AgentEntry], daemons : [Names -> Keys \cup {NoKey}]]

ASSUME ConnAssumption == NoConn \notin Conns
ASSUME KeyAssumption == NoKey \notin Keys
ASSUME HelloAssumption == Hellos \subseteq HelloType /\ Hellos # {}
ASSUME ConfigAssumption == Configs \subseteq CredType /\ StartConfig \in CredType
ASSUME BoundAssumption == MaxReloads \in Nat /\ MaxEnrols \in Nat /\ Stalls \in BOOLEAN

VARIABLES
    creds,     \* CredRegistry: the two maps, swapped together by Replace
    reloads,   \* SIGHUPs handled so far (for the bound only)
    enrols,    \* devices enrolled so far (for the bound only)
    link,      \* state of each connection's socket
    hello,     \* the Hello each handler decoded
    pc,        \* where each handler is
    sessions,  \* SessionTable: the connections that have an entry
    registry,  \* Registry.daemons: name -> proxy (its connection)
    writer,    \* DaemonProxy.w: the bridge a daemon's frames go to
    proxy,     \* handleBridge's local proxy
    replaced,  \* handleBridge's local replaced
    captured,  \* Deliver's local w, read under the proxy's lock
    ledger,    \* audit trail: auth_ok appended, then conn_close
    first,     \* kind of the first frame the gateway wrote to a peer
    hup,       \* where the SIGHUP goroutine is
    snapshot   \* Revoke's local snapshot of the table

vars == <<creds, reloads, enrols, link, hello, pc, sessions, registry, writer, proxy,
          replaced, captured, ledger, first, hup, snapshot>>
connVars == <<link, hello, pc, sessions, registry, writer, proxy, replaced,
              captured, ledger, first>>
credVars == <<creds, reloads, enrols, hup, snapshot>>

\* Handler positions, named for the step that comes next.
DaemonPcs == {"dAuth", "dRegister", "dSession", "dAck", "dLoop", "dDeliver",
              "dRelease", "dUnregister"}
BridgePcs == {"bAuth", "bReplace", "bEvict", "bSever", "bAck", "bLookup",
              "bOffline", "bSubscribe", "bLoop", "bSend", "bFail", "bUnsub",
              "bClosed", "bRelease"}
Pcs == {"new", "close", "done"} \cup DaemonPcs \cup BridgePcs

\* Handlers that hold the registry's entry of their name.
RegisteredPcs == {"dSession", "dAck", "dLoop", "dDeliver", "dRelease", "dUnregister"}
\* Bridge handlers between SetWriter and the deferred SetWriter(nil).
SubscribedPcs == {"bLoop", "bSend", "bFail", "bUnsub"}
\* Bridge handlers that passed the credential and the allow-list checks.
AdmittedPcs == BridgePcs \ {"bAuth"}
-----------------------------------------------------------------------------
(* Sockets.  Recv fails on a closed socket.  wss.Conn.Send looks at its    *)
(* context only on entry and sets no write deadline, so on a stalled       *)
(* socket it does not return until the socket is closed.                   *)

Open(c) == link[c] # "closed"
SendReturns(c) == link[c] # "stalled"

\* The frame kind k reaches c's peer, first one recorded, if the socket is up.
FirstAfterSend(c, k) ==
    IF link[c] = "up" /\ first[c] = "none" THEN [first EXCEPT ![c] = k] ELSE first

Goto(c, p) == pc' = [pc EXCEPT ![c] = p]

\* The peer leaves, the network drops or keepaliveLoop closes the socket.
PeerGone(c) ==
    /\ pc[c] \notin {"new", "done"} /\ Open(c)
    /\ link' = [link EXCEPT ![c] = "closed"]
    /\ UNCHANGED <<hello, pc, sessions, registry, writer, proxy, replaced,
                   captured, ledger, first, credVars>>

\* A peer that is sent relayed frames stops reading for good and the socket's
\* send buffer fills up.  (One that reads again is only slow: the blocked
\* sender cannot tell it from a slow scheduler.)
PeerStalls(c) ==
    /\ Stalls /\ pc[c] \in SubscribedPcs \cup {"dLoop", "dDeliver"} /\ link[c] = "up"
    /\ link' = [link EXCEPT ![c] = "stalled"]
    /\ UNCHANGED <<hello, pc, sessions, registry, writer, proxy, replaced,
                   captured, ledger, first, credVars>>
-----------------------------------------------------------------------------
(* handleConn *)

\* Accept, readHello and the switch on the role.
Accept(c, h) ==
    /\ pc[c] = "new"
    /\ link' = [link EXCEPT ![c] = "up"]
    /\ hello' = [hello EXCEPT ![c] = h]
    /\ \/ h.role = "daemon" /\ Goto(c, "dAuth") /\ UNCHANGED first
       \/ h.role = "bridge" /\ Goto(c, "bAuth") /\ UNCHANGED first
       \/ /\ h.role = "other"                      \* unknown_role
          /\ Goto(c, "close") /\ first' = [first EXCEPT ![c] = "Error"]
    /\ UNCHANGED <<sessions, registry, writer, proxy, replaced, captured, ledger, credVars>>

\* readHello fails: another frame type, a malformed payload, a lost peer.
AcceptMalformed(c) ==
    /\ pc[c] = "new"
    /\ link' = [link EXCEPT ![c] = "up"]
    /\ Goto(c, "close")
    /\ UNCHANGED <<hello, sessions, registry, writer, proxy, replaced, captured,
                   ledger, first, credVars>>

\* The deferred c.Close() of handleConn: the handler is over.
CloseConn(c) ==
    /\ pc[c] = "close"
    /\ link' = [link EXCEPT ![c] = "closed"]
    /\ Goto(c, "done")
    /\ UNCHANGED <<hello, sessions, registry, writer, proxy, replaced, captured,
                   ledger, first, credVars>>

\* Send an Error frame on the handler's own connection, then continue at p.
Refuse(c, p) ==
    /\ SendReturns(c)
    /\ first' = FirstAfterSend(c, "Error")
    /\ Goto(c, p)
-----------------------------------------------------------------------------
(* handleDaemon *)

DaemonMatches(c) == creds.daemons[hello[c].name] = hello[c].key

DaemonAuth(c) ==
    /\ pc[c] = "dAuth"
    /\ \/ DaemonMatches(c) /\ Goto(c, "dRegister") /\ UNCHANGED first
       \/ ~DaemonMatches(c) /\ Refuse(c, "close")
    /\ UNCHANGED <<link, hello, sessions, registry, writer, proxy, replaced,
                   captured, ledger, credVars>>

\* Faulty variant: the last daemon to register takes the name over.
DaemonRegister_Overwrites(c) ==
    /\ pc[c] = "dRegister"
    /\ registry' = [registry EXCEPT ![hello[c].name] = c]
    /\ Goto(c, "dSession")
    /\ UNCHANGED <<link, hello, sessions, writer, proxy, replaced, captured,
                   ledger, first, credVars>>

\* Registry.Register: a name that is taken is refused.
DaemonRegister(c) ==
    LET n == hello[c].name IN
    /\ pc[c] = "dRegister"
    /\ \/ /\ registry[n] = NoConn
          /\ registry' = [registry EXCEPT ![n] = c]
          /\ Goto(c, "dSession") /\ UNCHANGED first
       \/ registry[n] # NoConn /\ Refuse(c, "close") /\ UNCHANGED registry
    /\ UNCHANGED <<link, hello, sessions, writer, proxy, replaced, captured, ledger, credVars>>

\* SessionTable.Register.
DaemonSession(c) ==
    /\ pc[c] = "dSession"
    /\ sessions' = sessions \cup {c}
    /\ Goto(c, "dAck")
    /\ UNCHANGED <<link, hello, registry, writer, proxy, replaced, captured,
                   ledger, first, credVars>>

\* HelloAck and the auth_ok record.
DaemonAck(c) ==
    /\ pc[c] = "dAck" /\ SendReturns(c)
    /\ first' = FirstAfterSend(c, "HelloAck")
    /\ ledger' = [ledger EXCEPT ![c] = "auth_ok"]
    /\ Goto(c, "dLoop")
    /\ UNCHANGED <<link, hello, sessions, registry, writer, proxy, replaced, captured, credVars>>

\* Recv returns a frame; Deliver reads the writer under the proxy's lock.
\* With no writer the frame is dropped, which changes nothing.
DaemonRecv(c) ==
    /\ pc[c] = "dLoop" /\ Open(c) /\ writer[c] # NoConn
    /\ captured' = [captured EXCEPT ![c] = writer[c]]
    /\ Goto(c, "dDeliver")
    /\ UNCHANGED <<link, hello, sessions, registry, writer, proxy, replaced,
                   ledger, first, credVars>>

\* The captured writer runs, outside the lock, on the bridge's connection;
\* bridgeCtx is cancelled once the bridge's handler has unsubscribed.
DaemonDeliver(c) ==
    LET b == captured[c]
        live == pc[b] \in SubscribedPcs \cup {"bClosed"}
    IN
    /\ pc[c] = "dDeliver"
    /\ live => SendReturns(b)
    /\ first' = IF live THEN FirstAfterSend(b, "Relay") ELSE first
    /\ captured' = [captured EXCEPT ![c] = NoConn]
    /\ Goto(c, "dLoop")
    /\ UNCHANGED <<link, hello, sessions, registry, writer, proxy, replaced, ledger, credVars>>

\* Recv fails and the deferred functions start: conn_close is appended.
DaemonRecvFails(c) ==
    /\ pc[c] = "dLoop"
    /\ ledger' = [ledger EXCEPT ![c] = "conn_close"]
    /\ Goto(c, "dRelease")
    /\ UNCHANGED <<link, hello, sessions, registry, writer, proxy, replaced,
                   captured, first, credVars>>

\* ReadMessage fails, for the socket is closed ...
DaemonLost(c) == ~Open(c) /\ DaemonRecvFails(c)
\* ... or the peer sent a frame that is not binary or does not decode.
DaemonGarbled(c) == Open(c) /\ DaemonRecvFails(c)

\* The release function of either role: delete the handler's own entry.
Release(c, from, to) ==
    /\ pc[c] = from
    /\ sessions' = sessions \ {c}
    /\ Goto(c, to)
    /\ UNCHANGED <<link, hello, registry, writer, proxy, replaced, captured,
                   ledger, first, credVars>>

\* Faulty variant: the deferred release is missing.
DaemonRelease_Forgotten(c) ==
    /\ pc[c] = "dRelease" /\ Goto(c, "dUnregister")
    /\ UNCHANGED <<link, hello, sessions, registry, writer, proxy, replaced,
                   captured, ledger, first, credVars>>

DaemonRelease(c) == Release(c, "dRelease", "dUnregister")

\* Registry.Unregister deletes by name, whoever holds the name.
DaemonUnregister(c) ==
    /\ pc[c] = "dUnregister"
    /\ registry' = [registry EXCEPT ![hello[c].name] = NoConn]
    /\ Goto(c, "close")
    /\ UNCHANGED <<link, hello, sessions, writer, proxy, replaced, captured,
                   ledger, first, credVars>>
-----------------------------------------------------------------------------
(* handleBridge *)

AgentMatches(c) ==
    LET e == creds.agents[hello[c].name] IN
    e.key = hello[c].key /\ hello[c].target \in e.allowed

\* Credential check, then the allow-list of the entry that was looked up.
BridgeAuth(c) ==
    /\ pc[c] = "bAuth"
    /\ \/ AgentMatches(c) /\ Goto(c, "bReplace") /\ UNCHANGED first
       \/ ~AgentMatches(c) /\ Refuse(c, "close")
    /\ UNCHANGED <<link, hello, sessions, registry, writer, proxy, replaced,
                   captured, ledger, credVars>>

\* The table's entries of the same role and name.
SameIdentity(c) ==
    {s \in sessions : hello[s].role = hello[c].role /\ hello[s].name = hello[c].name}

\* Faulty variant: the old entry is found but not dropped.
ReplaceByRoleName_KeepsOld(c, old) ==
    /\ IF SameIdentity(c) = {} THEN old = NoConn ELSE old \in SameIdentity(c)
    /\ sessions' = sessions \cup {c}

\* SessionTable.ReplaceByRoleName: under one lock, drop one matching entry
\* and add this one.
ReplaceByRoleName(c, old) ==
    /\ IF SameIdentity(c) = {} THEN old = NoConn ELSE old \in SameIdentity(c)
    /\ sessions' = (sessions \ {old}) \cup {c}

\* Faulty variant: the displaced connection is left alone.
BridgeReplace_NoEvict(c) ==
    /\ pc[c] = "bReplace"
    /\ \E old \in Conns \cup {NoConn} : ReplaceByRoleName(c, old)
    /\ Goto(c, "bAck")
    /\ UNCHANGED <<link, hello, registry, writer, proxy, replaced, captured,
                   ledger, first, credVars>>

BridgeReplace(c) ==
    /\ pc[c] = "bReplace"
    /\ \E old \in Conns \cup {NoConn} :
          /\ ReplaceByRoleName(c, old)
          /\ replaced' = [replaced EXCEPT ![c] = old]
          /\ Goto(c, IF old = NoConn THEN "bAck" ELSE "bEvict")
    /\ UNCHANGED <<link, hello, registry, writer, proxy, captured, ledger, first, credVars>>

\* replaced.Send(sendCtx, session_replaced).
BridgeEvict(c) ==
    /\ pc[c] = "bEvict" /\ SendReturns(replaced[c])
    /\ first' = FirstAfterSend(replaced[c], "Error")
    /\ Goto(c, "bSever")
    /\ UNCHANGED <<link, hello, sessions, registry, writer, proxy, replaced,
                   captured, ledger, credVars>>

\* replaced.Close().
BridgeSever(c) ==
    /\ pc[c] = "bSever"
    /\ link' = [link EXCEPT ![replaced[c]] = "closed"]
    /\ Goto(c, "bAck")
    /\ UNCHANGED <<hello, sessions, registry, writer, proxy, replaced, captured,
                   ledger, first, credVars>>

\* Faulty variant: the session is recorded and the HelloAck forgotten.
BridgeAck_NoFrame(c) ==
    /\ pc[c] = "bAck"
    /\ ledger' = [ledger EXCEPT ![c] = "auth_ok"]
    /\ Goto(c, "bLookup")
    /\ UNCHANGED <<link, hello, sessions, registry, writer, proxy, replaced,
                   captured, first, credVars>>

BridgeAck(c) ==
    /\ pc[c] = "bAck" /\ SendReturns(c)
    /\ first' = FirstAfterSend(c, "HelloAck")
    /\ ledger' = [ledger EXCEPT ![c] = "auth_ok"]
    /\ Goto(c, "bLookup")
    /\ UNCHANGED <<link, hello, sessions, registry, writer, proxy, replaced, captured, credVars>>

\* Registry.Lookup of the target.
BridgeLookup(c) ==
    LET p == registry[hello[c].target] IN
    /\ pc[c] = "bLookup"
    /\ proxy' = [proxy EXCEPT ![c] = p]
    /\ Goto(c, IF p = NoConn THEN "bOffline" ELSE "bSubscribe")
    /\ UNCHANGED <<link, hello, sessions, registry, writer, replaced, captured,
                   ledger, first, credVars>>

\* daemon_offline, and return.
BridgeOffline(c) ==
    /\ pc[c] = "bOffline" /\ Refuse(c, "bClosed")
    /\ UNCHANGED <<link, hello, sessions, registry, writer, proxy, replaced,
                   captured, ledger, credVars>>

\* proxy.SetWriter: the last caller's connection gets the daemon's frames.
BridgeSubscribe(c) ==
    /\ pc[c] = "bSubscribe"
    /\ writer' = [writer EXCEPT ![proxy[c]] = c]
    /\ Goto(c, "bLoop")
    /\ UNCHANGED <<link, hello, sessions, registry, proxy, replaced, captured,
                   ledger, first, credVars>>

\* Recv returns a Route, NoiseInit or NoiseRekey frame to forward, or a
\* Route frame whose MAC does not verify.  Other frames are ignored.
BridgeRecv(c) ==
    /\ pc[c] = "bLoop" /\ Open(c)
    /\ \E p \in {"bSend", "bFail"} : Goto(c, p)
    /\ UNCHANGED <<link, hello, sessions, registry, writer, proxy, replaced,
                   captured, ledger, first, credVars>>

\* proxy.Send on the daemon's connection; an error ends the session.
BridgeForward(c) ==
    /\ pc[c] = "bSend" /\ SendReturns(proxy[c])
    /\ first' = FirstAfterSend(proxy[c], "Relay")
    /\ Goto(c, IF Open(proxy[c]) THEN "bLoop" ELSE "bFail")
    /\ UNCHANGED <<link, hello, sessions, registry, writer, proxy, replaced,
                   captured, ledger, credVars>>

\* bad_mac or daemon_send_failed to the bridge, and return.
BridgeFail(c) ==
    /\ pc[c] = "bFail" /\ Refuse(c, "bUnsub")
    /\ UNCHANGED <<link, hello, sessions, registry, writer, proxy, replaced,
                   captured, ledger, credVars>>

BridgeRecvFails(c) ==
    /\ pc[c] = "bLoop"
    /\ Goto(c, "bUnsub")
    /\ UNCHANGED <<link, hello, sessions, registry, writer, proxy, replaced,
                   captured, ledger, first, credVars>>

BridgeLost(c) == ~Open(c) /\ BridgeRecvFails(c)
BridgeGarbled(c) == Open(c) /\ BridgeRecvFails(c)

\* Faulty variant: the deferred SetWriter(nil) is missing.
BridgeUnsubscribe_NoClear(c) ==
    /\ pc[c] = "bUnsub" /\ Goto(c, "bClosed")
    /\ UNCHANGED <<link, hello, sessions, registry, writer, proxy, replaced,
                   captured, ledger, first, credVars>>

\* The deferred proxy.SetWriter(nil), whoever the writer is by now.
BridgeUnsubscribe(c) ==
    /\ pc[c] = "bUnsub"
    /\ writer' = [writer EXCEPT ![proxy[c]] = NoConn]
    /\ Goto(c, "bClosed")
    /\ UNCHANGED <<link, hello, sessions, registry, proxy, replaced, captured,
                   ledger, first, credVars>>

\* The deferred cancel of bridgeCtx and the conn_close record.
BridgeClosed(c) ==
    /\ pc[c] = "bClosed"
    /\ ledger' = [ledger EXCEPT ![c] = "conn_close"]
    /\ Goto(c, "bRelease")
    /\ UNCHANGED <<link, hello, sessions, registry, writer, proxy, replaced,
                   captured, first, credVars>>

BridgeRelease(c) == Release(c, "bRelease", "close")
-----------------------------------------------------------------------------
(* Credentials: reload on SIGHUP, and enrolment of a device *)

\* Creds.Replace with the reloaded configuration.
HupReplace(cfg) ==
    /\ hup = "idle" /\ reloads < MaxReloads
    /\ creds' = cfg /\ reloads' = reloads + 1
    /\ hup' = "revoke"
    /\ UNCHANGED <<enrols, snapshot, connVars>>

\* Faulty variant: only the bridges of the table are copied.
RevokeSnapshot_BridgesOnly ==
    /\ hup = "revoke"
    /\ snapshot' = {s \in sessions : hello[s].role = "bridge"}
    /\ hup' = "closing"
    /\ UNCHANGED <<creds, reloads, enrols, connVars>>

\* Revoke copies the table under its lock ...
RevokeSnapshot ==
    /\ hup = "revoke"
    /\ snapshot' = sessions
    /\ hup' = "closing"
    /\ UNCHANGED <<creds, reloads, enrols, connVars>>

\* ... a session is kept if its name still has its key ...
Keep(s) ==
    IF hello[s].role = "bridge" THEN creds.agents[hello[s].name].key = hello[s].key
                                ELSE DaemonMatches(s)

\* Faulty variant: the socket is shut down in one direction only.
RevokeClose_HalfClose(s) ==
    /\ hup = "closing" /\ s \in snapshot
    /\ snapshot' = snapshot \ {s}
    /\ link' = IF Keep(s) THEN link ELSE [link EXCEPT ![s] = "half"]
    /\ UNCHANGED <<creds, reloads, enrols, hup, hello, pc, sessions, registry,
                   writer, proxy, replaced, captured, ledger, first>>

\* ... and closes the others one by one outside the lock.
RevokeClose(s) ==
    /\ hup = "closing" /\ s \in snapshot
    /\ snapshot' = snapshot \ {s}
    /\ link' = IF Keep(s) THEN link ELSE [link EXCEPT ![s] = "closed"]
    /\ UNCHANGED <<creds, reloads, enrols, hup, hello, pc, sessions, registry, writer,
                   proxy, replaced, captured, ledger, first>>

RevokeDone ==
    /\ hup = "closing" /\ snapshot = {}
    /\ hup' = "idle"
    /\ UNCHANGED <<creds, reloads, enrols, snapshot, connVars>>

\* AddAgent or AddDaemon, called by the enrolment handler: one entry of one
\* map is inserted or replaced, and no session is revoked.
AddEntry(n, cfg) ==
    /\ enrols < MaxEnrols /\ enrols' = enrols + 1
    /\ \/ creds' = [creds EXCEPT !.agents[n] = cfg.agents[n]]
       \/ creds' = [creds EXCEPT !.daemons[n] = cfg.daemons[n]]
    /\ UNCHANGED <<reloads, hup, snapshot, connVars>>
-----------------------------------------------------------------------------
Init ==
    /\ creds = StartConfig
    /\ reloads = 0 /\ enrols = 0
    /\ link = [c \in Conns |-> "closed"]
    /\ hello = [c \in Conns |-> CHOOSE h \in Hellos : TRUE]  \* not read before Accept
    /\ pc = [c \in Conns |-> "new"]
    /\ sessions = {}
    /\ registry = [n \in Names |-> NoConn]
    /\ writer = [c \in Conns |-> NoConn]
    /\ proxy = [c \in Conns |-> NoConn]
    /\ replaced = [c \in Conns |-> NoConn]
    /\ captured = [c \in Conns |-> NoConn]
    /\ ledger = [c \in Conns |-> "none"]
    /\ first = [c \in Conns |-> "none"]
    /\ hup = "idle"
    /\ snapshot = {}

\* The steps the handler of c takes by itself.
HandlerStep(c) ==
    \/ CloseConn(c)
    \/ DaemonAuth(c) \/ DaemonRegister(c) \/ DaemonSession(c) \/ DaemonAck(c)
    \/ DaemonDeliver(c) \/ DaemonLost(c) \/ DaemonRelease(c) \/ DaemonUnregister(c)
    \/ BridgeAuth(c) \/ BridgeReplace(c) \/ BridgeEvict(c) \/ BridgeSever(c)
    \/ BridgeAck(c) \/ BridgeLookup(c) \/ BridgeOffline(c) \/ BridgeSubscribe(c)
    \/ BridgeForward(c) \/ BridgeFail(c) \/ BridgeLost(c) \/ BridgeUnsubscribe(c)
    \/ BridgeClosed(c) \/ BridgeRelease(c)

RevokeStep == RevokeSnapshot \/ RevokeDone \/ \E s \in Conns : RevokeClose(s)

Next ==
    \/ \E c \in Conns :
          \/ \E h \in Hellos : Accept(c, h)
          \/ AcceptMalformed(c)
          \/ PeerGone(c) \/ PeerStalls(c)
          \/ DaemonRecv(c) \/ BridgeRecv(c)
          \/ HandlerStep(c)
          \/ DaemonGarbled(c) \/ BridgeGarbled(c)
    \/ RevokeStep
    \/ \E cfg \in Configs : HupReplace(cfg) \/ \E n \in Names : AddEntry(n, cfg)

\* The Go scheduler runs every runnable goroutine; peers, signals and
\* enrolments are the environment and are owed nothing.
Fairness == (\A c \in Conns : WF_vars(HandlerStep(c))) /\ WF_vars(RevokeStep)

Spec == Init /\ [][Next]_vars
FairSpec == Spec /\ Fairness
-----------------------------------------------------------------------------
(* Properties *)

ConnOrNil == Conns \cup {NoConn}

\* Every variable stays in its type.
TypeOK ==
    /\ creds \in CredType
    /\ reloads \in 0..MaxReloads /\ enrols \in 0..MaxEnrols
    /\ link \in [Conns -> {"up", "stalled", "closed"}]
    /\ hello \in [Conns -> HelloType]
    /\ pc \in [Conns -> Pcs]
    /\ sessions \in SUBSET Conns
    /\ registry \in [Names -> ConnOrNil]
    /\ writer \in [Conns -> ConnOrNil]
    /\ proxy \in [Conns -> ConnOrNil]
    /\ replaced \in [Conns -> ConnOrNil]
    /\ captured \in [Conns -> ConnOrNil]
    /\ ledger \in [Conns -> {"none", "auth_ok", "conn_close"}]
    /\ first \in [Conns -> {"none", "HelloAck", "Error", "Relay"}]
    /\ hup \in {"idle", "revoke", "closing"}
    /\ snapshot \in SUBSET Conns

\* "Last writer wins": the session table never holds two bridges of one
\* identity, however their handshakes interleave (sessions.go).
OneBridgePerName ==
    \A a, b \in sessions :
        hello[a].role = "bridge" /\ hello[b].role = "bridge" /\ hello[a].name = hello[b].name
        => a = b

\* Unregister deletes by name and never by owner, yet the registry's entry of
\* a name is exactly the one daemon handler between its Register and its
\* Unregister: no handler removes or shadows another's entry (registry.go).
RegistryExact ==
    \A n \in Names, c \in Conns :
        registry[n] = c <=> pc[c] \in RegisteredPcs /\ hello[c].name = n

\* The writer a daemon's frames go to, and a writer already captured by
\* Deliver, belong to an admitted bridge whose target is that daemon; an
\* installed writer's handler has not yet unsubscribed, so frames are never
\* queued for a bridge that is gone (server.go: "drops further frames instead
\* of writing to a dead bconn").
WriterServesTarget ==
    \A d, b \in Conns :
        /\ writer[d] = b => /\ pc[b] \in SubscribedPcs /\ proxy[b] = d
                            /\ hello[b].role = "bridge" /\ hello[b].target = hello[d].name
        /\ captured[d] = b => /\ hello[b].role = "bridge"
                              /\ hello[b].target = hello[d].name

\* A handler that was admitted to the table and is still set up or served.
ServedPcs == {"dAck", "dLoop", "dDeliver", "dRelease"} \cup (AdmittedPcs \ {"bReplace"})
Displaced(c) == pc[c] \in ServedPcs /\ c \notin sessions

\* Revoke finds a connection only through the session table.  A handler that
\* is served without an entry there has lost it to a successor that is about
\* to sever its socket, or its socket is closed already: none is out of reach.
NoOrphanHandler ==
    \A b \in Conns :
        Displaced(b) =>
            \/ ~Open(b)
            \/ \E c \in Conns : pc[c] \in {"bEvict", "bSever"} /\ replaced[c] = b

\* A bridge never sees a frame of the daemon before the gateway's own answer
\* to its Hello, which is the one frame the client's dial waits for.
BridgeAnsweredFirst ==
    \A c \in Conns : first[c] = "Relay" => hello[c].role # "bridge"

SomeStalled == \E c \in Conns : link[c] = "stalled"

\* A handler whose socket is closed ends, with its registry entry, table entry
\* and audit record cleaned up, unless a peer stops reading.
Drained(c) == pc[c] = "done" /\ c \notin sessions /\ ledger[c] # "auth_ok"
HandlerEnds ==
    \A c \in Conns : (pc[c] # "new" /\ ~Open(c)) ~> (Drained(c) \/ SomeStalled)

\* A session in the table whose key is gone when Revoke starts is closed, even
\* if it is displaced from the table meanwhile, unless its key comes back or
\* a peer stops reading.
RevocationTakesEffect ==
    \A c \in Conns :
        (hup = "revoke" /\ c \in sessions /\ ~Keep(c)) ~> (~Open(c) \/ Keep(c) \/ SomeStalled)

(* What comments in the code say, and the code does not do *)

\* server.go:208: "Subscribe to daemon->bridge frames for the duration of this
\* session.  On return, clear the writer so the daemon read loop in
\* handleDaemon drops further frames instead of writing to a dead bconn."
\* The frames of a daemon are dropped only after the bridge has returned, never
\* while a bridge it serves is in its loop with a live socket.
SubscribedForSession ==
    \A b \in sessions :
        pc[b] \in {"bLoop", "bSend"} /\ link[b] = "up" => writer[proxy[b]] # NoConn
=============================================================================
