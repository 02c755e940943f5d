--------------------------- MODULE GatewayProofs ---------------------------
(***************************************************************************)
(* Safety of the gateway for any set of connections, names, keys, hellos   *)
(* and configurations.                                                     *)
(***************************************************************************)
EXTENDS Gateway, TLAPS

\* A handler runs the code of the role its Hello named.
RoleInv ==
    \A c \in Conns :
        /\ pc[c] \in DaemonPcs => hello[c].role = "daemon"
        /\ pc[c] \in BridgePcs => hello[c].role = "bridge"

\* A connection that has not been accepted is known nowhere.
FreshInv ==
    \A c \in Conns :
        pc[c] = "new" => /\ first[c] = "none" /\ writer[c] = NoConn /\ captured[c] = NoConn

\* The session table holds handlers between their Register and their release.
SessionInv == \A c \in sessions : pc[c] \in ServedPcs

\* A bridge's proxy is the connection of a daemon of the bridge's target name.
ProxyInv ==
    \A b \in Conns :
        pc[b] \in SubscribedPcs \cup {"bSubscribe"} =>
            /\ proxy[b] \in Conns
            /\ pc[proxy[b]] # "new"
            /\ hello[proxy[b]].role = "daemon"
            /\ hello[proxy[b]].name = hello[b].target

\* What Deliver captured is an accepted bridge of this daemon.
CapturedInv ==
    \A d, b \in Conns :
        captured[d] = b => /\ pc[b] # "new"
                           /\ hello[b].role = "bridge"
                           /\ hello[b].target = hello[d].name
                           /\ first[b] # "none" \/ link[b] = "closed"

\* A handler in dDeliver has captured a writer.
DeliverInv == \A d \in Conns : pc[d] = "dDeliver" => captured[d] \in Conns

\* A handler that is about to evict knows whom.
EvictInv ==
    \A c \in Conns :
        pc[c] \in {"bEvict", "bSever"} => replaced[c] \in Conns /\ pc[replaced[c]] # "new"

\* A bridge past its HelloAck has been answered, or could not be.
AnsweredPcs == {"bLookup", "bOffline", "bSubscribe", "bClosed"} \cup SubscribedPcs
AnsweredInv ==
    \A b \in Conns :
        pc[b] \in AnsweredPcs => first[b] # "none" \/ link[b] = "closed"

\* The inductive invariant, in four groups.
LocalInv == RoleInv /\ FreshInv /\ SessionInv /\ DeliverInv /\ EvictInv
RelayInv == ProxyInv /\ CapturedInv /\ AnsweredInv /\ BridgeAnsweredFirst
TableInv == OneBridgePerName /\ RegistryExact /\ WriterServesTarget
IInv == TypeOK /\ LocalInv /\ RelayInv /\ TableInv /\ NoOrphanHandler
-----------------------------------------------------------------------------
USE ConnAssumption
USE DEF ConnOrNil, Pcs, DaemonPcs, BridgePcs, ServedPcs, AdmittedPcs,
        SubscribedPcs, RegisteredPcs, AnsweredPcs

\* A step of one handler that neither starts nor ends an eviction, admits
\* nobody and reopens no socket keeps every displaced handler accounted for.
LEMMA OrphanFrame ==
    ASSUME NEW c \in Conns, NoOrphanHandler,
           \A x \in Conns \ {c} : pc'[x] = pc[x] /\ (x \in sessions => x \in sessions'),
           pc[c] \notin {"bEvict", "bSever"},
           pc'[c] \in ServedPcs => c \in sessions' \/ (pc[c] \in ServedPcs /\ c \notin sessions),
           \A x \in Conns : link[x] = "closed" => link'[x] = "closed",
           UNCHANGED replaced
    PROVE  NoOrphanHandler'
  <1> SUFFICES ASSUME NEW b \in Conns, Displaced(b)', Open(b)'
               PROVE  \E x \in Conns : pc'[x] \in {"bEvict", "bSever"} /\ replaced'[x] = b
    BY DEF NoOrphanHandler
  <1>1. Displaced(b) /\ Open(b)
    BY DEF Displaced, Open
  <1>2. PICK x \in Conns : pc[x] \in {"bEvict", "bSever"} /\ replaced[x] = b
    BY <1>1 DEF NoOrphanHandler
  <1> QED BY <1>2

\* PeerGone keeps the invariant.
LEMMA PeerGoneStep == ASSUME NEW c \in Conns, IInv, PeerGone(c) PROVE IInv'
  <1> USE DEF IInv, PeerGone, Goto, Refuse, FirstAfterSend, SendReturns, Open, credVars
  <1>1. TypeOK'
    BY DEF TypeOK, EvictInv, LocalInv
  <1>2. LocalInv'
    BY DEF TypeOK, LocalInv, RelayInv, TableInv, RoleInv, FreshInv, SessionInv,
           DeliverInv, EvictInv, ProxyInv, WriterServesTarget
  <1>3. RelayInv'
    BY DEF TypeOK, LocalInv, RelayInv, TableInv, RoleInv, FreshInv, SessionInv,
           DeliverInv, EvictInv, ProxyInv, CapturedInv, AnsweredInv, BridgeAnsweredFirst,
           RegistryExact, WriterServesTarget
  <1>4. TableInv'
    BY DEF TypeOK, LocalInv, RelayInv, TableInv, RoleInv, FreshInv, SessionInv, ProxyInv,
           CapturedInv, OneBridgePerName, RegistryExact, WriterServesTarget
  <1>5. NoOrphanHandler'
    BY DEF TypeOK, LocalInv, SessionInv, EvictInv, NoOrphanHandler, Displaced
  <1> QED BY <1>1, <1>2, <1>3, <1>4, <1>5

\* PeerStalls keeps the invariant.
LEMMA PeerStallsStep == ASSUME NEW c \in Conns, IInv, PeerStalls(c) PROVE IInv'
  <1> USE DEF IInv, PeerStalls, Goto, Refuse, FirstAfterSend, SendReturns, Open, credVars
  <1>1. TypeOK'
    BY DEF TypeOK, EvictInv, LocalInv
  <1>2. LocalInv'
    BY DEF TypeOK, LocalInv, RelayInv, TableInv, RoleInv, FreshInv, SessionInv,
           DeliverInv, EvictInv, ProxyInv, WriterServesTarget
  <1>3. RelayInv'
    BY DEF TypeOK, LocalInv, RelayInv, TableInv, RoleInv, FreshInv, SessionInv,
           DeliverInv, EvictInv, ProxyInv, CapturedInv, AnsweredInv, BridgeAnsweredFirst,
           RegistryExact, WriterServesTarget
  <1>4. TableInv'
    BY DEF TypeOK, LocalInv, RelayInv, TableInv, RoleInv, FreshInv, SessionInv, ProxyInv,
           CapturedInv, OneBridgePerName, RegistryExact, WriterServesTarget
  <1>5. NoOrphanHandler'
    BY DEF TypeOK, LocalInv, SessionInv, EvictInv, NoOrphanHandler, Displaced
  <1> QED BY <1>1, <1>2, <1>3, <1>4, <1>5

\* AcceptMalformed keeps the invariant.
LEMMA AcceptMalformedStep == ASSUME NEW c \in Conns, IInv, AcceptMalformed(c) PROVE IInv'
  <1> USE DEF IInv, AcceptMalformed, Goto, Refuse, FirstAfterSend, SendReturns, Open,
            credVars
  <1>1. TypeOK'
    BY DEF TypeOK, EvictInv, LocalInv
  <1>2. LocalInv'
    BY DEF TypeOK, LocalInv, RelayInv, TableInv, RoleInv, FreshInv, SessionInv,
           DeliverInv, EvictInv, ProxyInv, WriterServesTarget
  <1>3. RelayInv'
    BY DEF TypeOK, LocalInv, RelayInv, TableInv, RoleInv, FreshInv, SessionInv,
           DeliverInv, EvictInv, ProxyInv, CapturedInv, AnsweredInv, BridgeAnsweredFirst,
           RegistryExact, WriterServesTarget
  <1>4. TableInv'
    BY DEF TypeOK, LocalInv, RelayInv, TableInv, RoleInv, FreshInv, SessionInv, ProxyInv,
           CapturedInv, OneBridgePerName, RegistryExact, WriterServesTarget
  <1>5. NoOrphanHandler'
    BY DEF TypeOK, LocalInv, SessionInv, EvictInv, NoOrphanHandler, Displaced
  <1> QED BY <1>1, <1>2, <1>3, <1>4, <1>5

\* CloseConn keeps the invariant.
LEMMA CloseConnStep == ASSUME NEW c \in Conns, IInv, CloseConn(c) PROVE IInv'
  <1> USE DEF IInv, CloseConn, Goto, Refuse, FirstAfterSend, SendReturns, Open, credVars
  <1>1. TypeOK'
    BY DEF TypeOK, EvictInv, LocalInv
  <1>2. LocalInv'
    BY DEF TypeOK, LocalInv, RelayInv, TableInv, RoleInv, FreshInv, SessionInv,
           DeliverInv, EvictInv, ProxyInv, WriterServesTarget
  <1>3. RelayInv'
    BY DEF TypeOK, LocalInv, RelayInv, TableInv, RoleInv, FreshInv, SessionInv,
           DeliverInv, EvictInv, ProxyInv, CapturedInv, AnsweredInv, BridgeAnsweredFirst,
           RegistryExact, WriterServesTarget
  <1>4. TableInv'
    BY DEF TypeOK, LocalInv, RelayInv, TableInv, RoleInv, FreshInv, SessionInv, ProxyInv,
           CapturedInv, OneBridgePerName, RegistryExact, WriterServesTarget
  <1>5. NoOrphanHandler'
    BY OrphanFrame DEF TypeOK, LocalInv, SessionInv
  <1> QED BY <1>1, <1>2, <1>3, <1>4, <1>5

\* DaemonAuth keeps the invariant.
LEMMA DaemonAuthStep == ASSUME NEW c \in Conns, IInv, DaemonAuth(c) PROVE IInv'
  <1> USE DEF IInv, DaemonAuth, Goto, Refuse, FirstAfterSend, SendReturns, Open, credVars
  <1>1. TypeOK'
    BY DEF TypeOK, EvictInv, LocalInv
  <1>2. LocalInv'
    BY SMTT(40) DEF TypeOK, LocalInv, RelayInv, TableInv, RoleInv, FreshInv, SessionInv,
           DeliverInv, EvictInv, ProxyInv, WriterServesTarget
  <1>3. RelayInv'
    BY DEF TypeOK, LocalInv, RelayInv, TableInv, RoleInv, FreshInv, SessionInv,
           DeliverInv, EvictInv, ProxyInv, CapturedInv, AnsweredInv, BridgeAnsweredFirst,
           RegistryExact, WriterServesTarget
  <1>4. TableInv'
    BY DEF TypeOK, LocalInv, RelayInv, TableInv, RoleInv, FreshInv, SessionInv, ProxyInv,
           CapturedInv, OneBridgePerName, RegistryExact, WriterServesTarget
  <1>5. NoOrphanHandler'
    BY OrphanFrame DEF TypeOK, LocalInv, SessionInv
  <1> QED BY <1>1, <1>2, <1>3, <1>4, <1>5

\* DaemonRegister keeps the invariant.
LEMMA DaemonRegisterStep == ASSUME NEW c \in Conns, IInv, DaemonRegister(c) PROVE IInv'
  <1> USE DEF IInv, DaemonRegister, Goto, Refuse, FirstAfterSend, SendReturns, Open,
            credVars
  <1>1. TypeOK'
    BY DEF TypeOK, EvictInv, LocalInv
  <1>2. LocalInv'
    BY DEF TypeOK, LocalInv, RelayInv, TableInv, RoleInv, FreshInv, SessionInv,
           DeliverInv, EvictInv, ProxyInv, WriterServesTarget
  <1>3. RelayInv'
    BY DEF TypeOK, LocalInv, RelayInv, TableInv, RoleInv, FreshInv, SessionInv,
           DeliverInv, EvictInv, ProxyInv, CapturedInv, AnsweredInv, BridgeAnsweredFirst,
           RegistryExact, WriterServesTarget
  <1>4. TableInv'
    BY DEF TypeOK, LocalInv, RelayInv, TableInv, RoleInv, FreshInv, SessionInv, ProxyInv,
           CapturedInv, OneBridgePerName, RegistryExact, WriterServesTarget
  <1>5. NoOrphanHandler'
    BY OrphanFrame DEF TypeOK, LocalInv, SessionInv
  <1> QED BY <1>1, <1>2, <1>3, <1>4, <1>5

\* DaemonSession keeps the invariant.
LEMMA DaemonSessionStep == ASSUME NEW c \in Conns, IInv, DaemonSession(c) PROVE IInv'
  <1> USE DEF IInv, DaemonSession, Goto, Refuse, FirstAfterSend, SendReturns, Open, credVars
  <1>1. TypeOK'
    BY DEF TypeOK, EvictInv, LocalInv
  <1>2. LocalInv'
    BY DEF TypeOK, LocalInv, RelayInv, TableInv, RoleInv, FreshInv, SessionInv,
           DeliverInv, EvictInv, ProxyInv, WriterServesTarget
  <1>3. RelayInv'
    BY DEF TypeOK, LocalInv, RelayInv, TableInv, RoleInv, FreshInv, SessionInv,
           DeliverInv, EvictInv, ProxyInv, CapturedInv, AnsweredInv, BridgeAnsweredFirst,
           RegistryExact, WriterServesTarget
  <1>4. TableInv'
    BY DEF TypeOK, LocalInv, RelayInv, TableInv, RoleInv, FreshInv, SessionInv, ProxyInv,
           CapturedInv, OneBridgePerName, RegistryExact, WriterServesTarget
  <1>5. NoOrphanHandler'
    BY OrphanFrame DEF TypeOK, LocalInv, SessionInv
  <1> QED BY <1>1, <1>2, <1>3, <1>4, <1>5

\* DaemonAck keeps the invariant.
LEMMA DaemonAckStep == ASSUME NEW c \in Conns, IInv, DaemonAck(c) PROVE IInv'
  <1> USE DEF IInv, DaemonAck, Goto, Refuse, FirstAfterSend, SendReturns, Open, credVars
  <1>1. TypeOK'
    BY DEF TypeOK, EvictInv, LocalInv
  <1>2. LocalInv'
    BY DEF TypeOK, LocalInv, RelayInv, TableInv, RoleInv, FreshInv, SessionInv,
           DeliverInv, EvictInv, ProxyInv, WriterServesTarget
  <1>3. RelayInv'
    BY DEF TypeOK, LocalInv, RelayInv, TableInv, RoleInv, FreshInv, SessionInv,
           DeliverInv, EvictInv, ProxyInv, CapturedInv, AnsweredInv, BridgeAnsweredFirst,
           RegistryExact, WriterServesTarget
  <1>4. TableInv'
    BY DEF TypeOK, LocalInv, RelayInv, TableInv, RoleInv, FreshInv, SessionInv, ProxyInv,
           CapturedInv, OneBridgePerName, RegistryExact, WriterServesTarget
  <1>5. NoOrphanHandler'
    BY OrphanFrame DEF TypeOK, LocalInv, SessionInv
  <1> QED BY <1>1, <1>2, <1>3, <1>4, <1>5

\* DaemonRecv keeps the invariant.
LEMMA DaemonRecvStep == ASSUME NEW c \in Conns, IInv, DaemonRecv(c) PROVE IInv'
  <1> USE DEF IInv, DaemonRecv, Goto, Refuse, FirstAfterSend, SendReturns, Open, credVars
  <1>1. TypeOK'
    BY DEF TypeOK, EvictInv, LocalInv
  <1>2. LocalInv'
    BY DEF TypeOK, LocalInv, RelayInv, TableInv, RoleInv, FreshInv, SessionInv,
           DeliverInv, EvictInv, ProxyInv, WriterServesTarget
  <1>3. RelayInv'
    BY DEF TypeOK, LocalInv, RelayInv, TableInv, RoleInv, FreshInv, SessionInv,
           DeliverInv, EvictInv, ProxyInv, CapturedInv, AnsweredInv, BridgeAnsweredFirst,
           RegistryExact, WriterServesTarget
  <1>4. TableInv'
    BY DEF TypeOK, LocalInv, RelayInv, TableInv, RoleInv, FreshInv, SessionInv, ProxyInv,
           CapturedInv, OneBridgePerName, RegistryExact, WriterServesTarget
  <1>5. NoOrphanHandler'
    BY OrphanFrame DEF TypeOK, LocalInv, SessionInv
  <1> QED BY <1>1, <1>2, <1>3, <1>4, <1>5

\* DaemonDeliver keeps the invariant.
LEMMA DaemonDeliverStep == ASSUME NEW c \in Conns, IInv, DaemonDeliver(c) PROVE IInv'
  <1> USE DEF IInv, DaemonDeliver, Goto, Refuse, FirstAfterSend, SendReturns, Open, credVars
  <1>1. TypeOK'
    BY DEF TypeOK, EvictInv, LocalInv
  <1>2. LocalInv'
    BY DEF TypeOK, LocalInv, RelayInv, TableInv, RoleInv, FreshInv, SessionInv,
           DeliverInv, EvictInv, ProxyInv, WriterServesTarget
  <1>3. RelayInv'
    BY DEF TypeOK, LocalInv, RelayInv, TableInv, RoleInv, FreshInv, SessionInv,
           DeliverInv, EvictInv, ProxyInv, CapturedInv, AnsweredInv, BridgeAnsweredFirst,
           RegistryExact, WriterServesTarget
  <1>4. TableInv'
    BY DEF TypeOK, LocalInv, RelayInv, TableInv, RoleInv, FreshInv, SessionInv, ProxyInv,
           CapturedInv, OneBridgePerName, RegistryExact, WriterServesTarget
  <1>5. NoOrphanHandler'
    BY OrphanFrame DEF TypeOK, LocalInv, SessionInv
  <1> QED BY <1>1, <1>2, <1>3, <1>4, <1>5

\* DaemonRecvFails keeps the invariant, whether the socket is closed or not.
LEMMA DaemonRecvFailsStep == ASSUME NEW c \in Conns, IInv, DaemonRecvFails(c) PROVE IInv'
  <1> USE DEF IInv, DaemonRecvFails, Goto, Refuse, FirstAfterSend, SendReturns, Open, credVars
  <1>1. TypeOK'
    BY DEF TypeOK, EvictInv, LocalInv
  <1>2. LocalInv'
    BY DEF TypeOK, LocalInv, RelayInv, TableInv, RoleInv, FreshInv, SessionInv,
           DeliverInv, EvictInv, ProxyInv, WriterServesTarget
  <1>3. RelayInv'
    BY DEF TypeOK, LocalInv, RelayInv, TableInv, RoleInv, FreshInv, SessionInv,
           DeliverInv, EvictInv, ProxyInv, CapturedInv, AnsweredInv, BridgeAnsweredFirst,
           RegistryExact, WriterServesTarget
  <1>4. TableInv'
    BY DEF TypeOK, LocalInv, RelayInv, TableInv, RoleInv, FreshInv, SessionInv, ProxyInv,
           CapturedInv, OneBridgePerName, RegistryExact, WriterServesTarget
  <1>5. NoOrphanHandler'
    BY OrphanFrame DEF TypeOK, LocalInv, SessionInv
  <1> QED BY <1>1, <1>2, <1>3, <1>4, <1>5

\* DaemonRelease keeps the invariant.
LEMMA DaemonReleaseStep == ASSUME NEW c \in Conns, IInv, DaemonRelease(c) PROVE IInv'
  <1> USE DEF IInv, DaemonRelease, Goto, Refuse, FirstAfterSend, SendReturns, Open,
            credVars, Release
  <1>1. TypeOK'
    BY DEF TypeOK, EvictInv, LocalInv
  <1>2. LocalInv'
    BY DEF TypeOK, LocalInv, RelayInv, TableInv, RoleInv, FreshInv, SessionInv,
           DeliverInv, EvictInv, ProxyInv, WriterServesTarget
  <1>3. RelayInv'
    BY DEF TypeOK, LocalInv, RelayInv, TableInv, RoleInv, FreshInv, SessionInv,
           DeliverInv, EvictInv, ProxyInv, CapturedInv, AnsweredInv, BridgeAnsweredFirst,
           RegistryExact, WriterServesTarget
  <1>4. TableInv'
    BY DEF TypeOK, LocalInv, RelayInv, TableInv, RoleInv, FreshInv, SessionInv, ProxyInv,
           CapturedInv, OneBridgePerName, RegistryExact, WriterServesTarget
  <1>5. NoOrphanHandler'
    BY OrphanFrame DEF TypeOK, LocalInv, SessionInv
  <1> QED BY <1>1, <1>2, <1>3, <1>4, <1>5

\* DaemonUnregister keeps the invariant.
LEMMA DaemonUnregisterStep == ASSUME NEW c \in Conns, IInv, DaemonUnregister(c) PROVE IInv'
  <1> USE DEF IInv, DaemonUnregister, Goto, Refuse, FirstAfterSend, SendReturns, Open,
            credVars
  <1>1. TypeOK'
    BY DEF TypeOK, EvictInv, LocalInv
  <1>2. LocalInv'
    BY DEF TypeOK, LocalInv, RelayInv, TableInv, RoleInv, FreshInv, SessionInv,
           DeliverInv, EvictInv, ProxyInv, WriterServesTarget
  <1>3. RelayInv'
    BY DEF TypeOK, LocalInv, RelayInv, TableInv, RoleInv, FreshInv, SessionInv,
           DeliverInv, EvictInv, ProxyInv, CapturedInv, AnsweredInv, BridgeAnsweredFirst,
           RegistryExact, WriterServesTarget
  <1>4. TableInv'
    BY DEF TypeOK, LocalInv, RelayInv, TableInv, RoleInv, FreshInv, SessionInv, ProxyInv,
           CapturedInv, OneBridgePerName, RegistryExact, WriterServesTarget
  <1>5. NoOrphanHandler'
    BY OrphanFrame DEF TypeOK, LocalInv, SessionInv
  <1> QED BY <1>1, <1>2, <1>3, <1>4, <1>5

\* BridgeAuth keeps the invariant.
LEMMA BridgeAuthStep == ASSUME NEW c \in Conns, IInv, BridgeAuth(c) PROVE IInv'
  <1> USE DEF IInv, BridgeAuth, Goto, Refuse, FirstAfterSend, SendReturns, Open, credVars
  <1>1. TypeOK'
    BY DEF TypeOK, EvictInv, LocalInv
  <1>2. LocalInv'
    BY DEF TypeOK, LocalInv, RelayInv, TableInv, RoleInv, FreshInv, SessionInv,
           DeliverInv, EvictInv, ProxyInv, WriterServesTarget
  <1>3. RelayInv'
    BY DEF TypeOK, LocalInv, RelayInv, TableInv, RoleInv, FreshInv, SessionInv,
           DeliverInv, EvictInv, ProxyInv, CapturedInv, AnsweredInv, BridgeAnsweredFirst,
           RegistryExact, WriterServesTarget
  <1>4. TableInv'
    BY DEF TypeOK, LocalInv, RelayInv, TableInv, RoleInv, FreshInv, SessionInv, ProxyInv,
           CapturedInv, OneBridgePerName, RegistryExact, WriterServesTarget
  <1>5. NoOrphanHandler'
    BY OrphanFrame DEF TypeOK, LocalInv, SessionInv
  <1> QED BY <1>1, <1>2, <1>3, <1>4, <1>5

\* BridgeReplace keeps the invariant.
LEMMA BridgeReplaceStep == ASSUME NEW c \in Conns, IInv, BridgeReplace(c) PROVE IInv'
  <1> USE DEF IInv, BridgeReplace, Goto, Refuse, FirstAfterSend, SendReturns, Open,
            credVars, ReplaceByRoleName, SameIdentity
  <1>1. TypeOK'
    BY DEF TypeOK, EvictInv, LocalInv
  <1>2. LocalInv'
    BY DEF TypeOK, LocalInv, RelayInv, TableInv, RoleInv, FreshInv, SessionInv,
           DeliverInv, EvictInv, ProxyInv, WriterServesTarget
  <1>3. RelayInv'
    BY DEF TypeOK, LocalInv, RelayInv, TableInv, RoleInv, FreshInv, SessionInv,
           DeliverInv, EvictInv, ProxyInv, CapturedInv, AnsweredInv, BridgeAnsweredFirst,
           RegistryExact, WriterServesTarget
  <1>4. TableInv'
    BY DEF TypeOK, LocalInv, RelayInv, TableInv, RoleInv, FreshInv, SessionInv, ProxyInv,
           CapturedInv, OneBridgePerName, RegistryExact, WriterServesTarget
  <1>5. NoOrphanHandler'
    BY DEF TypeOK, LocalInv, SessionInv, EvictInv, NoOrphanHandler, Displaced
  <1> QED BY <1>1, <1>2, <1>3, <1>4, <1>5

\* BridgeEvict keeps the invariant.
LEMMA BridgeEvictStep == ASSUME NEW c \in Conns, IInv, BridgeEvict(c) PROVE IInv'
  <1> USE DEF IInv, BridgeEvict, Goto, Refuse, FirstAfterSend, SendReturns, Open, credVars
  <1>1. TypeOK'
    BY DEF TypeOK, EvictInv, LocalInv
  <1>2. LocalInv'
    BY DEF TypeOK, LocalInv, RelayInv, TableInv, RoleInv, FreshInv, SessionInv,
           DeliverInv, EvictInv, ProxyInv, WriterServesTarget
  <1>3. RelayInv'
    BY DEF TypeOK, LocalInv, RelayInv, TableInv, RoleInv, FreshInv, SessionInv,
           DeliverInv, EvictInv, ProxyInv, CapturedInv, AnsweredInv, BridgeAnsweredFirst,
           RegistryExact, WriterServesTarget
  <1>4. TableInv'
    BY DEF TypeOK, LocalInv, RelayInv, TableInv, RoleInv, FreshInv, SessionInv, ProxyInv,
           CapturedInv, OneBridgePerName, RegistryExact, WriterServesTarget
  <1>5. NoOrphanHandler'
    BY DEF TypeOK, LocalInv, SessionInv, EvictInv, NoOrphanHandler, Displaced
  <1> QED BY <1>1, <1>2, <1>3, <1>4, <1>5

\* BridgeSever keeps the invariant.
LEMMA BridgeSeverStep == ASSUME NEW c \in Conns, IInv, BridgeSever(c) PROVE IInv'
  <1> USE DEF IInv, BridgeSever, Goto, Refuse, FirstAfterSend, SendReturns, Open, credVars
  <1>1. TypeOK'
    BY DEF TypeOK, EvictInv, LocalInv
  <1>2. LocalInv'
    BY DEF TypeOK, LocalInv, RelayInv, TableInv, RoleInv, FreshInv, SessionInv,
           DeliverInv, EvictInv, ProxyInv, WriterServesTarget
  <1>3. RelayInv'
    BY DEF TypeOK, LocalInv, RelayInv, TableInv, RoleInv, FreshInv, SessionInv,
           DeliverInv, EvictInv, ProxyInv, CapturedInv, AnsweredInv, BridgeAnsweredFirst,
           RegistryExact, WriterServesTarget
  <1>4. TableInv'
    BY DEF TypeOK, LocalInv, RelayInv, TableInv, RoleInv, FreshInv, SessionInv, ProxyInv,
           CapturedInv, OneBridgePerName, RegistryExact, WriterServesTarget
  <1>5. NoOrphanHandler'
    BY DEF TypeOK, LocalInv, SessionInv, EvictInv, NoOrphanHandler, Displaced
  <1> QED BY <1>1, <1>2, <1>3, <1>4, <1>5

\* BridgeAck keeps the invariant.
LEMMA BridgeAckStep == ASSUME NEW c \in Conns, IInv, BridgeAck(c) PROVE IInv'
  <1> USE DEF IInv, BridgeAck, Goto, Refuse, FirstAfterSend, SendReturns, Open, credVars
  <1>1. TypeOK'
    BY DEF TypeOK, EvictInv, LocalInv
  <1>2. LocalInv'
    BY DEF TypeOK, LocalInv, RelayInv, TableInv, RoleInv, FreshInv, SessionInv,
           DeliverInv, EvictInv, ProxyInv, WriterServesTarget
  <1>3. RelayInv'
    BY DEF TypeOK, LocalInv, RelayInv, TableInv, RoleInv, FreshInv, SessionInv,
           DeliverInv, EvictInv, ProxyInv, CapturedInv, AnsweredInv, BridgeAnsweredFirst,
           RegistryExact, WriterServesTarget
  <1>4. TableInv'
    BY DEF TypeOK, LocalInv, RelayInv, TableInv, RoleInv, FreshInv, SessionInv, ProxyInv,
           CapturedInv, OneBridgePerName, RegistryExact, WriterServesTarget
  <1>5. NoOrphanHandler'
    BY OrphanFrame DEF TypeOK, LocalInv, SessionInv
  <1> QED BY <1>1, <1>2, <1>3, <1>4, <1>5

\* BridgeLookup keeps the invariant.
LEMMA BridgeLookupStep == ASSUME NEW c \in Conns, IInv, BridgeLookup(c) PROVE IInv'
  <1> USE DEF IInv, BridgeLookup, Goto, Refuse, FirstAfterSend, SendReturns, Open,
            credVars, HelloType
  <1>1. TypeOK'
    BY DEF TypeOK, EvictInv, LocalInv
  <1>2. LocalInv'
    BY DEF TypeOK, LocalInv, RelayInv, TableInv, RoleInv, FreshInv, SessionInv,
           DeliverInv, EvictInv, ProxyInv, WriterServesTarget
  <1>3. RelayInv'
    BY DEF TypeOK, LocalInv, RelayInv, TableInv, RoleInv, FreshInv, SessionInv,
           DeliverInv, EvictInv, ProxyInv, CapturedInv, AnsweredInv, BridgeAnsweredFirst,
           RegistryExact, WriterServesTarget
  <1>4. TableInv'
    BY DEF TypeOK, LocalInv, RelayInv, TableInv, RoleInv, FreshInv, SessionInv, ProxyInv,
           CapturedInv, OneBridgePerName, RegistryExact, WriterServesTarget
  <1>5. NoOrphanHandler'
    BY OrphanFrame DEF TypeOK, LocalInv, SessionInv
  <1> QED BY <1>1, <1>2, <1>3, <1>4, <1>5

\* BridgeOffline keeps the invariant.
LEMMA BridgeOfflineStep == ASSUME NEW c \in Conns, IInv, BridgeOffline(c) PROVE IInv'
  <1> USE DEF IInv, BridgeOffline, Goto, Refuse, FirstAfterSend, SendReturns, Open, credVars
  <1>1. TypeOK'
    BY DEF TypeOK, EvictInv, LocalInv
  <1>2. LocalInv'
    BY DEF TypeOK, LocalInv, RelayInv, TableInv, RoleInv, FreshInv, SessionInv,
           DeliverInv, EvictInv, ProxyInv, WriterServesTarget
  <1>3. RelayInv'
    BY DEF TypeOK, LocalInv, RelayInv, TableInv, RoleInv, FreshInv, SessionInv,
           DeliverInv, EvictInv, ProxyInv, CapturedInv, AnsweredInv, BridgeAnsweredFirst,
           RegistryExact, WriterServesTarget
  <1>4. TableInv'
    BY DEF TypeOK, LocalInv, RelayInv, TableInv, RoleInv, FreshInv, SessionInv, ProxyInv,
           CapturedInv, OneBridgePerName, RegistryExact, WriterServesTarget
  <1>5. NoOrphanHandler'
    BY OrphanFrame DEF TypeOK, LocalInv, SessionInv
  <1> QED BY <1>1, <1>2, <1>3, <1>4, <1>5

\* BridgeSubscribe keeps the invariant.
LEMMA BridgeSubscribeStep == ASSUME NEW c \in Conns, IInv, BridgeSubscribe(c) PROVE IInv'
  <1> USE DEF IInv, BridgeSubscribe, Goto, Refuse, FirstAfterSend, SendReturns, Open,
            credVars
  <1>1. TypeOK'
    BY DEF TypeOK, EvictInv, LocalInv
  <1>2. LocalInv'
    BY DEF TypeOK, LocalInv, RelayInv, TableInv, RoleInv, FreshInv, SessionInv,
           DeliverInv, EvictInv, ProxyInv, WriterServesTarget
  <1>3. RelayInv'
    BY DEF TypeOK, LocalInv, RelayInv, TableInv, RoleInv, FreshInv, SessionInv,
           DeliverInv, EvictInv, ProxyInv, CapturedInv, AnsweredInv, BridgeAnsweredFirst,
           RegistryExact, WriterServesTarget
  <1>4. TableInv'
    BY DEF TypeOK, LocalInv, RelayInv, TableInv, RoleInv, FreshInv, SessionInv, ProxyInv,
           CapturedInv, OneBridgePerName, RegistryExact, WriterServesTarget
  <1>5. NoOrphanHandler'
    BY OrphanFrame DEF TypeOK, LocalInv, SessionInv
  <1> QED BY <1>1, <1>2, <1>3, <1>4, <1>5

\* BridgeRecv keeps the invariant.
LEMMA BridgeRecvStep == ASSUME NEW c \in Conns, IInv, BridgeRecv(c) PROVE IInv'
  <1> USE DEF IInv, BridgeRecv, Goto, Refuse, FirstAfterSend, SendReturns, Open, credVars
  <1>1. TypeOK'
    BY DEF TypeOK, EvictInv, LocalInv
  <1>2. LocalInv'
    BY DEF TypeOK, LocalInv, RelayInv, TableInv, RoleInv, FreshInv, SessionInv,
           DeliverInv, EvictInv, ProxyInv, WriterServesTarget
  <1>3. RelayInv'
    BY DEF TypeOK, LocalInv, RelayInv, TableInv, RoleInv, FreshInv, SessionInv,
           DeliverInv, EvictInv, ProxyInv, CapturedInv, AnsweredInv, BridgeAnsweredFirst,
           RegistryExact, WriterServesTarget
  <1>4. TableInv'
    BY DEF TypeOK, LocalInv, RelayInv, TableInv, RoleInv, FreshInv, SessionInv, ProxyInv,
           CapturedInv, OneBridgePerName, RegistryExact, WriterServesTarget
  <1>5. NoOrphanHandler'
    BY OrphanFrame DEF TypeOK, LocalInv, SessionInv
  <1> QED BY <1>1, <1>2, <1>3, <1>4, <1>5

\* BridgeForward keeps the invariant.
LEMMA BridgeForwardStep == ASSUME NEW c \in Conns, IInv, BridgeForward(c) PROVE IInv'
  <1> USE DEF IInv, BridgeForward, Goto, Refuse, FirstAfterSend, SendReturns, Open, credVars
  <1>1. TypeOK'
    BY DEF TypeOK, EvictInv, LocalInv
  <1>2. LocalInv'
    BY DEF TypeOK, LocalInv, RelayInv, TableInv, RoleInv, FreshInv, SessionInv,
           DeliverInv, EvictInv, ProxyInv, WriterServesTarget
  <1>3. RelayInv'
    BY DEF TypeOK, LocalInv, RelayInv, TableInv, RoleInv, FreshInv, SessionInv,
           DeliverInv, EvictInv, ProxyInv, CapturedInv, AnsweredInv, BridgeAnsweredFirst,
           RegistryExact, WriterServesTarget
  <1>4. TableInv'
    BY DEF TypeOK, LocalInv, RelayInv, TableInv, RoleInv, FreshInv, SessionInv, ProxyInv,
           CapturedInv, OneBridgePerName, RegistryExact, WriterServesTarget
  <1>5. NoOrphanHandler'
    BY OrphanFrame DEF TypeOK, LocalInv, SessionInv
  <1> QED BY <1>1, <1>2, <1>3, <1>4, <1>5

\* BridgeFail keeps the invariant.
LEMMA BridgeFailStep == ASSUME NEW c \in Conns, IInv, BridgeFail(c) PROVE IInv'
  <1> USE DEF IInv, BridgeFail, Goto, Refuse, FirstAfterSend, SendReturns, Open, credVars
  <1>1. TypeOK'
    BY DEF TypeOK, EvictInv, LocalInv
  <1>2. LocalInv'
    BY DEF TypeOK, LocalInv, RelayInv, TableInv, RoleInv, FreshInv, SessionInv,
           DeliverInv, EvictInv, ProxyInv, WriterServesTarget
  <1>3. RelayInv'
    BY DEF TypeOK, LocalInv, RelayInv, TableInv, RoleInv, FreshInv, SessionInv,
           DeliverInv, EvictInv, ProxyInv, CapturedInv, AnsweredInv, BridgeAnsweredFirst,
           RegistryExact, WriterServesTarget
  <1>4. TableInv'
    BY DEF TypeOK, LocalInv, RelayInv, TableInv, RoleInv, FreshInv, SessionInv, ProxyInv,
           CapturedInv, OneBridgePerName, RegistryExact, WriterServesTarget
  <1>5. NoOrphanHandler'
    BY OrphanFrame DEF TypeOK, LocalInv, SessionInv
  <1> QED BY <1>1, <1>2, <1>3, <1>4, <1>5

\* BridgeRecvFails keeps the invariant, whether the socket is closed or not.
LEMMA BridgeRecvFailsStep == ASSUME NEW c \in Conns, IInv, BridgeRecvFails(c) PROVE IInv'
  <1> USE DEF IInv, BridgeRecvFails, Goto, Refuse, FirstAfterSend, SendReturns, Open, credVars
  <1>1. TypeOK'
    BY DEF TypeOK, EvictInv, LocalInv
  <1>2. LocalInv'
    BY DEF TypeOK, LocalInv, RelayInv, TableInv, RoleInv, FreshInv, SessionInv,
           DeliverInv, EvictInv, ProxyInv, WriterServesTarget
  <1>3. RelayInv'
    BY DEF TypeOK, LocalInv, RelayInv, TableInv, RoleInv, FreshInv, SessionInv,
           DeliverInv, EvictInv, ProxyInv, CapturedInv, AnsweredInv, BridgeAnsweredFirst,
           RegistryExact, WriterServesTarget
  <1>4. TableInv'
    BY DEF TypeOK, LocalInv, RelayInv, TableInv, RoleInv, FreshInv, SessionInv, ProxyInv,
           CapturedInv, OneBridgePerName, RegistryExact, WriterServesTarget
  <1>5. NoOrphanHandler'
    BY OrphanFrame DEF TypeOK, LocalInv, SessionInv
  <1> QED BY <1>1, <1>2, <1>3, <1>4, <1>5

\* BridgeUnsubscribe keeps the invariant.
LEMMA BridgeUnsubscribeStep == ASSUME NEW c \in Conns, IInv, BridgeUnsubscribe(c) PROVE IInv'
  <1> USE DEF IInv, BridgeUnsubscribe, Goto, Refuse, FirstAfterSend, SendReturns, Open,
            credVars
  <1>1. TypeOK'
    BY DEF TypeOK, EvictInv, LocalInv
  <1>2. LocalInv'
    BY DEF TypeOK, LocalInv, RelayInv, TableInv, RoleInv, FreshInv, SessionInv,
           DeliverInv, EvictInv, ProxyInv, WriterServesTarget
  <1>3. RelayInv'
    BY DEF TypeOK, LocalInv, RelayInv, TableInv, RoleInv, FreshInv, SessionInv,
           DeliverInv, EvictInv, ProxyInv, CapturedInv, AnsweredInv, BridgeAnsweredFirst,
           RegistryExact, WriterServesTarget
  <1>4. TableInv'
    BY DEF TypeOK, LocalInv, RelayInv, TableInv, RoleInv, FreshInv, SessionInv, ProxyInv,
           CapturedInv, OneBridgePerName, RegistryExact, WriterServesTarget
  <1>5. NoOrphanHandler'
    BY OrphanFrame DEF TypeOK, LocalInv, SessionInv
  <1> QED BY <1>1, <1>2, <1>3, <1>4, <1>5

\* BridgeClosed keeps the invariant.
LEMMA BridgeClosedStep == ASSUME NEW c \in Conns, IInv, BridgeClosed(c) PROVE IInv'
  <1> USE DEF IInv, BridgeClosed, Goto, Refuse, FirstAfterSend, SendReturns, Open, credVars
  <1>1. TypeOK'
    BY DEF TypeOK, EvictInv, LocalInv
  <1>2. LocalInv'
    BY DEF TypeOK, LocalInv, RelayInv, TableInv, RoleInv, FreshInv, SessionInv,
           DeliverInv, EvictInv, ProxyInv, WriterServesTarget
  <1>3. RelayInv'
    BY DEF TypeOK, LocalInv, RelayInv, TableInv, RoleInv, FreshInv, SessionInv,
           DeliverInv, EvictInv, ProxyInv, CapturedInv, AnsweredInv, BridgeAnsweredFirst,
           RegistryExact, WriterServesTarget
  <1>4. TableInv'
    BY DEF TypeOK, LocalInv, RelayInv, TableInv, RoleInv, FreshInv, SessionInv, ProxyInv,
           CapturedInv, OneBridgePerName, RegistryExact, WriterServesTarget
  <1>5. NoOrphanHandler'
    BY OrphanFrame DEF TypeOK, LocalInv, SessionInv
  <1> QED BY <1>1, <1>2, <1>3, <1>4, <1>5

\* BridgeRelease keeps the invariant.
LEMMA BridgeReleaseStep == ASSUME NEW c \in Conns, IInv, BridgeRelease(c) PROVE IInv'
  <1> USE DEF IInv, BridgeRelease, Goto, Refuse, FirstAfterSend, SendReturns, Open,
            credVars, Release
  <1>1. TypeOK'
    BY DEF TypeOK, EvictInv, LocalInv
  <1>2. LocalInv'
    BY DEF TypeOK, LocalInv, RelayInv, TableInv, RoleInv, FreshInv, SessionInv,
           DeliverInv, EvictInv, ProxyInv, WriterServesTarget
  <1>3. RelayInv'
    BY DEF TypeOK, LocalInv, RelayInv, TableInv, RoleInv, FreshInv, SessionInv,
           DeliverInv, EvictInv, ProxyInv, CapturedInv, AnsweredInv, BridgeAnsweredFirst,
           RegistryExact, WriterServesTarget
  <1>4. TableInv'
    BY DEF TypeOK, LocalInv, RelayInv, TableInv, RoleInv, FreshInv, SessionInv, ProxyInv,
           CapturedInv, OneBridgePerName, RegistryExact, WriterServesTarget
  <1>5. NoOrphanHandler'
    BY OrphanFrame DEF TypeOK, LocalInv, SessionInv
  <1> QED BY <1>1, <1>2, <1>3, <1>4, <1>5

\* Accept keeps the invariant: the connection was known nowhere.
LEMMA AcceptStep == ASSUME NEW c \in Conns, NEW h \in Hellos, IInv, Accept(c, h) PROVE IInv'
  <1> USE DEF IInv, Accept, Goto, Open, credVars
  <1>0. h \in HelloType
    BY HelloAssumption
  <1>1. TypeOK'
    BY <1>0 DEF TypeOK
  <1>2. LocalInv'
    BY <1>0, SMTT(40) DEF TypeOK, LocalInv, RelayInv, TableInv, RoleInv, FreshInv, SessionInv,
           DeliverInv, EvictInv, ProxyInv, WriterServesTarget
  <1>3. RelayInv'
    BY <1>0 DEF TypeOK, LocalInv, RelayInv, TableInv, RoleInv, FreshInv, SessionInv,
           DeliverInv, EvictInv, ProxyInv, CapturedInv, AnsweredInv, BridgeAnsweredFirst,
           RegistryExact, WriterServesTarget
  <1>4. TableInv'
    BY <1>0, SMTT(40) DEF TypeOK, LocalInv, RelayInv, TableInv, RoleInv, FreshInv, SessionInv,
           ProxyInv, CapturedInv, OneBridgePerName, RegistryExact, WriterServesTarget
  <1>5. NoOrphanHandler'
    BY DEF TypeOK, LocalInv, SessionInv, EvictInv, NoOrphanHandler, Displaced
  <1> QED BY <1>1, <1>2, <1>3, <1>4, <1>5

\* Revoke only closes sockets, and of accepted connections.
LEMMA RevokeCloseStep == ASSUME NEW s \in Conns, IInv, RevokeClose(s) PROVE IInv'
  <1> USE DEF IInv, RevokeClose, Open
  <1>1. TypeOK'
    BY DEF TypeOK
  <1>2. LocalInv'
    BY DEF TypeOK, LocalInv, RoleInv, FreshInv, SessionInv, DeliverInv, EvictInv
  <1>3. RelayInv'
    BY DEF TypeOK, RelayInv, ProxyInv, CapturedInv, AnsweredInv, BridgeAnsweredFirst
  <1>4. TableInv'
    BY DEF TypeOK, TableInv, OneBridgePerName, RegistryExact, WriterServesTarget
  <1>5. NoOrphanHandler'
    BY DEF TypeOK, NoOrphanHandler, Displaced
  <1> QED BY <1>1, <1>2, <1>3, <1>4, <1>5

\* The invariant is about the connections: a step that leaves them alone
\* keeps it if it keeps the types.
LEMMA ConnFrame == ASSUME IInv, TypeOK', UNCHANGED connVars PROVE IInv'
  <1> USE DEF IInv, connVars
  <1>1. LocalInv'
    BY DEF LocalInv, RoleInv, FreshInv, SessionInv, DeliverInv, EvictInv
  <1>2. RelayInv'
    BY DEF RelayInv, ProxyInv, CapturedInv, AnsweredInv, BridgeAnsweredFirst
  <1>3. TableInv'
    BY DEF TableInv, OneBridgePerName, RegistryExact, WriterServesTarget
  <1>4. NoOrphanHandler'
    BY DEF NoOrphanHandler, Displaced, Open
  <1> QED BY <1>1, <1>2, <1>3, <1>4

\* Replacing all credentials keeps the invariant.
LEMMA HupReplaceStep == ASSUME IInv, NEW cfg \in Configs, HupReplace(cfg) PROVE IInv'
  <1>1. TypeOK'
    BY ConfigAssumption, BoundAssumption DEF HupReplace, IInv, TypeOK, connVars
  <1> QED BY <1>1, ConnFrame DEF HupReplace

\* So does inserting one entry.
LEMMA AddEntryStep ==
    ASSUME IInv, NEW cfg \in Configs, NEW n \in Names, AddEntry(n, cfg) PROVE IInv'
  <1>1. cfg \in CredType /\ creds \in CredType
    BY ConfigAssumption DEF IInv, TypeOK
  <1>2. CASE creds' = [creds EXCEPT !.agents[n] = cfg.agents[n]]
    <2>1. [creds.agents EXCEPT ![n] = cfg.agents[n]] \in [Names -> AgentEntry]
      BY <1>1 DEF CredType
    <2>2. creds' \in CredType
      BY <1>1, <1>2, <2>1 DEF CredType
    <2> QED BY <2>2, ConnFrame, BoundAssumption DEF AddEntry, IInv, TypeOK, connVars
  <1>3. CASE creds' = [creds EXCEPT !.daemons[n] = cfg.daemons[n]]
    <2>1. [creds.daemons EXCEPT ![n] = cfg.daemons[n]] \in [Names -> Keys \cup {NoKey}]
      BY <1>1 DEF CredType
    <2>2. creds' \in CredType
      BY <1>1, <1>3, <2>1 DEF CredType
    <2> QED BY <2>2, ConnFrame, BoundAssumption DEF AddEntry, IInv, TypeOK, connVars
  <1> QED BY <1>2, <1>3 DEF AddEntry

\* Every step of the gateway keeps the invariant.
LEMMA NextStep == IInv /\ [Next]_vars => IInv'
  <1> SUFFICES ASSUME IInv, [Next]_vars PROVE IInv'
    OBVIOUS
  <1>1. ASSUME NEW c \in Conns, NEW h \in Hellos, Accept(c, h) PROVE IInv'
    BY <1>1, AcceptStep
  <1>2. ASSUME NEW c \in Conns,
               \/ AcceptMalformed(c) \/ PeerGone(c) \/ PeerStalls(c)
               \/ DaemonRecv(c) \/ BridgeRecv(c) \/ DaemonGarbled(c) \/ BridgeGarbled(c)
        PROVE  IInv'
    BY <1>2, AcceptMalformedStep, PeerGoneStep, PeerStallsStep, DaemonRecvStep,
           BridgeRecvStep, DaemonRecvFailsStep, BridgeRecvFailsStep
       DEF DaemonGarbled, BridgeGarbled
  <1>3. ASSUME NEW c \in Conns, HandlerStep(c) PROVE IInv'
    BY <1>3, CloseConnStep, DaemonAuthStep, DaemonRegisterStep, DaemonSessionStep,
           DaemonAckStep, DaemonDeliverStep, DaemonRecvFailsStep, DaemonReleaseStep,
           DaemonUnregisterStep, BridgeAuthStep, BridgeReplaceStep, BridgeEvictStep,
           BridgeSeverStep, BridgeAckStep, BridgeLookupStep, BridgeOfflineStep,
           BridgeSubscribeStep, BridgeForwardStep, BridgeFailStep, BridgeRecvFailsStep,
           BridgeUnsubscribeStep, BridgeClosedStep, BridgeReleaseStep
       DEF HandlerStep, DaemonLost, BridgeLost
  <1>4. ASSUME RevokeSnapshot \/ RevokeDone PROVE IInv'
    <2>1. TypeOK'
      BY <1>4 DEF RevokeSnapshot, RevokeDone, IInv, TypeOK, connVars
    <2>2. UNCHANGED connVars
      BY <1>4 DEF RevokeSnapshot, RevokeDone
    <2> QED BY <2>1, <2>2, ConnFrame
  <1>5. ASSUME NEW s \in Conns, RevokeClose(s) PROVE IInv'
    BY <1>5, RevokeCloseStep
  <1>6. ASSUME NEW cfg \in Configs, HupReplace(cfg) \/ \E n \in Names : AddEntry(n, cfg)
        PROVE  IInv'
    BY <1>6, HupReplaceStep, AddEntryStep
  <1>7. CASE UNCHANGED vars
    <2>1. TypeOK' /\ UNCHANGED connVars
      BY <1>7 DEF vars, connVars, IInv, TypeOK
    <2> QED BY <2>1, ConnFrame
  <1> QED
    BY <1>1, <1>2, <1>3, <1>4, <1>5, <1>6, <1>7 DEF Next, RevokeStep

\* The gateway starts with no connection.
LEMMA InitStep == Init => IInv
  <1> SUFFICES ASSUME Init PROVE IInv
    OBVIOUS
  <1> USE DEF Init
  <1>1. TypeOK
    BY HelloAssumption, ConfigAssumption, BoundAssumption DEF TypeOK
  <1>2. LocalInv /\ RelayInv /\ TableInv /\ NoOrphanHandler
    BY DEF LocalInv, RelayInv, TableInv, RoleInv, FreshInv, SessionInv, DeliverInv,
           EvictInv,
           ProxyInv, CapturedInv, AnsweredInv, BridgeAnsweredFirst, OneBridgePerName, RegistryExact, WriterServesTarget,
           NoOrphanHandler, Displaced
  <1> QED BY <1>1, <1>2 DEF IInv

\* Every reachable state of the gateway satisfies the inductive invariant,
\* whatever the connections, names, keys, hellos and configurations are.
THEOREM Inductive == Spec => []IInv
  BY InitStep, NextStep, PTL DEF Spec

\* The variables of the gateway keep their types.
THEOREM TypeCorrect == Spec => []TypeOK
  <1>1. IInv => TypeOK
    BY DEF IInv
  <1> QED BY <1>1, Inductive, PTL

\* "Last writer wins" leaves one table entry per bridge identity.
THEOREM LastWriterWins == Spec => []OneBridgePerName
  <1>1. IInv => OneBridgePerName
    BY DEF IInv, TableInv
  <1> QED BY <1>1, Inductive, PTL

\* The registry's entry of a name is the one handler that registered it, though
\* Unregister deletes by name.
THEOREM RegistryOwnership == Spec => []RegistryExact
  <1>1. IInv => RegistryExact
    BY DEF IInv, TableInv
  <1> QED BY <1>1, Inductive, PTL

\* A daemon's frames only go to a subscribed, admitted bridge of that daemon.
THEOREM RelayTarget == Spec => []WriterServesTarget
  <1>1. IInv => WriterServesTarget
    BY DEF IInv, TableInv
  <1> QED BY <1>1, Inductive, PTL

\* No served handler is out of Revoke's reach and left alone.
THEOREM NoOrphans == Spec => []NoOrphanHandler
  <1>1. IInv => NoOrphanHandler
    BY DEF IInv
  <1> QED BY <1>1, Inductive, PTL

\* A bridge is answered before anything is relayed to it.
THEOREM AnsweredFirst == Spec => []BridgeAnsweredFirst
  <1>1. IInv => BridgeAnsweredFirst
    BY DEF IInv, RelayInv
  <1> QED BY <1>1, Inductive, PTL
=============================================================================
