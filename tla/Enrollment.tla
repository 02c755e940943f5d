----------------------------- MODULE Enrollment -----------------------------
(***************************************************************************)
(* How a device gets, keeps and loses its credential: the one-shot tokens  *)
(* in tokens.json (internal/gateway/tokens.go), the enrolment handler      *)
(* (enrollserver.go), the device list in gateway-state.json                *)
(* (internal/state/store.go), the reload on SIGHUP and the start of the    *)
(* gateway (cmd/agbridge/gateway.go), and the two commands that write the  *)
(* files from a process of their own: issue-token and gateway-revoke.      *)
(*                                                                         *)
(* Both files are replaced atomically (temporary file and rename) and are  *)
(* locked by nobody, so a process that writes back what it read earlier    *)
(* undoes what others wrote in between.  Reads and writes are therefore    *)
(* separate actions.                                                       *)
(***************************************************************************)
EXTENDS Naturals, FiniteSets

CONSTANTS
    Tokens,      \* enrolment tokens, each issued by one run of issue-token
    Devices,     \* device names
    Reqs,        \* POST /v1/enroll requests; a request's new key is itself
    TokenOf,     \* the token each request presents
    Role,        \* role of a token: "daemon" or "bridge"
    DeviceOf,    \* device name of a token
    TargetsOf,   \* target daemons of a bridge token
    Yaml,        \* devices listed in gateway.yaml
    YamlKey,     \* the key hash gateway.yaml gives them
    NoKey,       \* no entry
    NoReq,       \* an unlocked mutex
    MaxHups, MaxRevokes, MaxRestarts,  \* bounds
    SaveFails,   \* whether writing a file may fail
    ReadFails    \* whether reading gateway-state.json may fail

Keys == Reqs \cup {YamlKey}
\* A device's entry: its key hash, and whether its Noise key is known.
Entry == [key : Keys \cup {NoKey}, pub : BOOLEAN]
Absent == [key |-> NoKey, pub |-> FALSE]

ASSUME TokenAssumption ==
    /\ TokenOf \in [Reqs -> Tokens]
    /\ Role \in [Tokens -> {"daemon", "bridge"}]
    /\ DeviceOf \in [Tokens -> Devices]
    /\ TargetsOf \in [Tokens -> SUBSET Devices]
ASSUME NilAssumption == NoReq \notin Reqs /\ NoKey \notin Keys /\ YamlKey \notin Reqs
ASSUME DeviceAssumption == Devices # {} /\ Yaml \subseteq Devices
ASSUME FaultAssumption == SaveFails \in BOOLEAN /\ ReadFails \in BOOLEAN
ASSUME BoundAssumption == MaxHups \in Nat /\ MaxRevokes \in Nat /\ MaxRestarts \in Nat

VARIABLES
    tokFile,    \* tokens.json: each token absent, fresh or used
    expired,    \* tokens whose TTL has passed
    issue,      \* where each issue-token process is
    issueCopy,  \* what it read from tokens.json
    pc,         \* where each enrolment request is
    tokMu,      \* TokenStore.mu of the gateway: the request that holds it
    toks,       \* TokenStore.toks of the gateway, reread by every holder of tokMu
    srvMu,      \* EnrollServer.mu: the request that holds it
    state,      \* EnrollServer.State, in memory
    stateFile,  \* gateway-state.json
    live,       \* CredRegistry: device -> key hash
    wired,      \* whether EnrollServer.Live has been set
    hup,        \* what the SIGHUP goroutine loaded, or NotLoaded
    revoker,    \* the device a gateway-revoke process is removing, with its copy
    counts,     \* SIGHUPs, revocations and restarts so far
    uses,       \* history: how often each token was accepted
    revived,    \* history: used tokens that issue-token wrote back as fresh
    order,      \* history: order in which requests changed state
    out,        \* history: devices that gateway-revoke and a SIGHUP have dropped
    unread      \* history: devices whose entry a start of the gateway could not read

tokenVars == <<tokFile, expired, issue, issueCopy, uses, revived>>
stateVars == <<state, stateFile, live, order, out, unread>>
procVars == <<wired, hup, revoker, counts>>
vars == <<tokFile, expired, issue, issueCopy, pc, tokMu, toks, srvMu, state,
          stateFile, live, wired, hup, revoker, counts, uses, revived, order, out, unread>>

Device(r) == DeviceOf[TokenOf[r]]
NoTokens == [t \in Tokens |-> "none"]
NotLoaded == [loaded |-> FALSE, cfg |-> [d \in Devices |-> NoKey]]
NoRevoke == [on |-> FALSE, dev |-> CHOOSE d \in Devices : TRUE, copy |-> [d \in Devices |-> Absent]]
\* Whether a request of device d has a token that was accepted, and no answer.
EnrolInFlight(d) == \E r \in Reqs : Device(r) = d /\ pc[r] \in {"lock", "save", "live"}
Goto(r, p) == pc' = [pc EXCEPT ![r] = p]

\* tokens.json is read and written whole; so is gateway-state.json.
reloadLocked == tokFile
flushLocked(content) == tokFile' = content
\* What a caller that ignores the error of LoadGateway goes on with: the file's
\* entries, or none if it cannot be read or parsed.
LoadGateway == {stateFile} \cup IF ReadFails THEN {[d \in Devices |-> Absent]} ELSE {}
SaveGateway(entries) == stateFile' = entries
-----------------------------------------------------------------------------
(* agbridge issue-token: a process of its own *)

\* NewTokenStore and the reload at the start of Issue's critical section.
IssueRead(t) ==
    /\ issue[t] = "start"
    /\ issueCopy' = [issueCopy EXCEPT ![t] = reloadLocked]
    /\ issue' = [issue EXCEPT ![t] = "flush"]
    /\ UNCHANGED <<tokFile, expired, uses, revived, pc, tokMu, toks, srvMu, stateVars, procVars>>

\* Issue adds its token to what it read and writes the whole file.
IssueFlush(t) ==
    /\ issue[t] = "flush"
    /\ flushLocked([issueCopy[t] EXCEPT ![t] = "fresh"])
    /\ revived' = revived \cup {u \in Tokens : tokFile[u] = "used" /\ tokFile'[u] # "used"}
    /\ issue' = [issue EXCEPT ![t] = "done"]
    /\ issueCopy' = [issueCopy EXCEPT ![t] = NoTokens]
    /\ UNCHANGED <<expired, uses, pc, tokMu, toks, srvMu, stateVars, procVars>>

\* Time passes and a token's TTL runs out (of no consequence once it is used).
Expire(t) ==
    /\ tokFile[t] = "fresh" /\ t \notin expired
    /\ expired' = expired \cup {t}
    /\ UNCHANGED <<tokFile, issue, issueCopy, uses, revived, pc, tokMu, toks,
                   srvMu, stateVars, procVars>>
-----------------------------------------------------------------------------
(* HandleEnroll *)

Valid(t) == tokFile[t] = "fresh" /\ t \notin expired

\* Faulty variant: Consume reads and checks without the mutex.
ConsumeRead_Unlocked(r) ==
    LET t == TokenOf[r] IN
    /\ pc[r] = "start"
    /\ \/ Valid(t) /\ Goto(r, "flush") /\ tokMu' = r /\ toks' = reloadLocked
       \/ ~Valid(t) /\ Goto(r, "refused") /\ UNCHANGED <<tokMu, toks>>
    /\ UNCHANGED <<tokenVars, srvMu, stateVars, procVars>>

\* TokenStore.Consume: lock, reload, and check the token ...
ConsumeRead(r) ==
    LET t == TokenOf[r] IN
    /\ pc[r] = "start" /\ tokMu = NoReq
    /\ \/ Valid(t) /\ Goto(r, "flush") /\ tokMu' = r /\ toks' = reloadLocked
       \/ ~Valid(t) /\ Goto(r, "refused") /\ UNCHANGED <<tokMu, toks>>
    /\ UNCHANGED <<tokenVars, srvMu, stateVars, procVars>>

\* ... then mark it used, write the whole file, and unlock.
ConsumeFlush(r) ==
    LET t == TokenOf[r] IN
    /\ pc[r] = "flush"
    /\ tokMu' = NoReq /\ toks' = NoTokens
    /\ \/ /\ flushLocked([toks EXCEPT ![t] = "used"])
          /\ uses' = [uses EXCEPT ![t] = @ + 1]
          /\ Goto(r, "lock")
       \/ SaveFails /\ Goto(r, "refused") /\ UNCHANGED <<tokFile, uses>>
    /\ UNCHANGED <<expired, issue, issueCopy, revived, srvMu, stateVars, procVars>>

\* Every target of a bridge token must be a daemon whose Noise key is known.
TargetsKnown(t) == Role[t] = "bridge" => \A d \in TargetsOf[t] : state[d].pub

\* Under EnrollServer.mu: replace or append the entry in memory, or 409.
EnrolEntry(r) ==
    LET t == TokenOf[r] IN
    /\ pc[r] = "lock" /\ srvMu = NoReq
    /\ \/ /\ TargetsKnown(t)
          /\ state' = [state EXCEPT ![Device(r)] = [key |-> r, pub |-> Role[t] = "daemon"]]
          /\ order' = [order EXCEPT ![r] = 1 + Cardinality({x \in Reqs : order[x] > 0})]
          /\ out' = out \ {Device(r)}
          /\ srvMu' = r /\ Goto(r, "save")
       \/ ~TargetsKnown(t) /\ Goto(r, "conflict") /\ UNCHANGED <<state, order, out, srvMu>>
    /\ UNCHANGED <<tokenVars, tokMu, toks, stateFile, live, unread, procVars>>

\* Faulty variant: the live credential is installed before the file is saved.
EnrolSave_AfterLive(r) ==
    /\ pc[r] = "save" /\ srvMu = r
    /\ live' = [live EXCEPT ![Device(r)] = r]
    /\ Goto(r, "live")
    /\ UNCHANGED <<tokenVars, tokMu, toks, srvMu, state, stateFile, order, out, unread, procVars>>

\* Faulty variant: the error of SaveGateway is ignored.
EnrolSave_IgnoresError(r) ==
    /\ pc[r] = "save" /\ Goto(r, "live")
    /\ \/ SaveGateway(state)
       \/ SaveFails /\ UNCHANGED stateFile
    /\ UNCHANGED <<tokenVars, tokMu, toks, srvMu, state, live, order, out, unread, procVars>>

\* Faulty variant: the early return of a failed save leaves the mutex locked.
EnrolSave_NoUnlock(r) ==
    /\ pc[r] = "save"
    /\ \/ SaveGateway(state) /\ Goto(r, "live")
       \/ SaveFails /\ Goto(r, "failed") /\ UNCHANGED stateFile
    /\ UNCHANGED <<tokenVars, tokMu, toks, srvMu, state, live, order, out, unread, procVars>>

\* SaveGateway writes the whole in-memory state; on failure the entry stays
\* in memory and the request is answered 500.
EnrolSave(r) ==
    /\ pc[r] = "save"
    /\ \/ /\ SaveGateway(state) /\ Goto(r, "live") /\ UNCHANGED srvMu
          /\ unread' = {d \in unread : state[d] = Absent}
       \/ SaveFails /\ Goto(r, "failed") /\ srvMu' = NoReq /\ UNCHANGED <<stateFile, unread>>
    /\ UNCHANGED <<tokenVars, tokMu, toks, state, live, order, out, procVars>>

\* AddAgent / AddDaemon if Live is set, the answer 200 with the key, unlock.
EnrolLive(r) ==
    /\ pc[r] = "live"
    /\ live' = IF wired THEN [live EXCEPT ![Device(r)] = r] ELSE live
    /\ srvMu' = NoReq /\ Goto(r, "ok")
    /\ UNCHANGED <<tokenVars, tokMu, toks, state, stateFile, order, out, unread, procVars>>
-----------------------------------------------------------------------------
(* agbridge gateway: start, SIGHUP *)

\* hydrateGatewayState and mergeGatewayState: gateway.yaml wins by name.
Merge(file) ==
    [d \in Devices |-> IF d \in Yaml THEN [key |-> YamlKey, pub |-> FALSE] ELSE file[d]]
KeysOf(entries) == [d \in Devices |-> entries[d].key]

\* The gateway stops at any point and starts again: its memory is rebuilt
\* from the two files, or from gateway.yaml alone if gateway-state.json cannot
\* be read, and requests in flight are never answered.
Restart ==
    /\ counts.restarts < MaxRestarts
    /\ counts' = [counts EXCEPT !.restarts = @ + 1]
    /\ pc' = [r \in Reqs |-> IF pc[r] \in {"flush", "lock", "save", "live"} THEN "lost" ELSE pc[r]]
    /\ tokMu' = NoReq /\ srvMu' = NoReq
    /\ toks' = NoTokens
    /\ \E file \in LoadGateway :
          /\ state' = Merge(file) /\ live' = KeysOf(Merge(file))
          /\ unread' = {d \in Devices : IF stateFile[d] = Absent THEN d \in unread ELSE file[d] = Absent}
    /\ wired' = FALSE /\ hup' = NotLoaded
    /\ UNCHANGED <<tokenVars, stateFile, revoker, order, out>>

\* enrollSrv.Live = inst.Creds, once the listener is already serving.
WireLive ==
    /\ ~wired /\ wired' = TRUE
    /\ UNCHANGED <<tokenVars, pc, tokMu, toks, srvMu, stateVars, hup, revoker, counts>>

\* SIGHUP: load gateway.yaml and gateway-state.json into a fresh
\* configuration, or gateway.yaml alone if the other cannot be read.
\* EnrollServer.State is not part of it ...
HupLoad ==
    /\ wired /\ ~hup.loaded /\ counts.hups < MaxHups
    /\ \E file \in LoadGateway : hup' = [loaded |-> TRUE, cfg |-> KeysOf(Merge(file))]
    /\ counts' = [counts EXCEPT !.hups = @ + 1]
    /\ UNCHANGED <<tokenVars, pc, tokMu, toks, srvMu, stateVars, wired, revoker>>

\* ... and Creds.Replace (the sessions are revoked in module Gateway).
HupReplace ==
    /\ hup.loaded
    /\ live' = hup.cfg
    /\ out' = out \cup {d \in Devices : live[d] # NoKey /\ hup.cfg[d] = NoKey
                                        /\ stateFile[d] = Absent /\ ~EnrolInFlight(d)}
    /\ hup' = NotLoaded
    /\ UNCHANGED <<tokenVars, pc, tokMu, toks, srvMu, state, stateFile, order,
                   unread, wired, revoker, counts>>
-----------------------------------------------------------------------------
(* agbridge gateway-revoke: a process of its own *)

\* LoadGateway; a file that cannot be read, or has no such name, is an error.
RevokeLoad(d) ==
    /\ ~revoker.on /\ counts.revokes < MaxRevokes
    /\ stateFile[d] # Absent
    /\ revoker' = [on |-> TRUE, dev |-> d, copy |-> stateFile]
    /\ counts' = [counts EXCEPT !.revokes = @ + 1]
    /\ UNCHANGED <<tokenVars, pc, tokMu, toks, srvMu, stateVars, wired, hup>>

\* SaveGateway of what was loaded, without the device.
RevokeSave ==
    /\ revoker.on
    /\ SaveGateway([revoker.copy EXCEPT ![revoker.dev] = Absent])
    /\ revoker' = NoRevoke
    /\ UNCHANGED <<tokenVars, pc, tokMu, toks, srvMu, state, live, order, out,
                   unread, wired, hup, counts>>
-----------------------------------------------------------------------------
Init ==
    /\ tokFile = NoTokens
    /\ expired = {}
    /\ issue = [t \in Tokens |-> "start"]
    /\ issueCopy = [t \in Tokens |-> NoTokens]
    /\ pc = [r \in Reqs |-> "start"]
    /\ tokMu = NoReq /\ srvMu = NoReq
    /\ toks = NoTokens
    /\ stateFile = [d \in Devices |-> Absent]
    /\ state = Merge(stateFile)
    /\ live = KeysOf(Merge(stateFile))
    /\ wired = FALSE
    /\ hup = NotLoaded
    /\ revoker = NoRevoke
    /\ counts = [hups |-> 0, revokes |-> 0, restarts |-> 0]
    /\ uses = [t \in Tokens |-> 0]
    /\ revived = {}
    /\ order = [r \in Reqs |-> 0]
    /\ out = {} /\ unread = {}

Next ==
    \/ \E t \in Tokens : IssueRead(t) \/ IssueFlush(t) \/ Expire(t)
    \/ \E r \in Reqs :
          ConsumeRead(r) \/ ConsumeFlush(r) \/ EnrolEntry(r) \/ EnrolSave(r) \/ EnrolLive(r)
    \/ Restart \/ WireLive \/ HupLoad \/ HupReplace
    \/ \E d \in Devices : RevokeLoad(d)
    \/ RevokeSave

Spec == Init /\ [][Next]_vars
-----------------------------------------------------------------------------
(* Properties *)

Pcs == {"start", "flush", "lock", "save", "live", "ok", "refused", "conflict", "failed", "lost"}
TokenFile == [Tokens -> {"none", "fresh", "used"}]
StateFile == [Devices -> Entry]

\* Every variable stays in its type, and a mutex is held exactly by the request
\* that is inside the critical section it guards.
TypeOK ==
    /\ tokFile \in TokenFile /\ toks \in TokenFile /\ issueCopy \in [Tokens -> TokenFile]
    /\ expired \in SUBSET Tokens /\ revived \in SUBSET Tokens
    /\ issue \in [Tokens -> {"start", "flush", "done"}]
    /\ pc \in [Reqs -> Pcs]
    /\ tokMu \in Reqs \cup {NoReq} /\ srvMu \in Reqs \cup {NoReq}
    /\ state \in StateFile /\ stateFile \in StateFile
    /\ live \in [Devices -> Keys \cup {NoKey}]
    /\ wired \in BOOLEAN
    /\ hup \in [loaded : BOOLEAN, cfg : [Devices -> Keys \cup {NoKey}]]
    /\ revoker \in [on : BOOLEAN, dev : Devices, copy : StateFile]
    /\ counts \in [hups : Nat, revokes : Nat, restarts : Nat]
    /\ uses \in [Tokens -> Nat] /\ order \in [Reqs -> Nat]
    /\ out \in SUBSET Devices /\ unread \in SUBSET Devices
    /\ \A r \in Reqs : (tokMu = r) <=> (pc[r] = "flush")
    /\ \A r \in Reqs : (srvMu = r) <=> (pc[r] \in {"save", "live"})

\* A token enrols one device: concurrent requests, failed writes and restarts
\* of the gateway never get a second use out of it; only an issue-token
\* process that wrote back an old copy of tokens.json can (tokens.go).
SecondUseNeedsRevival == \A t \in Tokens : uses[t] > 1 => t \in revived

\* The entry's key belongs to r or to a later enrolment of the same device.
AtLeast(entry, r) ==
    \E x \in Reqs : entry.key = x /\ Device(x) = Device(r) /\ order[x] >= order[r]

\* The device's entry was dropped from gateway-state.json by a save of a gateway
\* that had started without reading it (gateway.go:75 ignores the error).
Overwritten(d) == d \in unread /\ stateFile[d] = Absent

\* As long as nobody runs gateway-revoke, an enrolment that was answered 200
\* is in gateway-state.json for good: no later enrolment, failed write, restart
\* or reload puts back an older credential of that device, and nothing removes
\* it but the first save of a gateway that could not read the file at its start.
AcknowledgedIsDurable ==
    \A r \in Reqs :
        pc[r] = "ok" /\ counts.revokes = 0 /\ Device(r) \notin Yaml
        => AtLeast(stateFile[Device(r)], r) \/ Overwritten(Device(r))

\* As long as nobody runs gateway-revoke, every credential the gateway admits
\* survives a crash: the file has it, or a later one of the same device, unless
\* such a gateway has overwritten it.
LiveIsDurable ==
    \A d \in Devices \ Yaml, r \in Reqs :
        live[d] = r /\ counts.revokes = 0 => AtLeast(stateFile[d], r) \/ Overwritten(d)

(* What comments in the code say, and the code does not do *)

\* gateway_devices.go:100: gateway-revoke "removes the named device" and SIGHUP
\* drops it: it is not admitted again unless it enrols again.
RevokedStaysOut == \A d \in out : live[d] = NoKey
=============================================================================
