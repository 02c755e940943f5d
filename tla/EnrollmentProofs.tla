------------------------- MODULE EnrollmentProofs -------------------------
(***************************************************************************)
(* That tokens are used once and acknowledged enrolments survive, proved   *)
(* for any number of devices, tokens and requests.                         *)
(***************************************************************************)
EXTENDS Enrollment, FiniteSetTheorems, TLAPS

\* The requests that have changed state, in the order in which they did.
Ordered == {r \in Reqs : order[r] > 0}

\* A request changes state once, and after every other that did so before it.
OrderInv ==
    /\ IsFiniteSet(Ordered)
    /\ \A r \in Reqs : /\ order[r] <= Cardinality(Ordered)
                       /\ pc[r] \in {"start", "flush", "lock"} => order[r] = 0
                       /\ pc[r] \in {"save", "live", "ok"} => order[r] > 0

\* A token that was accepted is marked used in tokens.json, and in the copy
\* that the holder of TokenStore.mu is about to write, unless issue-token put
\* an old copy back.
UsedIn(content) == \A t \in Tokens : uses[t] > 0 => content[t] = "used" \/ t \in revived
TokenInv ==
    /\ UsedIn(tokFile)
    /\ tokMu # NoReq => UsedIn(toks) /\ toks[TokenOf[tokMu]] = "fresh"
    /\ SecondUseNeedsRevival

\* AtLeast for an order that is given: the entry's key is of a request for
\* r's device that came no earlier than r.
NoEarlier(entry, r, ord) == \E x \in Reqs : entry.key = x /\ Device(x) = Device(r) /\ ord[x] >= ord[r]

\* The file holds r or a later request of the device, unless a gateway that
\* could not read it has written it.
InFile(d, r) == NoEarlier(stateFile[d], r, order) \/ Overwritten(d)

\* The state in memory is at least as new as the file, unless the gateway
\* started without reading it, and the file at least as new as what is
\* admitted and what a SIGHUP has loaded.  Only requests that have changed the
\* state are in any of them, under their own device.
FileInv(d, r) ==
    /\ r \in {state[d].key, stateFile[d].key, live[d], hup.cfg[d]} => order[r] > 0 /\ Device(r) = d
    /\ stateFile[d].key = r => NoEarlier(state[d], r, order) \/ (d \in unread /\ state[d] = Absent)
    /\ live[d] = r \/ hup.cfg[d] = r => InFile(d, r)

\* A device whose entry was not read is missing in memory until it enrols
\* again, and then its entry is the latest.
UnreadInv(d) ==
    d \in unread => \/ state[d] = Absent
                   \/ \A x \in Reqs : Device(x) = d => NoEarlier(state[d], x, order)

\* A request that is being saved is in memory, one that is answered in the file.
AnsweredInv(r) ==
    /\ pc[r] = "save" => NoEarlier(state[Device(r)], r, order)
    /\ pc[r] \in {"live", "ok"} => InFile(Device(r), r)

\* All three hold as long as nobody runs gateway-revoke, for the devices that
\* gateway.yaml does not list.
DurableInv ==
    counts.revokes = 0 =>
        /\ ~revoker.on
        /\ \A d \in Devices \ Yaml : UnreadInv(d) /\ \A r \in Reqs : FileInv(d, r)
        /\ \A r \in Reqs : Device(r) \notin Yaml => AnsweredInv(r)

EnrollmentInv == TypeOK /\ OrderInv /\ TokenInv /\ DurableInv
-----------------------------------------------------------------------------
(* Operators *)

\* The credentials a device's entry may have.
LEMMA EntryTypes ==
    /\ Absent \in Entry
    /\ \A r \in Reqs, b \in BOOLEAN : [key |-> r, pub |-> b] \in Entry
    /\ [key |-> YamlKey, pub |-> FALSE] \in Entry
    /\ \A e \in Entry : e.key \in Keys \cup {NoKey}
    /\ YamlKey \notin Reqs /\ NoKey \notin Reqs /\ NoReq \notin Reqs /\ Absent.key = NoKey
BY NilAssumption DEF Absent, Entry, Keys

\* Merging gateway.yaml into the file gives a device list, and one that
\* differs from the file for the devices of gateway.yaml only.
LEMMA MergeTypes ==
    ASSUME NEW f \in StateFile
    PROVE  /\ Merge(f) \in StateFile /\ KeysOf(f) \in [Devices -> Keys \cup {NoKey}]
           /\ KeysOf(Merge(f)) \in [Devices -> Keys \cup {NoKey}]
           /\ \A d \in Devices \ Yaml : Merge(f)[d] = f[d] /\ KeysOf(Merge(f))[d] = f[d].key
<1>1. Merge(f) \in StateFile
  BY EntryTypes DEF StateFile, Merge
<1>2. ASSUME NEW g \in StateFile PROVE KeysOf(g) \in [Devices -> Keys \cup {NoKey}]
  BY <1>2, EntryTypes DEF StateFile, KeysOf
<1>3. \A d \in Devices \ Yaml : Merge(f)[d] = f[d] /\ KeysOf(Merge(f))[d] = f[d].key
  BY DEF Merge, KeysOf
<1> QED
  BY <1>1, <1>2, <1>3

\* What a process that has loaded nothing holds.
LEMMA NilTypes ==
    /\ NoTokens \in TokenFile
    /\ NotLoaded \in [loaded : BOOLEAN, cfg : [Devices -> Keys \cup {NoKey}]]
    /\ ~NotLoaded.loaded /\ \A d \in Devices : NotLoaded.cfg[d] = NoKey
    /\ NoRevoke \in [on : BOOLEAN, dev : Devices, copy : StateFile] /\ ~NoRevoke.on
<1>1. NoTokens \in TokenFile
  BY DEF NoTokens, TokenFile
<1>2. [d \in Devices |-> NoKey] \in [Devices -> Keys \cup {NoKey}]
  OBVIOUS
<1>3. [d \in Devices |-> Absent] \in StateFile
  BY EntryTypes DEF StateFile
<1>4. (CHOOSE d \in Devices : TRUE) \in Devices
  BY DeviceAssumption
<1> QED
  BY <1>1, <1>2, <1>3, <1>4 DEF NotLoaded, NoRevoke

\* What a caller that ignores the error of LoadGateway goes on with is either
\* the file or nothing.
LEMMA LoadTypes ==
    ASSUME TypeOK, NEW file \in LoadGateway
    PROVE  /\ file \in StateFile
           /\ file = stateFile \/ \A d \in Devices : file[d] = Absent
<1>1. file = stateFile \/ file = [d \in Devices |-> Absent]
  BY DEF LoadGateway
<1>2. stateFile \in StateFile /\ [d \in Devices |-> Absent] \in StateFile
  BY EntryTypes DEF TypeOK, StateFile
<1> QED
  BY <1>1, <1>2

\* Where a request goes, and the tokens and devices it names.
LEMMA RequestTypes ==
    ASSUME NEW r \in Reqs
    PROVE  TokenOf[r] \in Tokens /\ Device(r) \in Devices /\ DeviceOf[TokenOf[r]] = Device(r)
BY TokenAssumption DEF Device
-----------------------------------------------------------------------------
(* Types *)

\* Every variable starts in its type.
LEMMA TypeInit == Init => TypeOK
<1> SUFFICES ASSUME Init PROVE TypeOK
  OBVIOUS
<1>1. stateFile \in StateFile
  BY EntryTypes DEF Init, StateFile
<1>2. state \in StateFile /\ live \in [Devices -> Keys \cup {NoKey}]
  BY <1>1, MergeTypes DEF Init
<1>3. /\ tokFile \in TokenFile /\ toks \in TokenFile /\ issueCopy \in [Tokens -> TokenFile]
      /\ hup \in [loaded : BOOLEAN, cfg : [Devices -> Keys \cup {NoKey}]]
      /\ revoker \in [on : BOOLEAN, dev : Devices, copy : StateFile]
  BY NilTypes DEF Init
<1>4. /\ pc \in [Reqs -> Pcs] /\ issue \in [Tokens -> {"start", "flush", "done"}]
      /\ counts \in [hups : Nat, revokes : Nat, restarts : Nat]
      /\ uses \in [Tokens -> Nat] /\ order \in [Reqs -> Nat]
  BY DEF Init, Pcs
<1>5. \A r \in Reqs : tokMu # r /\ srvMu # r /\ pc[r] = "start"
  BY NilAssumption DEF Init
<1> QED
  BY <1>1, <1>2, <1>3, <1>4, <1>5 DEF Init, TypeOK

\* The steps of issue-token and the passing of time: tokens.json keeps its
\* shape, and the gateway's memory is its own.
LEMMA TypeIssue ==
    ASSUME TypeOK, NEW t \in Tokens, IssueRead(t) \/ IssueFlush(t) \/ Expire(t)
    PROVE  TypeOK'
<1>1. UNCHANGED <<uses, pc, tokMu, toks, srvMu, stateVars, procVars>>
  BY DEF IssueRead, IssueFlush, Expire
<1>2. tokFile' \in TokenFile /\ issueCopy' \in [Tokens -> TokenFile]
  <2>1. NoTokens \in TokenFile /\ issueCopy[t] \in TokenFile
    BY NilTypes DEF TypeOK
  <2>2. [issueCopy[t] EXCEPT ![t] = "fresh"] \in TokenFile
    BY <2>1 DEF TokenFile
  <2> QED
    BY <2>1, <2>2 DEF TypeOK, IssueRead, IssueFlush, Expire, reloadLocked, flushLocked
<1>3. expired' \in SUBSET Tokens /\ revived' \in SUBSET Tokens /\ issue' \in [Tokens -> {"start", "flush", "done"}]
  BY DEF TypeOK, IssueRead, IssueFlush, Expire
<1> QED
  BY <1>1, <1>2, <1>3 DEF TypeOK, stateVars, procVars

\* The steps of an enrolment request: both mutexes are held by the request
\* inside the critical section, and by no other.
LEMMA TypeEnrol ==
    ASSUME TypeOK, OrderInv, NEW r \in Reqs,
           ConsumeRead(r) \/ ConsumeFlush(r) \/ EnrolEntry(r) \/ EnrolSave(r) \/ EnrolLive(r)
    PROVE  TypeOK'
<1>0. /\ pc \in [Reqs -> Pcs] /\ TokenOf[r] \in Tokens /\ Device(r) \in Devices /\ NoReq \notin Reqs
      /\ \A p \in Pcs : [pc EXCEPT ![r] = p] \in [Reqs -> Pcs]
  BY RequestTypes, NilAssumption DEF TypeOK
<1>1. CASE ConsumeRead(r)
  <2>1. toks' \in TokenFile /\ UNCHANGED <<tokenVars, srvMu, stateVars, procVars>>
    BY <1>1 DEF TypeOK, ConsumeRead, reloadLocked
  <2>2. CASE tokMu = NoReq /\ pc[r] = "start" /\ pc' = [pc EXCEPT ![r] = "flush"] /\ tokMu' = r
    BY <1>0, <2>1, <2>2 DEF TypeOK, Pcs, tokenVars, stateVars, procVars
  <2>3. CASE pc[r] = "start" /\ pc' = [pc EXCEPT ![r] = "refused"] /\ tokMu' = tokMu
    BY <1>0, <2>1, <2>3 DEF TypeOK, Pcs, tokenVars, stateVars, procVars
  <2> QED
    BY <1>1, <2>2, <2>3 DEF ConsumeRead, Goto
<1>2. CASE ConsumeFlush(r)
  <2>1. tokFile' \in TokenFile /\ toks' \in TokenFile
    <3>1. toks \in TokenFile /\ NoTokens \in TokenFile /\ [toks EXCEPT ![TokenOf[r]] = "used"] \in TokenFile
      BY NilTypes DEF TypeOK, TokenFile
    <3> QED
      BY <3>1, <1>2 DEF TypeOK, ConsumeFlush, flushLocked
  <2>2. uses' \in [Tokens -> Nat]
    BY <1>0, <1>2 DEF TypeOK, ConsumeFlush
  <2>3. tokMu' = NoReq /\ pc[r] = "flush" /\ \E p \in {"lock", "refused"} : pc' = [pc EXCEPT ![r] = p]
    BY <1>2 DEF ConsumeFlush, Goto
  <2>4. /\ pc' \in [Reqs -> Pcs] /\ \A q \in Reqs : pc'[q] # "flush"
        /\ \A q \in Reqs : (srvMu = q) <=> (pc'[q] \in {"save", "live"})
    BY <1>0, <2>3 DEF TypeOK, Pcs
  <2> QED
    BY <1>0, <1>2, <2>1, <2>2, <2>3, <2>4 DEF TypeOK, ConsumeFlush, stateVars, procVars
<1>3. CASE EnrolEntry(r)
  <2>1. UNCHANGED <<tokenVars, tokMu, toks, stateFile, live, unread, procVars>> /\ pc[r] = "lock" /\ srvMu = NoReq
    BY <1>3 DEF EnrolEntry
  <2>2. CASE EnrolEntry(r) /\ srvMu' = r /\ pc' = [pc EXCEPT ![r] = "save"]
             /\ state' = [state EXCEPT ![Device(r)] = [key |-> r, pub |-> Role[TokenOf[r]] = "daemon"]]
             /\ order' = [order EXCEPT ![r] = 1 + Cardinality(Ordered)]
             /\ out' = out \ {Device(r)}
    <3>1. state' \in StateFile
      <4>1. (Role[TokenOf[r]] = "daemon") \in BOOLEAN
        OBVIOUS
      <4> QED
        BY <2>2, <4>1, <1>0, EntryTypes DEF TypeOK, StateFile
    <3>2. /\ pc' \in [Reqs -> Pcs] /\ \A q \in Reqs : (tokMu = q) <=> (pc'[q] = "flush")
          /\ \A q \in Reqs : (srvMu' = q) <=> (pc'[q] \in {"save", "live"})
      BY <1>0, <2>1, <2>2 DEF TypeOK, Pcs
    <3>3. order' \in [Reqs -> Nat] /\ out' \in SUBSET Devices
      <4>1. 1 + Cardinality(Ordered) \in Nat
        BY FS_CardinalityType DEF OrderInv
      <4> QED
        BY <2>2, <4>1 DEF TypeOK
    <3> QED
      BY <1>3, <2>1, <2>2, <3>1, <3>2, <3>3 DEF EnrolEntry, TypeOK, tokenVars, procVars
  <2>3. CASE UNCHANGED <<state, order, out, srvMu>> /\ pc' = [pc EXCEPT ![r] = "conflict"]
    <3>1. /\ pc' \in [Reqs -> Pcs] /\ \A q \in Reqs : (tokMu = q) <=> (pc'[q] = "flush")
          /\ \A q \in Reqs : (srvMu' = q) <=> (pc'[q] \in {"save", "live"})
      BY <1>0, <2>1, <2>3 DEF TypeOK, Pcs
    <3> QED
      BY <2>1, <2>3, <3>1 DEF TypeOK, tokenVars, procVars
  <2> QED
    BY <1>3, <2>2, <2>3 DEF EnrolEntry, Goto, Ordered<1>4. CASE EnrolSave(r)
  <2>1. UNCHANGED <<tokenVars, tokMu, toks, state, live, order, out, procVars>> /\ pc[r] = "save" /\ srvMu = r
    BY <1>4 DEF EnrolSave, TypeOK
  <2>2. stateFile' \in StateFile /\ unread' \in SUBSET Devices
    BY <1>4 DEF EnrolSave, SaveGateway, TypeOK
  <2>3. /\ pc' \in [Reqs -> Pcs] /\ \A q \in Reqs : (tokMu = q) <=> (pc'[q] = "flush")
        /\ srvMu' \in Reqs \cup {NoReq} /\ \A q \in Reqs : (srvMu' = q) <=> (pc'[q] \in {"save", "live"})
    <3>1. CASE pc' = [pc EXCEPT ![r] = "live"] /\ srvMu' = srvMu
      BY <1>0, <2>1, <3>1 DEF TypeOK, Pcs
    <3>2. CASE pc' = [pc EXCEPT ![r] = "failed"] /\ srvMu' = NoReq
      BY <1>0, <2>1, <3>2 DEF TypeOK, Pcs
    <3> QED
      BY <1>4, <3>1, <3>2 DEF EnrolSave, Goto
  <2> QED
    BY <2>1, <2>2, <2>3 DEF TypeOK, tokenVars, procVars
<1>5. CASE EnrolLive(r)
  <2>1. /\ UNCHANGED <<tokenVars, tokMu, toks, state, stateFile, order, out, unread, procVars>> /\ pc[r] = "live"
        /\ srvMu = r /\ srvMu' = NoReq /\ pc' = [pc EXCEPT ![r] = "ok"]
    BY <1>5 DEF EnrolLive, Goto, TypeOK
  <2>2. live' \in [Devices -> Keys \cup {NoKey}]
    <3>1. r \in Keys \cup {NoKey} /\ live \in [Devices -> Keys \cup {NoKey}]
      BY DEF TypeOK, Keys
    <3> QED
      BY <3>1, <1>5 DEF EnrolLive
  <2>3. /\ pc' \in [Reqs -> Pcs] /\ \A q \in Reqs : (tokMu = q) <=> (pc'[q] = "flush")
        /\ \A q \in Reqs : (srvMu' = q) <=> (pc'[q] \in {"save", "live"})
    BY <1>0, <2>1 DEF TypeOK, Pcs
  <2> QED
    BY <2>1, <2>2, <2>3 DEF TypeOK, tokenVars, procVars
<1> QED
  BY <1>1, <1>2, <1>3, <1>4, <1>5

\* The steps of the gateway process and of gateway-revoke.
LEMMA TypeProcess ==
    ASSUME TypeOK, \/ Restart \/ WireLive \/ HupLoad \/ HupReplace
                   \/ (\E d \in Devices : RevokeLoad(d)) \/ RevokeSave
    PROVE  TypeOK'
<1>1. CASE Restart
  <2>1. /\ toks' \in TokenFile /\ state' \in StateFile /\ live' \in [Devices -> Keys \cup {NoKey}]
        /\ hup' \in [loaded : BOOLEAN, cfg : [Devices -> Keys \cup {NoKey}]]
        /\ unread' \in SUBSET Devices
    BY <1>1, NilTypes, MergeTypes, LoadTypes DEF Restart
  <2>2. /\ pc' \in [Reqs -> Pcs] /\ \A q \in Reqs : pc'[q] \notin {"flush", "save", "live"}
    BY <1>1 DEF Restart, TypeOK, Pcs
  <2>3. \A q \in Reqs : tokMu' # q /\ srvMu' # q
    BY <1>1, NilAssumption DEF Restart
  <2>4. counts' \in [hups : Nat, revokes : Nat, restarts : Nat]
    BY <1>1 DEF Restart, TypeOK
  <2> QED
    BY <1>1, <2>1, <2>2, <2>3, <2>4 DEF Restart, TypeOK, tokenVars
<1>2. CASE WireLive
  BY <1>2 DEF WireLive, TypeOK, tokenVars, stateVars
<1>3. CASE HupLoad
  <2>1. hup' \in [loaded : BOOLEAN, cfg : [Devices -> Keys \cup {NoKey}]]
    <3>1. \A file \in LoadGateway : KeysOf(Merge(file)) \in [Devices -> Keys \cup {NoKey}]
      BY MergeTypes, LoadTypes
    <3> QED
      BY <3>1, <1>3 DEF HupLoad
  <2>2. counts' \in [hups : Nat, revokes : Nat, restarts : Nat]
    BY <1>3 DEF HupLoad, TypeOK
  <2> QED
    BY <1>3, <2>1, <2>2 DEF HupLoad, TypeOK, tokenVars, stateVars
<1>4. CASE HupReplace
  <2>1. hup.cfg \in [Devices -> Keys \cup {NoKey}]
    BY DEF TypeOK
  <2>2. out' \in SUBSET Devices
    BY <1>4 DEF HupReplace, TypeOK
  <2> QED
    BY <1>4, <2>1, <2>2, NilTypes DEF HupReplace, TypeOK, tokenVars
<1>5. ASSUME NEW d \in Devices, RevokeLoad(d) PROVE TypeOK'
  <2>1. revoker' \in [on : BOOLEAN, dev : Devices, copy : StateFile]
    BY <1>5 DEF RevokeLoad, TypeOK
  <2>2. counts' \in [hups : Nat, revokes : Nat, restarts : Nat]
    BY <1>5 DEF RevokeLoad, TypeOK
  <2> QED
    BY <1>5, <2>1, <2>2 DEF RevokeLoad, TypeOK, tokenVars, stateVars
<1>6. CASE RevokeSave
  <2>1. revoker.copy \in StateFile /\ revoker.dev \in Devices
    BY DEF TypeOK
  <2>2. stateFile' \in StateFile
    BY <2>1, <1>6, EntryTypes DEF RevokeSave, SaveGateway, StateFile
  <2> QED
    BY <1>6, <2>2, NilTypes DEF RevokeSave, TypeOK, tokenVars
<1> QED
  BY <1>1, <1>2, <1>3, <1>4, <1>5, <1>6

\* No step leaves the types.
LEMMA TypeStep == TypeOK /\ OrderInv /\ [Next]_vars => TypeOK'
<1>1. UNCHANGED vars /\ TypeOK => TypeOK'
  BY DEF vars, TypeOK
<1> QED
  BY <1>1, TypeIssue, TypeEnrol, TypeProcess DEF Next
-----------------------------------------------------------------------------
(* The order of the enrolments *)

\* The critical section of EnrollServer puts the requests in order.
LEMMA OrderStep == TypeOK /\ OrderInv /\ [Next]_vars => OrderInv'
<1> SUFFICES ASSUME TypeOK, OrderInv, [Next]_vars PROVE OrderInv'
  OBVIOUS
<1>0. order \in [Reqs -> Nat] /\ pc \in [Reqs -> Pcs]
  BY DEF TypeOK
<1>1. CASE /\ UNCHANGED order
           /\ \A r \in Reqs :
                 /\ pc'[r] \in {"start", "flush", "lock"} => pc[r] \in {"start", "flush", "lock"}
                 /\ pc'[r] \in {"save", "live", "ok"} => pc[r] \in {"save", "live", "ok"}
  BY <1>1 DEF OrderInv, Ordered
<1>2. ASSUME NEW r \in Reqs, EnrolEntry(r), pc'[r] = "save" PROVE OrderInv'
  <2> DEFINE n == Cardinality(Ordered)
  <2>1. /\ pc[r] = "lock" /\ order[r] = 0 /\ r \notin Ordered /\ IsFiniteSet(Ordered)
        /\ order' = [order EXCEPT ![r] = 1 + n] /\ pc' = [pc EXCEPT ![r] = "save"]
    BY <1>0, <1>2 DEF EnrolEntry, Goto, OrderInv, Ordered
  <2>2. n \in Nat
    BY <2>1, FS_CardinalityType
  <2>3. Ordered' = Ordered \cup {r}
    <3>1. 1 + n > 0
      BY <2>2
    <3> HIDE DEF n
    <3> QED
      BY <1>0, <2>1, <3>1 DEF Ordered
  <2>4. IsFiniteSet(Ordered') /\ Cardinality(Ordered') = n + 1
    BY <2>1, <2>3, FS_AddElement
  <2>5. ASSUME NEW q \in Reqs
        PROVE  /\ order'[q] <= n + 1
               /\ pc'[q] \in {"start", "flush", "lock"} => order'[q] = 0
               /\ pc'[q] \in {"save", "live", "ok"} => order'[q] > 0
    <3>1. /\ order[q] <= n /\ (pc[q] \in {"start", "flush", "lock"} => order[q] = 0)
          /\ pc[q] \in {"save", "live", "ok"} => order[q] > 0
      BY DEF OrderInv
    <3> HIDE DEF n
    <3>2. CASE q = r
      BY <1>0, <2>1, <2>2, <3>2
    <3>3. CASE q # r
      BY <1>0, <2>1, <2>2, <3>1, <3>3
    <3> QED BY <3>2, <3>3
  <2> QED
    BY <2>4, <2>5 DEF OrderInv
<1>3. ASSUME NEW r \in Reqs, \/ ConsumeRead(r) \/ ConsumeFlush(r) \/ EnrolSave(r) \/ EnrolLive(r)
                             \/ (EnrolEntry(r) /\ pc'[r] # "save")
      PROVE  OrderInv'
  <2>1. order' = order /\ \E p \in Pcs : /\ pc' = [pc EXCEPT ![r] = p]
                                         /\ p \in {"flush", "lock"} => pc[r] \in {"start", "flush"}
                                         /\ p \in {"save", "live", "ok"} => pc[r] \in {"save", "live"}
                                         /\ p # "start"
    BY <1>0, <1>3 DEF ConsumeRead, ConsumeFlush, EnrolEntry, EnrolSave, EnrolLive, Goto, Pcs, stateVars
  <2> QED
    BY <1>0, <1>1, <2>1
<1>4. CASE Restart
  BY <1>0, <1>1, <1>4 DEF Restart
<1>5. CASE UNCHANGED <<order, pc>>
  BY <1>1, <1>5
<1>6. \/ \E r \in Reqs : ConsumeRead(r) \/ ConsumeFlush(r) \/ EnrolEntry(r) \/ EnrolSave(r) \/ EnrolLive(r)
      \/ Restart \/ UNCHANGED <<order, pc>>
  BY DEF Next, vars, IssueRead, IssueFlush, Expire, WireLive, HupLoad, HupReplace, RevokeLoad, RevokeSave, stateVars
<1> QED
  BY <1>2, <1>3, <1>4, <1>5, <1>6
-----------------------------------------------------------------------------
(* Tokens *)

\* A token is accepted once, unless issue-token brings it back.
LEMMA TokenStep == TypeOK /\ TokenInv /\ [Next]_vars => TokenInv'
<1> SUFFICES ASSUME TypeOK, TokenInv, [Next]_vars PROVE TokenInv'
  OBVIOUS
<1>0. /\ uses \in [Tokens -> Nat] /\ tokFile \in TokenFile /\ toks \in TokenFile /\ NoReq \notin Reqs
      /\ tokMu \in Reqs \cup {NoReq} /\ TokenOf \in [Reqs -> Tokens]
  BY NilAssumption, TokenAssumption DEF TypeOK
<1>1. CASE /\ UNCHANGED <<uses, revived, tokFile>>
           /\ UNCHANGED <<tokMu, toks>> \/ tokMu' = NoReq
  BY <1>1 DEF TokenInv, UsedIn, SecondUseNeedsRevival
<1>2. ASSUME NEW t \in Tokens, IssueFlush(t) PROVE TokenInv'
  <2>1. /\ UNCHANGED <<uses, tokMu, toks>>
        /\ revived' = revived \cup {u \in Tokens : tokFile[u] = "used" /\ tokFile'[u] # "used"}
    BY <1>2 DEF IssueFlush
  <2> QED
    BY <2>1 DEF TokenInv, UsedIn, SecondUseNeedsRevival
<1>3. ASSUME NEW r \in Reqs, ConsumeRead(r) PROVE TokenInv'
  <2>1. UNCHANGED <<uses, revived, tokFile>>
    BY <1>3 DEF ConsumeRead, tokenVars
  <2>2. CASE tokFile[TokenOf[r]] = "fresh" /\ tokMu' = r /\ toks' = tokFile
    BY <2>1, <2>2 DEF TokenInv, UsedIn, SecondUseNeedsRevival
  <2>3. CASE UNCHANGED <<tokMu, toks>>
    BY <1>1, <2>1, <2>3
  <2> QED
    BY <1>3, <2>2, <2>3 DEF ConsumeRead, Valid, reloadLocked
<1>4. ASSUME NEW r \in Reqs, ConsumeFlush(r) PROVE TokenInv'
  <2> DEFINE t == TokenOf[r]
  <2>1. /\ t \in Tokens /\ tokMu = r /\ tokMu' = NoReq /\ revived' = revived
        /\ UsedIn(toks) /\ toks[t] = "fresh" /\ UsedIn(tokFile) /\ SecondUseNeedsRevival
    BY <1>0, <1>4 DEF ConsumeFlush, TokenInv, TypeOK
  <2>2. CASE tokFile' = [toks EXCEPT ![t] = "used"] /\ uses' = [uses EXCEPT ![t] = @ + 1]
    <3>1. uses[t] > 0 => t \in revived
      BY <2>1 DEF UsedIn
    <3>2. \A u \in Tokens : /\ u # t => tokFile'[u] = toks[u] /\ uses'[u] = uses[u]
                            /\ u = t => tokFile'[u] = "used" /\ uses'[u] = uses[u] + 1
      BY <1>0, <2>1, <2>2 DEF TokenFile
    <3>3. UsedIn(tokFile)'
      BY <2>1, <3>2 DEF UsedIn
    <3>4. SecondUseNeedsRevival'
      BY <1>0, <2>1, <3>1, <3>2 DEF SecondUseNeedsRevival
    <3> QED
      BY <2>1, <3>3, <3>4 DEF TokenInv
  <2>3. CASE UNCHANGED <<tokFile, uses>>
    BY <1>1, <2>1, <2>3
  <2> QED
    BY <1>4, <2>2, <2>3 DEF ConsumeFlush, flushLocked
<1>5. \/ \E t \in Tokens : IssueFlush(t)
      \/ \E r \in Reqs : ConsumeRead(r) \/ ConsumeFlush(r)
      \/ UNCHANGED <<uses, revived, tokFile>> /\ (UNCHANGED <<tokMu, toks>> \/ tokMu' = NoReq)
  BY DEF Next, vars, IssueRead, Expire, EnrolEntry, EnrolSave, EnrolLive, Restart, WireLive, HupLoad,
         HupReplace, RevokeLoad, RevokeSave, tokenVars
<1> QED
  BY <1>1, <1>2, <1>3, <1>4, <1>5
-----------------------------------------------------------------------------
(* What is in the file *)

\* An entry that is no earlier than one that is no earlier than r.
LEMMA NoEarlierTrans ==
    ASSUME NEW ord \in [Reqs -> Nat], NEW e, NEW f, NEW r \in Reqs, NoEarlier(e, r, ord),
           \A x \in Reqs : e.key = x => NoEarlier(f, x, ord)
    PROVE  NoEarlier(f, r, ord)
<1>1. PICK x \in Reqs : e.key = x /\ Device(x) = Device(r) /\ ord[x] >= ord[r]
  BY DEF NoEarlier
<1>2. PICK y \in Reqs : f.key = y /\ Device(y) = Device(x) /\ ord[y] >= ord[x]
  BY <1>1 DEF NoEarlier
<1>3. ord[y] >= ord[r]
  BY <1>1, <1>2
<1> QED
  BY <1>1, <1>2, <1>3 DEF NoEarlier

\* A request that takes its place at the end of the order changes nothing
\* between the others.
LEMMA NoEarlierKept ==
    ASSUME NEW ord \in [Reqs -> Nat], NEW new \in [Reqs -> Nat], NEW e, NEW r \in Reqs,
           NoEarlier(e, r, ord), new[r] = ord[r], \A x \in Reqs : new[x] >= ord[x]
    PROVE  NoEarlier(e, r, new)
<1>1. PICK x \in Reqs : e.key = x /\ Device(x) = Device(r) /\ ord[x] >= ord[r]
  BY DEF NoEarlier
<1>2. new[x] >= new[r]
  BY <1>1
<1> QED
  BY <1>1, <1>2 DEF NoEarlier

\* The file follows the state in memory through every enrolment, failed
\* write, SIGHUP and restart.
LEMMA DurableStep == TypeOK /\ OrderInv /\ DurableInv /\ TypeOK' /\ [Next]_vars => DurableInv'
<1> SUFFICES ASSUME TypeOK, OrderInv, DurableInv, [Next]_vars, TypeOK', counts'.revokes = 0
             PROVE  DurableInv'
  BY DEF DurableInv
<1>0. /\ order \in [Reqs -> Nat] /\ order' \in [Reqs -> Nat] /\ pc \in [Reqs -> Pcs]
      /\ state \in StateFile /\ stateFile \in StateFile /\ live \in [Devices -> Keys \cup {NoKey}]
  BY DEF TypeOK
<1>1. counts.revokes = 0 /\ ~revoker.on /\ revoker' = revoker
  <2>1. counts.revokes \in Nat /\ (counts.revokes = 0 => ~revoker.on)
    BY DEF TypeOK, DurableInv
  <2>2. CASE UNCHANGED <<counts, revoker>>
    BY <2>1, <2>2
  <2>3. CASE Restart \/ HupLoad
    BY <2>1, <2>3 DEF Restart, HupLoad, TypeOK
  <2>4. ASSUME NEW d \in Devices, RevokeLoad(d) PROVE FALSE
    <3>1. counts'.revokes = counts.revokes + 1
      BY <2>4 DEF RevokeLoad, TypeOK
    <3> QED BY <2>1, <3>1
  <2>5. CASE RevokeSave
    BY <2>1, <2>5 DEF RevokeSave
  <2> QED
    BY <2>2, <2>3, <2>4, <2>5 DEF Next, vars, IssueRead, IssueFlush, Expire, ConsumeRead, ConsumeFlush,
       EnrolEntry, EnrolSave, EnrolLive, WireLive, HupReplace, procVars
<1>2. /\ \A d \in Devices \ Yaml : UnreadInv(d) /\ \A r \in Reqs : FileInv(d, r)
      /\ \A r \in Reqs : Device(r) \notin Yaml => AnsweredInv(r)
  BY <1>1 DEF DurableInv
<1> SUFFICES /\ \A d \in Devices \ Yaml : UnreadInv(d)' /\ \A r \in Reqs : FileInv(d, r)'
             /\ \A r \in Reqs : Device(r) \notin Yaml => AnsweredInv(r)'
  BY <1>1 DEF DurableInv
<1> DEFINE Goal == /\ \A d \in Devices \ Yaml : UnreadInv(d)' /\ \A r \in Reqs : FileInv(d, r)'
                   /\ \A r \in Reqs : Device(r) \notin Yaml => AnsweredInv(r)'
<1>3. \A r \in Reqs : Device(r) \in Devices
  BY RequestTypes
<1>4. CASE /\ UNCHANGED <<state, stateFile, live, hup, order, unread>>
           /\ \A r \in Reqs : pc'[r] \in {"save", "live", "ok"} => pc[r] = pc'[r]
  BY <1>2, <1>4 DEF UnreadInv, FileInv, AnsweredInv, InFile, Overwritten
<1>5. ASSUME NEW q \in Reqs, EnrolEntry(q), pc'[q] = "save" PROVE Goal
  <2> DEFINE n == Cardinality(Ordered)
  <2>1. /\ pc[q] = "lock" /\ pc' = [pc EXCEPT ![q] = "save"] /\ UNCHANGED <<stateFile, live, hup, unread>>
        /\ order[q] = 0 /\ order' = [order EXCEPT ![q] = 1 + n] /\ n \in Nat
        /\ state' = [state EXCEPT ![Device(q)] = [key |-> q, pub |-> Role[TokenOf[q]] = "daemon"]]
    BY <1>0, <1>5, FS_CardinalityType DEF EnrolEntry, Goto, OrderInv, Ordered, procVars
  <2>2. \A x \in Reqs : order'[x] >= order[x] /\ (x # q => order'[x] = order[x] /\ order'[q] >= order'[x])
    <3>1. \A x \in Reqs : order[x] <= n
      BY DEF OrderInv
    <3> HIDE DEF n
    <3> QED BY <1>0, <2>1, <3>1
  <2>3. \A d \in Devices : state'[d] = IF d = Device(q) THEN [key |-> q, pub |-> Role[TokenOf[q]] = "daemon"]
                                       ELSE state[d]
    BY <1>0, <2>1 DEF StateFile
  <2>4. state'[Device(q)].key = q /\ Device(q) \in Devices
    BY <1>3, <2>3
  <2>5. ASSUME NEW x \in Reqs, Device(x) = Device(q) PROVE NoEarlier(state'[Device(q)], x, order')
    BY <1>0, <2>2, <2>4, <2>5 DEF NoEarlier
  <2>6. ASSUME NEW d \in Devices \ Yaml, NEW x \in Reqs, x # q, InFile(d, x)
        PROVE  InFile(d, x)'
    <3>1. CASE NoEarlier(stateFile[d], x, order)
      <4>1. NoEarlier(stateFile'[d], x, order')
        BY <1>0, <2>1, <2>2, <2>6, <3>1, NoEarlierKept
      <4> QED BY <4>1 DEF InFile
    <3>2. CASE Overwritten(d)
      BY <2>1, <3>2 DEF InFile, Overwritten
    <3> QED BY <2>6, <3>1, <3>2 DEF InFile
  <2>7. ASSUME NEW d \in Devices \ Yaml, NEW x \in Reqs PROVE FileInv(d, x)'
    <3>1. FileInv(d, x)
      BY <1>2
    <3>2. x = q => x \notin {state[d].key, stateFile[d].key, live[d], hup.cfg[d]}
      BY <2>1, <3>1 DEF FileInv
    <3>3. stateFile'[d].key = x => NoEarlier(state'[d], x, order') \/ (d \in unread' /\ state'[d] = Absent)
      <4> SUFFICES ASSUME stateFile[d].key = x
                   PROVE  NoEarlier(state'[d], x, order') \/ (d \in unread' /\ state'[d] = Absent)
        BY <2>1
      <4>1. x # q /\ Device(x) = d
        BY <3>1, <3>2 DEF FileInv
      <4>2. CASE d = Device(q)
        BY <2>5, <4>1, <4>2
      <4>3. CASE d # Device(q) /\ NoEarlier(state[d], x, order)
        <5>1. order'[x] = order[x] /\ \A y \in Reqs : order'[y] >= order[y]
          BY <2>2, <4>1
        <5>2. NoEarlier(state[d], x, order')
          BY <1>0, <4>3, <5>1, NoEarlierKept
        <5> QED BY <2>3, <4>3, <5>2
      <4>4. CASE d # Device(q) /\ d \in unread /\ state[d] = Absent
        BY <2>1, <2>3, <4>4
      <4> QED BY <3>1, <4>2, <4>3, <4>4 DEF FileInv
    <3>4. state'[d].key = x => Device(x) = d /\ order'[x] > 0
      <4>1. CASE d = Device(q)
        <5>1. order'[q] > 0
          <6> HIDE DEF n
          <6> QED BY <1>0, <2>1
        <5> QED BY <2>4, <4>1, <5>1
      <4>2. CASE d # Device(q)
        BY <1>0, <2>2, <2>3, <3>1, <3>2, <4>2 DEF FileInv
      <4> QED BY <4>1, <4>2
    <3>5. x \in {stateFile[d].key, live[d], hup.cfg[d]} => order'[x] > 0 /\ Device(x) = d
      BY <2>2, <3>1, <3>2 DEF FileInv
    <3>6. live[d] = x \/ hup.cfg[d] = x => InFile(d, x)'
      BY <2>6, <3>1, <3>2 DEF FileInv
    <3> QED
      BY <2>1, <3>3, <3>4, <3>5, <3>6 DEF FileInv
  <2>9. ASSUME NEW d \in Devices \ Yaml, d \in unread' PROVE UnreadInv(d)'
    <3>1. CASE d = Device(q)
      BY <2>5, <3>1 DEF UnreadInv
    <3>2. CASE d # Device(q) /\ state[d] = Absent
      BY <2>3, <3>2 DEF UnreadInv
    <3>3. CASE d # Device(q) /\ \A x \in Reqs : Device(x) = d => NoEarlier(state[d], x, order)
      <4>1. ASSUME NEW x \in Reqs, Device(x) = d PROVE NoEarlier(state'[d], x, order')
        <5>1. x # q /\ NoEarlier(state[d], x, order)
          BY <3>3, <4>1
        <5>2. order'[x] = order[x] /\ \A y \in Reqs : order'[y] >= order[y]
          BY <2>2, <5>1
        <5>3. NoEarlier(state[d], x, order')
          BY <1>0, <5>1, <5>2, NoEarlierKept
        <5> QED BY <2>3, <3>3, <5>3
      <4> QED BY <4>1 DEF UnreadInv
    <3> QED BY <1>2, <2>1, <2>9, <3>1, <3>2, <3>3 DEF UnreadInv
  <2>8. ASSUME NEW x \in Reqs, Device(x) \notin Yaml PROVE AnsweredInv(x)'
    <3>1. CASE x = q
      BY <1>0, <2>1, <2>5, <3>1 DEF AnsweredInv
    <3>2. CASE x # q
      <4>1. pc'[x] = pc[x] /\ pc[x] # "save"
        <5>1. srvMu = NoReq /\ NoReq \notin Reqs
          BY <1>5, <2>1, NilAssumption DEF EnrolEntry
        <5> QED
          BY <1>0, <2>1, <3>2, <5>1 DEF TypeOK
      <4>2. AnsweredInv(x) /\ Device(x) \in Devices \ Yaml
        BY <1>2, <1>3, <2>8
      <4> QED
        BY <2>6, <3>2, <4>1, <4>2 DEF AnsweredInv
    <3> QED BY <3>1, <3>2
  <2>10. \A d \in Devices \ Yaml : UnreadInv(d)'
    BY <2>9 DEF UnreadInv
  <2> QED BY <2>7, <2>8, <2>10
<1>6. ASSUME NEW q \in Reqs, EnrolSave(q), pc' = [pc EXCEPT ![q] = "live"], stateFile' = state,
             unread' = {d \in unread : state[d] = Absent}
      PROVE  Goal
  <2>1. UNCHANGED <<state, live, hup, order>> /\ pc[q] = "save"
    BY <1>6 DEF EnrolSave, procVars
  <2>2. ASSUME NEW d \in Devices \ Yaml, NEW x \in Reqs, Device(x) = d, InFile(d, x)
        PROVE  InFile(d, x)'
    <3>1. CASE d \in unread /\ state[d] = Absent
      BY <1>6, <3>1 DEF InFile, Overwritten
    <3>2. CASE ~(d \in unread /\ state[d] = Absent) /\ NoEarlier(stateFile[d], x, order)
      <4>1. \A y \in Reqs : stateFile[d].key = y => NoEarlier(state[d], y, order)
        BY <1>2, <3>2 DEF FileInv
      <4>2. NoEarlier(state[d], x, order)
        BY <1>0, <3>2, <4>1, NoEarlierTrans
      <4> QED BY <4>2, <1>6, <2>1 DEF InFile
    <3>3. CASE ~(d \in unread /\ state[d] = Absent) /\ Overwritten(d)
      <4>1. NoEarlier(state[d], x, order)
        BY <1>2, <2>2, <3>3 DEF UnreadInv, Overwritten
      <4> QED BY <4>1, <1>6, <2>1 DEF InFile
    <3> QED BY <2>2, <3>1, <3>2, <3>3 DEF InFile
  <2>3. ASSUME NEW d \in Devices \ Yaml, NEW x \in Reqs PROVE FileInv(d, x)'
    <3>1. FileInv(d, x)
      BY <1>2
    <3>2. stateFile'[d] = state[d] /\ (state[d].key = x => NoEarlier(state[d], x, order))
      BY <1>0, <1>6 DEF NoEarlier
    <3>3. live[d] = x \/ hup.cfg[d] = x => InFile(d, x)'
      BY <2>2, <3>1 DEF FileInv
    <3> QED
      BY <2>1, <3>1, <3>2, <3>3 DEF FileInv
  <2>4. ASSUME NEW x \in Reqs, Device(x) \notin Yaml PROVE AnsweredInv(x)'
    <3>1. AnsweredInv(x) /\ Device(x) \in Devices \ Yaml
      BY <1>2, <1>3, <2>4
    <3>2. CASE x = q
      BY <1>0, <1>6, <2>1, <3>1, <3>2 DEF AnsweredInv, InFile
    <3>3. CASE x # q
      BY <1>0, <1>6, <2>1, <2>2, <3>1, <3>3 DEF AnsweredInv
    <3> QED BY <3>2, <3>3
  <2>5. \A d \in Devices : UnreadInv(d)'
    BY <1>6, <2>1 DEF UnreadInv
  <2> QED BY <2>3, <2>4, <2>5
<1>7. ASSUME NEW q \in Reqs, EnrolLive(q) PROVE Goal
  <2>1. /\ UNCHANGED <<state, stateFile, hup, order, unread>>
        /\ pc[q] = "live" /\ pc' = [pc EXCEPT ![q] = "ok"]
        /\ live' = live \/ live' = [live EXCEPT ![Device(q)] = q]
    BY <1>7 DEF EnrolLive, Goto, procVars
  <2>2. Device(q) \notin Yaml => InFile(Device(q), q)
    BY <1>2, <2>1 DEF AnsweredInv
  <2>3. \A d \in Devices, x \in Reqs : InFile(d, x)' <=> InFile(d, x)
    BY <2>1 DEF InFile, Overwritten
  <2>4. ASSUME NEW d \in Devices \ Yaml, NEW x \in Reqs PROVE FileInv(d, x)'
    <3>1. FileInv(d, x)
      BY <1>2
    <3>2. live'[d] = live[d] \/ (live'[d] = q /\ d = Device(q))
      BY <1>0, <2>1
    <3>3. order[q] > 0
      BY <2>1 DEF OrderInv
    <3> QED
      BY <2>1, <2>2, <2>3, <3>1, <3>2, <3>3 DEF FileInv
  <2>5. ASSUME NEW x \in Reqs, Device(x) \notin Yaml PROVE AnsweredInv(x)'
    <3>1. AnsweredInv(x) /\ Device(x) \in Devices
      BY <1>2, <1>3, <2>5
    <3> QED
      BY <1>0, <2>1, <2>2, <2>3, <2>5, <3>1 DEF AnsweredInv
  <2>6. \A d \in Devices \ Yaml : UnreadInv(d)'
    BY <1>2, <2>1 DEF UnreadInv
  <2> QED BY <2>4, <2>5, <2>6
<1>8. ASSUME NEW d \in Devices \ Yaml, NEW x \in Reqs, stateFile[d].key = x
      PROVE  NoEarlier(stateFile[d], x, order) /\ order[x] > 0 /\ Device(x) = d
  <2>1. FileInv(d, x)
    BY <1>2
  <2>2. order[x] > 0 /\ Device(x) = d
    BY <2>1, <1>8 DEF FileInv
  <2> QED
    BY <2>2, <1>0, <1>8 DEF NoEarlier
<1>9. ASSUME NEW file \in LoadGateway, NEW d \in Devices \ Yaml
      PROVE  /\ Merge(file)[d] = file[d] /\ KeysOf(Merge(file))[d] = file[d].key
             /\ file[d] \in {stateFile[d], Absent}
             /\ \A x \in Reqs : file[d].key = x => stateFile[d].key = x
  <2>1. file \in StateFile /\ file[d] \in {stateFile[d], Absent}
    BY LoadTypes
  <2> QED
    BY <2>1, MergeTypes, EntryTypes
<1>10. CASE Restart
  <2>1. PICK file \in LoadGateway :
          /\ state' = Merge(file) /\ live' = KeysOf(Merge(file))
          /\ unread' = {d \in Devices : IF stateFile[d] = Absent THEN d \in unread ELSE file[d] = Absent}
    BY <1>10 DEF Restart
  <2>2. /\ UNCHANGED <<stateFile, order>> /\ hup' = NotLoaded
        /\ \A r \in Reqs : pc'[r] \in {"save", "live", "ok"} => pc'[r] = "ok" /\ pc[r] = "ok"
    BY <1>0, <1>10 DEF Restart
  <2>3. ASSUME NEW d \in Devices \ Yaml, NEW x \in Reqs PROVE FileInv(d, x)'
    <3>1. hup'.cfg[d] # x /\ state'[d] = file[d] /\ live'[d] = file[d].key
      BY <1>9, <2>1, <2>2, NilTypes, EntryTypes
    <3>2. file[d] \in {stateFile[d], Absent} /\ (file[d].key = x => stateFile[d].key = x)
      BY <1>9
    <3>3. ASSUME stateFile[d].key = x
          PROVE  NoEarlier(state'[d], x, order') \/ (d \in unread' /\ state'[d] = Absent)
      BY <1>8, <2>1, <2>2, <3>1, <3>2, <3>3, EntryTypes
    <3>4. live'[d] = x => InFile(d, x)'
      BY <1>8, <2>2, <3>1, <3>2 DEF InFile
    <3>5. x \in {state'[d].key, stateFile'[d].key, live'[d], hup'.cfg[d]} => order'[x] > 0 /\ Device(x) = d
      BY <1>8, <2>2, <3>1, <3>2
    <3> QED
      BY <2>2, <3>1, <3>3, <3>4, <3>5 DEF FileInv
  <2>4. ASSUME NEW x \in Reqs, Device(x) \notin Yaml PROVE AnsweredInv(x)'
    <3>1. AnsweredInv(x) /\ Device(x) \in Devices
      BY <1>2, <1>3, <2>4
    <3>2. InFile(Device(x), x) => InFile(Device(x), x)'
      BY <2>1, <2>2, <3>1 DEF InFile, Overwritten
    <3> QED BY <2>2, <3>1, <3>2 DEF AnsweredInv
  <2>5. ASSUME NEW d \in Devices \ Yaml, d \in unread' PROVE state'[d] = Absent
    <3>1. state'[d] = file[d] /\ file[d] \in {stateFile[d], Absent}
      BY <1>9, <2>1
    <3> QED BY <2>1, <2>5, <3>1
  <2>6. \A d \in Devices \ Yaml : UnreadInv(d)'
    BY <2>5 DEF UnreadInv
  <2> QED BY <2>3, <2>4, <2>6
<1>11. CASE HupLoad
  <2>1. PICK file \in LoadGateway : hup'.cfg = KeysOf(Merge(file))
    BY <1>11 DEF HupLoad
  <2>2. UNCHANGED <<state, stateFile, live, order, unread, pc>>
    BY <1>11 DEF HupLoad, stateVars
  <2>3. \A d \in Devices, x \in Reqs : InFile(d, x)' <=> InFile(d, x)
    BY <2>2 DEF InFile, Overwritten
  <2>4. ASSUME NEW d \in Devices \ Yaml, NEW x \in Reqs PROVE FileInv(d, x)'
    <3>1. FileInv(d, x) /\ hup'.cfg[d] = file[d].key /\ (file[d].key = x => stateFile[d].key = x)
      BY <1>2, <1>9, <2>1
    <3>2. stateFile[d].key = x => InFile(d, x)
      BY <1>8 DEF InFile
    <3> QED
      BY <1>8, <2>2, <2>3, <3>1, <3>2 DEF FileInv
  <2>5. ASSUME NEW x \in Reqs, Device(x) \notin Yaml PROVE AnsweredInv(x)'
    BY <1>2, <1>3, <2>2, <2>3, <2>5 DEF AnsweredInv
  <2>6. \A d \in Devices \ Yaml : UnreadInv(d)'
    BY <1>2, <2>2 DEF UnreadInv
  <2> QED BY <2>4, <2>5, <2>6
<1>12. CASE HupReplace
  <2>1. UNCHANGED <<state, stateFile, order, unread, pc>> /\ live' = hup.cfg /\ hup' = NotLoaded
    BY <1>12 DEF HupReplace
  <2>2. \A d \in Devices, x \in Reqs : InFile(d, x)' <=> InFile(d, x)
    BY <2>1 DEF InFile, Overwritten
  <2>3. ASSUME NEW d \in Devices \ Yaml, NEW x \in Reqs PROVE FileInv(d, x)'
    <3>1. FileInv(d, x) /\ hup'.cfg[d] # x
      BY <1>2, <2>1, NilTypes, EntryTypes
    <3> QED
      BY <2>1, <2>2, <3>1 DEF FileInv
  <2>4. ASSUME NEW x \in Reqs, Device(x) \notin Yaml PROVE AnsweredInv(x)'
    BY <1>2, <1>3, <2>1, <2>2, <2>4 DEF AnsweredInv
  <2>5. \A d \in Devices \ Yaml : UnreadInv(d)'
    BY <1>2, <2>1 DEF UnreadInv
  <2> QED BY <2>3, <2>4, <2>5
<1>13. ASSUME NEW q \in Reqs, \/ ConsumeRead(q) \/ ConsumeFlush(q)
                              \/ EnrolEntry(q) /\ pc'[q] # "save"
                              \/ EnrolSave(q) /\ pc'[q] # "live"
       PROVE  Goal
  <2>1. /\ UNCHANGED <<state, stateFile, live, hup, order, unread>>
        /\ \E p \in {"flush", "refused", "lock", "conflict", "failed"} : pc' = [pc EXCEPT ![q] = p]
    BY <1>0, <1>13 DEF ConsumeRead, ConsumeFlush, EnrolEntry, EnrolSave, Goto, stateVars, procVars
  <2>2. \A r \in Reqs : pc'[r] \in {"save", "live", "ok"} => pc[r] = pc'[r]
    BY <1>0, <2>1
  <2> QED BY <1>4, <2>1, <2>2
<1>14. ASSUME NEW q \in Reqs, EnrolSave(q), pc'[q] = "live" PROVE Goal
  <2>1. /\ pc' = [pc EXCEPT ![q] = "live"] /\ stateFile' = state
        /\ unread' = {d \in unread : state[d] = Absent}
    BY <1>0, <1>14 DEF EnrolSave, SaveGateway, Goto
  <2> QED BY <1>6, <1>14, <2>1
<1>15. CASE \/ \E t \in Tokens : IssueRead(t) \/ IssueFlush(t) \/ Expire(t)
            \/ WireLive \/ UNCHANGED vars
  <2>1. UNCHANGED <<state, stateFile, live, hup, order, unread, pc>>
    BY <1>15 DEF IssueRead, IssueFlush, Expire, WireLive, vars, stateVars, procVars
  <2> QED BY <1>4, <2>1
<1>16. ~ RevokeSave /\ \A d \in Devices : ~ RevokeLoad(d)
  <2>1. ~ RevokeSave
    BY <1>1 DEF RevokeSave
  <2>2. ASSUME NEW d \in Devices, RevokeLoad(d) PROVE FALSE
    BY <1>1, <2>2 DEF RevokeLoad, TypeOK
  <2> QED BY <2>1, <2>2
<1> QED
  BY <1>5, <1>7, <1>10, <1>11, <1>12, <1>13, <1>14, <1>15, <1>16 DEF Next
-----------------------------------------------------------------------------
(* The theorems *)

\* The invariant holds when the gateway starts for the first time ...
LEMMA EnrollmentInvInit == Init => EnrollmentInv
<1> SUFFICES ASSUME Init PROVE EnrollmentInv
  OBVIOUS
<1>1. TypeOK
  BY TypeInit
<1>2. OrderInv
  <2>1. Ordered = {} /\ \A r \in Reqs : order[r] = 0 /\ pc[r] = "start"
    BY DEF Init, Ordered
  <2> QED
    BY <2>1, FS_EmptySet DEF OrderInv
<1>3. TokenInv
  BY NilAssumption DEF Init, TokenInv, UsedIn, SecondUseNeedsRevival
<1>4. DurableInv
  <2>1. /\ ~revoker.on /\ \A r \in Reqs : pc[r] = "start"
        /\ \A d \in Devices : hup.cfg[d] = NoKey /\ stateFile[d] = Absent
    BY NilTypes DEF Init
  <2>2. stateFile \in StateFile /\ state = Merge(stateFile) /\ live = KeysOf(Merge(stateFile))
    BY <1>1 DEF Init, TypeOK
  <2>3. \A d \in Devices \ Yaml : state[d] = stateFile[d] /\ live[d] = stateFile[d].key
    BY <2>2, MergeTypes
  <2> QED
    BY <2>1, <2>3, EntryTypes DEF DurableInv, UnreadInv, FileInv, AnsweredInv
<1> QED
  BY <1>1, <1>2, <1>3, <1>4 DEF EnrollmentInv

\* ... and every step keeps it.
LEMMA EnrollmentInvStep == EnrollmentInv /\ [Next]_vars => EnrollmentInv'
BY TypeStep, OrderStep, TokenStep, DurableStep DEF EnrollmentInv

\* The invariant of enrolment.
LEMMA EnrollmentInvHolds == Spec => []EnrollmentInv
<1>1. Init => EnrollmentInv
  BY EnrollmentInvInit
<1>2. EnrollmentInv /\ [Next]_vars => EnrollmentInv'
  BY EnrollmentInvStep
<1> QED
  BY <1>1, <1>2, PTL DEF Spec

\* TokenStore.mu and EnrollServer.mu are held exactly by the request inside
\* the critical section, and every variable stays in its type.
THEOREM EnrollmentTypeCorrect == Spec => []TypeOK
<1>1. EnrollmentInv => TypeOK
  BY DEF EnrollmentInv
<1> QED
  BY <1>1, EnrollmentInvHolds, PTL

\* TokenStore.Consume accepts a token once, however requests, failed writes
\* and restarts interleave, unless issue-token has put an old tokens.json back.
THEOREM TokensAreUsedOnce == Spec => []SecondUseNeedsRevival
<1>1. EnrollmentInv => SecondUseNeedsRevival
  BY DEF EnrollmentInv, TokenInv
<1> QED
  BY <1>1, EnrollmentInvHolds, PTL

\* AtLeast is the order of the enrolments so far.
LEMMA AtLeastIsNoEarlier == \A e, r : AtLeast(e, r) <=> NoEarlier(e, r, order)
BY DEF AtLeast, NoEarlier

\* An enrolment answered 200 stays in gateway-state.json, itself or a later
\* one of the device, as long as nobody runs gateway-revoke (HandleEnroll saves
\* before it answers) and until a gateway that started without being able to
\* read the file (gateway.go:75 goes on with gateway.yaml alone) saves its own
\* list over it.
THEOREM AcknowledgedStays == Spec => []AcknowledgedIsDurable
<1>1. EnrollmentInv => AcknowledgedIsDurable
  BY AtLeastIsNoEarlier, RequestTypes
     DEF EnrollmentInv, DurableInv, AnsweredInv, InFile, AcknowledgedIsDurable
<1> QED
  BY <1>1, EnrollmentInvHolds, PTL

\* A credential the gateway admits is in the file, or a later one of the
\* device, as long as nobody runs gateway-revoke: EnrollServer, the restart and
\* SIGHUP install nothing that a crash would lose, until such a gateway has
\* saved its own list.
THEOREM AdmittedStays == Spec => []LiveIsDurable
<1>1. EnrollmentInv => LiveIsDurable
  BY AtLeastIsNoEarlier DEF EnrollmentInv, DurableInv, FileInv, InFile, LiveIsDurable
<1> QED
  BY <1>1, EnrollmentInvHolds, PTL
=============================================================================
