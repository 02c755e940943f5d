---------------------------- MODULE DeviceProofs ----------------------------
(***************************************************************************)
(* What is in the state directory of a device, proved for any number of    *)
(* enrolments and commands, tokens, targets and directories.               *)
(***************************************************************************)
EXTENDS DeviceState, TLAPS

\* Every variable stays in its type, and a command that is about to save has
\* something to save.
TypeInv ==
    /\ TypeOK
    /\ key.whole => key.by \in Enrols
    /\ \A e \in Enrols : pc[e] = "exchange" \/ net[e] # "none" => tok[e] \in Tokens
    /\ \A c \in Commands :
        /\ pc[c] \in {"reload", "recd"} => arg[c] \in Dirs
        /\ pc[c] = "use" => arg[c] \in Targets
        /\ pc[c] \in {"fetch", "fetched", "recd", "use"} => loaded[c] # <<>>

\* As long as no two commands have overlapped, what a command holds in memory
\* is what state.json says.
CopyInv ==
    ~overlap => \A c \in Commands : pc[c] \in Window => st # None /\ loaded[c] = <<st>>

\* Enrolments that have written state.json.
Past(e) == pc[e] \in {"service", "done", "dead"}

\* Overlap or not, a command that will save its copy holds every setting of the
\* copy's enrolment that was saved before it read state.json; and that
\* enrolment will not write the file again.
KeptInv ==
    /\ SettingsKept
    /\ st # None => Past(st.dev)
    /\ kept.dev # None => Past(kept.dev)
    /\ \A c \in Commands : loaded[c] # <<>> => Past(loaded[c][1].dev)
    /\ \A c \in Commands :
        pc[c] \in Window /\ kept.dev = loaded[c][1].dev =>
            /\ "target" \in missed[c] \/ kept.target \in {None, loaded[c][1].target}
            /\ "wd" \in missed[c] \/ kept.wd \in {None, loaded[c][1].wd}

\* And an enrolment between its two files finds the key as it left it, a logout
\* between its two steps no state; the enrolment that is in force wrote both.
KeyInv ==
    ~overlap =>
        /\ \A e \in Enrols :
            /\ pc[e] = "truncated" => key = [by |-> e, whole |-> FALSE]
            /\ pc[e] = "state" => key = [by |-> e, whole |-> TRUE]
        /\ \A c \in Commands : pc[c] = "rmkey" => st = None
        /\ st # None => pc[st.dev] \in {"service", "done", "dead"}

\* Every identity in sight - the gateway's, the key file's, state.json's, the
\* one a command holds in memory - is that of an enrolment the gateway has
\* accepted; a token is consumed by an enrolment that posted it; and how far an
\* enrolment is says what it has reported and heard.
EnrolInv ==
    /\ \A e \in Enrols :
        /\ pc[e] \notin {"fetch", "fetched", "stat", "reload", "recd", "use", "rmkey"}
        /\ pc[e] = "idle" => net[e] = "none"
        /\ pc[e] \in {"plan", "key", "truncated", "state", "service", "done"} => net[e] = "ok"
        /\ net[e] = "ok" => tok[e] \in used /\ gw # None
        /\ stage[e] = "ok" => pc[e] = "done"
        /\ stage[e] = "probe" => pc[e] = "failed" /\ net[e] = "none"
        /\ e \in fresh => pc[e] = "done"
    /\ \A t \in used : \E e \in Enrols : tok[e] = t /\ net[e] # "none"
    /\ gw # None => net[gw] = "ok"
    /\ key.by # None => net[key.by] = "ok"
    /\ st # None => net[st.dev] = "ok"
    /\ \A c \in Commands : loaded[c] # <<>> => net[loaded[c][1].dev] = "ok"

\* A daemon that was not running when its enrolment installed the service was
\* started on what that enrolment wrote, while both files are still its own.
ServiceInv ==
    ~overlap =>
        \A e \in fresh :
            svc # None /\ st # None /\ st.dev = e /\ key.by = e => svc = [dev |-> e, key |-> e]

DirInv == TypeInv /\ CopyInv /\ KeptInv /\ KeyInv /\ StateHasKey /\ EnrolInv /\ ServiceInv
-----------------------------------------------------------------------------
USE DirAssumption, CommandAssumption
USE DEF dirVars, gwVars, svcVars, procVars, settingVars, Window, Goto, Busy, Fail, Role, Nobody

\* A command that changes the directory does not overlap with another one only
\* if no other is between its read and its write.
LEMMA Alone ==
    ASSUME NEW c \in Commands, overlap \in BOOLEAN, Changes(c)
    PROVE  /\ overlap' \in BOOLEAN
           /\ ~overlap' => ~overlap /\ \A d \in Commands \ {c} : ~Busy(d)
BY Zenon DEF Changes

\* What enroll writes to the key file, in part or whole, is a key.
LEMMA KeyType ==
    \A e \in Enrols : [by |-> e, whole |-> TRUE] \in Keys /\ [by |-> e, whole |-> FALSE] \in Keys
BY Zenon DEF Keys

\* The state that enroll saves names its device and no working directory.
LEMMA NewStateType == \A e \in Enrols : NewState(e) \in States /\ NewState(e).dev = e /\ NewState(e).wd = None
<1>1. (CHOOSE t \in Targets : TRUE) \in Targets
  OBVIOUS
<1> QED BY <1>1 DEF NewState, States

\* A new device has an empty directory.
LEMMA DirInvInit == Init => DirInv
<1> SUFFICES ASSUME Init PROVE DirInv
  OBVIOUS
<1>1. TypeOK
  BY DEF Init, TypeOK, Keys, Labels
<1>2. TypeInv
  BY <1>1 DEF Init, TypeInv, Commands
<1>3. CopyInv /\ KeptInv /\ KeyInv
  BY DEF Init, CopyInv, KeptInv, SettingsKept, Past, KeyInv, Commands
<1>4. StateHasKey
  BY DEF Init, StateHasKey
<1>5. EnrolInv /\ ServiceInv
  BY DEF Init, EnrolInv, ServiceInv, Commands
<1> QED BY <1>2, <1>3, <1>4, <1>5 DEF DirInv

\* Every variable stays in its type.
LEMMA TypeInvNext == DirInv /\ [Next]_vars => TypeInv'
<1> SUFFICES ASSUME DirInv, [Next]_vars
             PROVE  TypeInv'
  OBVIOUS
<1> USE DEF DirInv, TypeInv, TypeOK, Keys, Labels, States, Commands
<1>1. ASSUME NEW e \in Enrols, Probe(e) PROVE TypeInv'
  BY <1>1 DEF Probe
<1>2. ASSUME NEW e \in Enrols, Post(e) PROVE TypeInv'
  BY <1>2 DEF Post
<1>3. ASSUME NEW e \in Enrols, GatewayEnrols(e) PROVE TypeInv'
  <2>1. role' \in Role /\ st' \in States \cup {None} /\ key' \in Keys /\ unit' \in BOOLEAN
    BY <1>3 DEF GatewayEnrols
  <2>2. overlap' \in BOOLEAN
    BY <1>3 DEF GatewayEnrols
  <2>3. svc' \in [dev : Enrols, key : Enrols] \cup {None} /\ used' \subseteq Tokens
        /\ gw' \in Enrols \cup {None} /\ fresh' \subseteq Enrols
    BY <1>3 DEF GatewayEnrols
  <2>4. pc' \in [Commands -> Labels] /\ net' \in [Enrols -> {"none", "sent", "ok", "refused"}]
        /\ tok' \in [Enrols -> Tokens \cup {None}]
    BY <1>3 DEF GatewayEnrols
  <2>5. loaded' \in [Commands -> {<<>>} \cup {<<r>> : r \in States}]
        /\ arg' \in [Commands -> Targets \cup Dirs \cup {None}]
    BY <1>3 DEF GatewayEnrols
  <2>6. stage' \in [Enrols -> {None, "probe", "token_exchange", "save_state", "ok"}]
        /\ kept' \in [dev : Enrols \cup {None}, target : Targets \cup {None}, wd : Dirs \cup {None}]
        /\ missed' \in [Commands -> SUBSET {"target", "wd"}]
    BY <1>3 DEF GatewayEnrols
  <2>7. (key'.whole => key'.by \in Enrols)
        /\ \A d \in Enrols : pc'[d] = "exchange" \/ net'[d] # "none" => tok'[d] \in Tokens
    BY <1>3 DEF GatewayEnrols
  <2>8. \A d \in Commands :
          /\ pc'[d] \in {"reload", "recd"} => arg'[d] \in Dirs
          /\ pc'[d] = "use" => arg'[d] \in Targets
          /\ pc'[d] \in {"fetch", "fetched", "recd", "use"} => loaded'[d] # <<>>
    BY <1>3 DEF GatewayEnrols
  <2> QED BY <2>1, <2>2, <2>3, <2>4, <2>5, <2>6, <2>7, <2>8
<1>4. ASSUME NEW e \in Enrols, Exchanged(e) PROVE TypeInv'
  BY <1>4 DEF Exchanged
<1>5. ASSUME NEW e \in Enrols, ExchangeFails(e) PROVE TypeInv'
  BY <1>5 DEF ExchangeFails
<1>6. ASSUME NEW e \in Enrols, Plan(e) PROVE TypeInv'
  BY <1>6 DEF Plan
<1>7. ASSUME NEW e \in Enrols, OpenKey(e) PROVE TypeInv'
  <2>1. role' \in Role /\ st' \in States \cup {None} /\ key' \in Keys /\ unit' \in BOOLEAN
    <3>1. key' \in {key, [by |-> e, whole |-> FALSE]}
      BY <1>7 DEF OpenKey
    <3>2. key' \in Keys
      <4>1. key \in Keys /\ [by |-> e, whole |-> FALSE] \in Keys
        BY KeyType
      <4> QED BY <3>1, <4>1, Zenon
    <3> QED BY <1>7, <3>2 DEF OpenKey
  <2>2. overlap' \in BOOLEAN
    BY <1>7, Alone DEF OpenKey
  <2>3. svc' \in [dev : Enrols, key : Enrols] \cup {None} /\ used' \subseteq Tokens
        /\ gw' \in Enrols \cup {None} /\ fresh' \subseteq Enrols
    BY <1>7, Alone DEF OpenKey
  <2>4. pc' \in [Commands -> Labels] /\ net' \in [Enrols -> {"none", "sent", "ok", "refused"}]
        /\ tok' \in [Enrols -> Tokens \cup {None}]
    BY <1>7, Alone DEF OpenKey
  <2>5. loaded' \in [Commands -> {<<>>} \cup {<<r>> : r \in States}]
        /\ arg' \in [Commands -> Targets \cup Dirs \cup {None}]
    BY <1>7, Alone DEF OpenKey
  <2>6. stage' \in [Enrols -> {None, "probe", "token_exchange", "save_state", "ok"}]
        /\ kept' \in [dev : Enrols \cup {None}, target : Targets \cup {None}, wd : Dirs \cup {None}]
        /\ missed' \in [Commands -> SUBSET {"target", "wd"}]
    BY <1>7, Alone DEF OpenKey
  <2>7. (key'.whole => key'.by \in Enrols)
        /\ \A d \in Enrols : pc'[d] = "exchange" \/ net'[d] # "none" => tok'[d] \in Tokens
    BY <1>7, Alone DEF OpenKey
  <2>8. \A d \in Commands :
          /\ pc'[d] \in {"reload", "recd"} => arg'[d] \in Dirs
          /\ pc'[d] = "use" => arg'[d] \in Targets
          /\ pc'[d] \in {"fetch", "fetched", "recd", "use"} => loaded'[d] # <<>>
    BY <1>7, Alone DEF OpenKey
  <2> QED BY <2>1, <2>2, <2>3, <2>4, <2>5, <2>6, <2>7, <2>8
<1>8. ASSUME NEW e \in Enrols, SaveKey(e) PROVE TypeInv'
  <2>1. role' \in Role /\ st' \in States \cup {None} /\ key' \in Keys /\ unit' \in BOOLEAN
    <3>1. key' \in {key, [by |-> e, whole |-> TRUE]}
      BY <1>8 DEF SaveKey
    <3>2. key' \in Keys
      <4>1. key \in Keys /\ [by |-> e, whole |-> TRUE] \in Keys
        BY KeyType
      <4> QED BY <3>1, <4>1, Zenon
    <3> QED BY <1>8, <3>2 DEF SaveKey
  <2>2. overlap' \in BOOLEAN
    BY <1>8, Alone DEF SaveKey
  <2>3. svc' \in [dev : Enrols, key : Enrols] \cup {None} /\ used' \subseteq Tokens
        /\ gw' \in Enrols \cup {None} /\ fresh' \subseteq Enrols
    BY <1>8, Alone DEF SaveKey
  <2>4. pc' \in [Commands -> Labels] /\ net' \in [Enrols -> {"none", "sent", "ok", "refused"}]
        /\ tok' \in [Enrols -> Tokens \cup {None}]
    BY <1>8, Alone DEF SaveKey
  <2>5. loaded' \in [Commands -> {<<>>} \cup {<<r>> : r \in States}]
        /\ arg' \in [Commands -> Targets \cup Dirs \cup {None}]
    BY <1>8, Alone DEF SaveKey
  <2>6. stage' \in [Enrols -> {None, "probe", "token_exchange", "save_state", "ok"}]
        /\ kept' \in [dev : Enrols \cup {None}, target : Targets \cup {None}, wd : Dirs \cup {None}]
        /\ missed' \in [Commands -> SUBSET {"target", "wd"}]
    BY <1>8, Alone DEF SaveKey
  <2>7. (key'.whole => key'.by \in Enrols)
        /\ \A d \in Enrols : pc'[d] = "exchange" \/ net'[d] # "none" => tok'[d] \in Tokens
    BY <1>8, Alone DEF SaveKey
  <2>8. \A d \in Commands :
          /\ pc'[d] \in {"reload", "recd"} => arg'[d] \in Dirs
          /\ pc'[d] = "use" => arg'[d] \in Targets
          /\ pc'[d] \in {"fetch", "fetched", "recd", "use"} => loaded'[d] # <<>>
    BY <1>8, Alone DEF SaveKey
  <2> QED BY <2>1, <2>2, <2>3, <2>4, <2>5, <2>6, <2>7, <2>8
<1>9. ASSUME NEW e \in Enrols, SaveState(e) PROVE TypeInv'
  <2>1. role' \in Role /\ st' \in States \cup {None} /\ key' \in Keys /\ unit' \in BOOLEAN
    BY <1>9, NewStateType, Alone DEF SaveState
  <2>2. overlap' \in BOOLEAN
    BY <1>9, NewStateType, Alone DEF SaveState
  <2>3. svc' \in [dev : Enrols, key : Enrols] \cup {None} /\ used' \subseteq Tokens
        /\ gw' \in Enrols \cup {None} /\ fresh' \subseteq Enrols
    BY <1>9, NewStateType, Alone DEF SaveState
  <2>4. pc' \in [Commands -> Labels] /\ net' \in [Enrols -> {"none", "sent", "ok", "refused"}]
        /\ tok' \in [Enrols -> Tokens \cup {None}]
    BY <1>9, NewStateType, Alone DEF SaveState
  <2>5. loaded' \in [Commands -> {<<>>} \cup {<<r>> : r \in States}]
        /\ arg' \in [Commands -> Targets \cup Dirs \cup {None}]
    BY <1>9, NewStateType, Alone DEF SaveState
  <2>6. stage' \in [Enrols -> {None, "probe", "token_exchange", "save_state", "ok"}]
        /\ kept' \in [dev : Enrols \cup {None}, target : Targets \cup {None}, wd : Dirs \cup {None}]
        /\ missed' \in [Commands -> SUBSET {"target", "wd"}]
    BY <1>9, NewStateType, Alone DEF SaveState
  <2>7. (key'.whole => key'.by \in Enrols)
        /\ \A d \in Enrols : pc'[d] = "exchange" \/ net'[d] # "none" => tok'[d] \in Tokens
    BY <1>9, NewStateType, Alone DEF SaveState
  <2>8. \A d \in Commands :
          /\ pc'[d] \in {"reload", "recd"} => arg'[d] \in Dirs
          /\ pc'[d] = "use" => arg'[d] \in Targets
          /\ pc'[d] \in {"fetch", "fetched", "recd", "use"} => loaded'[d] # <<>>
    BY <1>9, NewStateType, Alone DEF SaveState
  <2> QED BY <2>1, <2>2, <2>3, <2>4, <2>5, <2>6, <2>7, <2>8
<1>10. ASSUME NEW e \in Enrols, InstallService(e) PROVE TypeInv'
  <2>1. role' \in Role /\ st' \in States \cup {None} /\ key' \in Keys /\ unit' \in BOOLEAN
    BY <1>10 DEF InstallService
  <2>2. overlap' \in BOOLEAN
    BY <1>10 DEF InstallService
  <2>3. svc' \in [dev : Enrols, key : Enrols] \cup {None} /\ used' \subseteq Tokens
        /\ gw' \in Enrols \cup {None} /\ fresh' \subseteq Enrols
    BY <1>10 DEF InstallService
  <2>4. pc' \in [Commands -> Labels] /\ net' \in [Enrols -> {"none", "sent", "ok", "refused"}]
        /\ tok' \in [Enrols -> Tokens \cup {None}]
    BY <1>10 DEF InstallService
  <2>5. loaded' \in [Commands -> {<<>>} \cup {<<r>> : r \in States}]
        /\ arg' \in [Commands -> Targets \cup Dirs \cup {None}]
    BY <1>10 DEF InstallService
  <2>6. stage' \in [Enrols -> {None, "probe", "token_exchange", "save_state", "ok"}]
        /\ kept' \in [dev : Enrols \cup {None}, target : Targets \cup {None}, wd : Dirs \cup {None}]
        /\ missed' \in [Commands -> SUBSET {"target", "wd"}]
    BY <1>10 DEF InstallService
  <2>7. (key'.whole => key'.by \in Enrols)
        /\ \A d \in Enrols : pc'[d] = "exchange" \/ net'[d] # "none" => tok'[d] \in Tokens
    BY <1>10 DEF InstallService
  <2>8. \A d \in Commands :
          /\ pc'[d] \in {"reload", "recd"} => arg'[d] \in Dirs
          /\ pc'[d] = "use" => arg'[d] \in Targets
          /\ pc'[d] \in {"fetch", "fetched", "recd", "use"} => loaded'[d] # <<>>
    BY <1>10 DEF InstallService
  <2> QED BY <2>1, <2>2, <2>3, <2>4, <2>5, <2>6, <2>7, <2>8
<1>11. ASSUME NEW c \in Commands, Begin(c) PROVE TypeInv'
  <2>1. role' \in Role /\ st' \in States \cup {None} /\ key' \in Keys /\ unit' \in BOOLEAN
    BY <1>11 DEF Begin, Read
  <2>2. overlap' \in BOOLEAN
    BY <1>11 DEF Begin, Read
  <2>3. svc' \in [dev : Enrols, key : Enrols] \cup {None} /\ used' \subseteq Tokens
        /\ gw' \in Enrols \cup {None} /\ fresh' \subseteq Enrols
    BY <1>11 DEF Begin, Read
  <2>4. pc' \in [Commands -> Labels] /\ net' \in [Enrols -> {"none", "sent", "ok", "refused"}]
        /\ tok' \in [Enrols -> Tokens \cup {None}]
    BY <1>11 DEF Begin, Read
  <2>5. loaded' \in [Commands -> {<<>>} \cup {<<r>> : r \in States}]
        /\ arg' \in [Commands -> Targets \cup Dirs \cup {None}]
    BY <1>11 DEF Begin, Read
  <2>6. stage' \in [Enrols -> {None, "probe", "token_exchange", "save_state", "ok"}]
        /\ kept' \in [dev : Enrols \cup {None}, target : Targets \cup {None}, wd : Dirs \cup {None}]
        /\ missed' \in [Commands -> SUBSET {"target", "wd"}]
    BY <1>11 DEF Begin, Read
  <2>7. (key'.whole => key'.by \in Enrols)
        /\ \A d \in Enrols : pc'[d] = "exchange" \/ net'[d] # "none" => tok'[d] \in Tokens
    BY <1>11 DEF Begin, Read
  <2>8. \A d \in Commands :
          /\ pc'[d] \in {"reload", "recd"} => arg'[d] \in Dirs
          /\ pc'[d] = "use" => arg'[d] \in Targets
          /\ pc'[d] \in {"fetch", "fetched", "recd", "use"} => loaded'[d] # <<>>
    BY <1>11, SMTT(40) DEF Begin, Read
  <2> QED BY <2>1, <2>2, <2>3, <2>4, <2>5, <2>6, <2>7, <2>8
<1>12. ASSUME NEW c \in Commands, Fetch(c) PROVE TypeInv'
  BY <1>12 DEF Fetch
<1>13. ASSUME NEW c \in Commands, SaveDefault(c) PROVE TypeInv'
  <2>1. role' \in Role /\ st' \in States \cup {None} /\ key' \in Keys /\ unit' \in BOOLEAN
    BY <1>13, Alone DEF SaveDefault, Save, Held, StillKept
  <2>2. overlap' \in BOOLEAN
    BY <1>13, Alone DEF SaveDefault, Save, Held, StillKept
  <2>3. svc' \in [dev : Enrols, key : Enrols] \cup {None} /\ used' \subseteq Tokens
        /\ gw' \in Enrols \cup {None} /\ fresh' \subseteq Enrols
    BY <1>13, Alone DEF SaveDefault, Save, Held, StillKept
  <2>4. pc' \in [Commands -> Labels] /\ net' \in [Enrols -> {"none", "sent", "ok", "refused"}]
        /\ tok' \in [Enrols -> Tokens \cup {None}]
    BY <1>13, Alone DEF SaveDefault, Save, Held, StillKept
  <2>5. loaded' \in [Commands -> {<<>>} \cup {<<r>> : r \in States}]
        /\ arg' \in [Commands -> Targets \cup Dirs \cup {None}]
    BY <1>13, Alone DEF SaveDefault, Save, Held, StillKept
  <2>6. stage' \in [Enrols -> {None, "probe", "token_exchange", "save_state", "ok"}]
        /\ kept' \in [dev : Enrols \cup {None}, target : Targets \cup {None}, wd : Dirs \cup {None}]
        /\ missed' \in [Commands -> SUBSET {"target", "wd"}]
    BY <1>13, Alone DEF SaveDefault, Save, Held, StillKept
  <2>7. (key'.whole => key'.by \in Enrols)
        /\ \A d \in Enrols : pc'[d] = "exchange" \/ net'[d] # "none" => tok'[d] \in Tokens
    BY <1>13, Alone DEF SaveDefault, Save, Held, StillKept
  <2>8. \A d \in Commands :
          /\ pc'[d] \in {"reload", "recd"} => arg'[d] \in Dirs
          /\ pc'[d] = "use" => arg'[d] \in Targets
          /\ pc'[d] \in {"fetch", "fetched", "recd", "use"} => loaded'[d] # <<>>
    BY <1>13, Alone DEF SaveDefault, Save, Held, StillKept
  <2> QED BY <2>1, <2>2, <2>3, <2>4, <2>5, <2>6, <2>7, <2>8
<1>14. ASSUME NEW c \in Commands, Stat(c) PROVE TypeInv'
  BY <1>14 DEF Stat
<1>15. ASSUME NEW c \in Commands, Reload(c) PROVE TypeInv'
  <2>1. role' \in Role /\ st' \in States \cup {None} /\ key' \in Keys /\ unit' \in BOOLEAN
    BY <1>15 DEF Reload, Read
  <2>2. overlap' \in BOOLEAN
    BY <1>15 DEF Reload, Read
  <2>3. svc' \in [dev : Enrols, key : Enrols] \cup {None} /\ used' \subseteq Tokens
        /\ gw' \in Enrols \cup {None} /\ fresh' \subseteq Enrols
    BY <1>15 DEF Reload, Read
  <2>4. pc' \in [Commands -> Labels] /\ net' \in [Enrols -> {"none", "sent", "ok", "refused"}]
        /\ tok' \in [Enrols -> Tokens \cup {None}]
    BY <1>15 DEF Reload, Read
  <2>5. loaded' \in [Commands -> {<<>>} \cup {<<r>> : r \in States}]
        /\ arg' \in [Commands -> Targets \cup Dirs \cup {None}]
    BY <1>15 DEF Reload, Read
  <2>6. stage' \in [Enrols -> {None, "probe", "token_exchange", "save_state", "ok"}]
        /\ kept' \in [dev : Enrols \cup {None}, target : Targets \cup {None}, wd : Dirs \cup {None}]
        /\ missed' \in [Commands -> SUBSET {"target", "wd"}]
    BY <1>15 DEF Reload, Read
  <2>7. (key'.whole => key'.by \in Enrols)
        /\ \A d \in Enrols : pc'[d] = "exchange" \/ net'[d] # "none" => tok'[d] \in Tokens
    BY <1>15 DEF Reload, Read
  <2>8. \A d \in Commands :
          /\ pc'[d] \in {"reload", "recd"} => arg'[d] \in Dirs
          /\ pc'[d] = "use" => arg'[d] \in Targets
          /\ pc'[d] \in {"fetch", "fetched", "recd", "use"} => loaded'[d] # <<>>
    BY <1>15, SMTT(40) DEF Reload, Read
  <2> QED BY <2>1, <2>2, <2>3, <2>4, <2>5, <2>6, <2>7, <2>8
<1>16. ASSUME NEW c \in Commands, SaveDir(c) PROVE TypeInv'
  <2>1. role' \in Role /\ st' \in States \cup {None} /\ key' \in Keys /\ unit' \in BOOLEAN
    BY <1>16, Alone DEF SaveDir, Save, Held, Forget, StillKept
  <2>2. overlap' \in BOOLEAN
    BY <1>16, Alone DEF SaveDir, Save, Held, Forget, StillKept
  <2>3. svc' \in [dev : Enrols, key : Enrols] \cup {None} /\ used' \subseteq Tokens
        /\ gw' \in Enrols \cup {None} /\ fresh' \subseteq Enrols
    BY <1>16, Alone DEF SaveDir, Save, Held, Forget, StillKept
  <2>4. pc' \in [Commands -> Labels] /\ net' \in [Enrols -> {"none", "sent", "ok", "refused"}]
        /\ tok' \in [Enrols -> Tokens \cup {None}]
    BY <1>16, Alone DEF SaveDir, Save, Held, Forget, StillKept
  <2>5. loaded' \in [Commands -> {<<>>} \cup {<<r>> : r \in States}]
        /\ arg' \in [Commands -> Targets \cup Dirs \cup {None}]
    BY <1>16, Alone DEF SaveDir, Save, Held, Forget, StillKept
  <2>6. stage' \in [Enrols -> {None, "probe", "token_exchange", "save_state", "ok"}]
        /\ kept' \in [dev : Enrols \cup {None}, target : Targets \cup {None}, wd : Dirs \cup {None}]
        /\ missed' \in [Commands -> SUBSET {"target", "wd"}]
    BY <1>16, Alone DEF SaveDir, Save, Held, Forget, StillKept
  <2>7. (key'.whole => key'.by \in Enrols)
        /\ \A d \in Enrols : pc'[d] = "exchange" \/ net'[d] # "none" => tok'[d] \in Tokens
    BY <1>16, Alone DEF SaveDir, Save, Held, Forget, StillKept
  <2>8. \A d \in Commands :
          /\ pc'[d] \in {"reload", "recd"} => arg'[d] \in Dirs
          /\ pc'[d] = "use" => arg'[d] \in Targets
          /\ pc'[d] \in {"fetch", "fetched", "recd", "use"} => loaded'[d] # <<>>
    BY <1>16, Alone DEF SaveDir, Save, Held, Forget, StillKept
  <2> QED BY <2>1, <2>2, <2>3, <2>4, <2>5, <2>6, <2>7, <2>8
<1>17. ASSUME NEW c \in Commands, Use(c) PROVE TypeInv'
  BY <1>17 DEF Use, Read
<1>18. ASSUME NEW c \in Commands, SaveTarget(c) PROVE TypeInv'
  <2>1. role' \in Role /\ st' \in States \cup {None} /\ key' \in Keys /\ unit' \in BOOLEAN
    BY <1>18, Alone DEF SaveTarget, Save, Held, Forget, StillKept
  <2>2. overlap' \in BOOLEAN
    BY <1>18, Alone DEF SaveTarget, Save, Held, Forget, StillKept
  <2>3. svc' \in [dev : Enrols, key : Enrols] \cup {None} /\ used' \subseteq Tokens
        /\ gw' \in Enrols \cup {None} /\ fresh' \subseteq Enrols
    BY <1>18, Alone DEF SaveTarget, Save, Held, Forget, StillKept
  <2>4. pc' \in [Commands -> Labels] /\ net' \in [Enrols -> {"none", "sent", "ok", "refused"}]
        /\ tok' \in [Enrols -> Tokens \cup {None}]
    BY <1>18, Alone DEF SaveTarget, Save, Held, Forget, StillKept
  <2>5. loaded' \in [Commands -> {<<>>} \cup {<<r>> : r \in States}]
        /\ arg' \in [Commands -> Targets \cup Dirs \cup {None}]
    BY <1>18, Alone DEF SaveTarget, Save, Held, Forget, StillKept
  <2>6. stage' \in [Enrols -> {None, "probe", "token_exchange", "save_state", "ok"}]
        /\ kept' \in [dev : Enrols \cup {None}, target : Targets \cup {None}, wd : Dirs \cup {None}]
        /\ missed' \in [Commands -> SUBSET {"target", "wd"}]
    BY <1>18, Alone DEF SaveTarget, Save, Held, Forget, StillKept
  <2>7. (key'.whole => key'.by \in Enrols)
        /\ \A d \in Enrols : pc'[d] = "exchange" \/ net'[d] # "none" => tok'[d] \in Tokens
    BY <1>18, Alone DEF SaveTarget, Save, Held, Forget, StillKept
  <2>8. \A d \in Commands :
          /\ pc'[d] \in {"reload", "recd"} => arg'[d] \in Dirs
          /\ pc'[d] = "use" => arg'[d] \in Targets
          /\ pc'[d] \in {"fetch", "fetched", "recd", "use"} => loaded'[d] # <<>>
    BY <1>18, Alone DEF SaveTarget, Save, Held, Forget, StillKept
  <2> QED BY <2>1, <2>2, <2>3, <2>4, <2>5, <2>6, <2>7, <2>8
<1>19. ASSUME NEW c \in Commands, Logout(c) PROVE TypeInv'
  BY <1>19, Alone DEF Logout
<1>20. ASSUME NEW c \in Commands, RemoveKey(c) PROVE TypeInv'
  BY <1>20, Alone DEF RemoveKey
<1>21. ASSUME NEW c \in Commands, Killed(c) PROVE TypeInv'
  BY <1>21 DEF Killed, Forget
<1>22. CASE DaemonStarts \/ DaemonExits \/ UNCHANGED vars
  BY <1>22 DEF DaemonStarts, DaemonExits, vars
<1> QED
  BY <1>1, <1>2, <1>3, <1>4, <1>5, <1>6, <1>7, <1>8, <1>9, <1>10, <1>11, <1>12, <1>13,
     <1>14, <1>15, <1>16, <1>17, <1>18, <1>19, <1>20, <1>21, <1>22
  DEF Next, Enrol, Command

\* Nothing but an overlap makes a command save what is out of date.
LEMMA CopyInvNext == DirInv /\ [Next]_vars => CopyInv'
<1> SUFFICES ASSUME DirInv, [Next]_vars
             PROVE  CopyInv'
  OBVIOUS
<1> USE DEF DirInv, TypeInv, TypeOK, CopyInv, States, Commands
<1>1. ASSUME NEW e \in Enrols, Probe(e) PROVE CopyInv'
  BY <1>1 DEF Probe
<1>2. ASSUME NEW e \in Enrols, Post(e) PROVE CopyInv'
  BY <1>2 DEF Post
<1>3. ASSUME NEW e \in Enrols, GatewayEnrols(e) PROVE CopyInv'
  BY <1>3 DEF GatewayEnrols
<1>4. ASSUME NEW e \in Enrols, Exchanged(e) PROVE CopyInv'
  BY <1>4 DEF Exchanged
<1>5. ASSUME NEW e \in Enrols, ExchangeFails(e) PROVE CopyInv'
  BY <1>5 DEF ExchangeFails
<1>6. ASSUME NEW e \in Enrols, Plan(e) PROVE CopyInv'
  BY <1>6 DEF Plan
<1>7. ASSUME NEW e \in Enrols, OpenKey(e) PROVE CopyInv'
  BY <1>7, Alone DEF OpenKey
<1>8. ASSUME NEW e \in Enrols, SaveKey(e) PROVE CopyInv'
  BY <1>8, Alone DEF SaveKey
<1>9. ASSUME NEW e \in Enrols, SaveState(e) PROVE CopyInv'
  BY <1>9, NewStateType, Alone DEF SaveState
<1>10. ASSUME NEW e \in Enrols, InstallService(e) PROVE CopyInv'
  BY <1>10 DEF InstallService
<1>11. ASSUME NEW c \in Commands, Begin(c) PROVE CopyInv'
  BY <1>11 DEF Begin, Read
<1>12. ASSUME NEW c \in Commands, Fetch(c) PROVE CopyInv'
  BY <1>12 DEF Fetch
<1>13. ASSUME NEW c \in Commands, SaveDefault(c) PROVE CopyInv'
  BY <1>13, Alone DEF SaveDefault, Save, Held, StillKept
<1>14. ASSUME NEW c \in Commands, Stat(c) PROVE CopyInv'
  BY <1>14 DEF Stat
<1>15. ASSUME NEW c \in Commands, Reload(c) PROVE CopyInv'
  BY <1>15 DEF Reload, Read
<1>16. ASSUME NEW c \in Commands, SaveDir(c) PROVE CopyInv'
  BY <1>16, Alone DEF SaveDir, Save, Held, Forget, StillKept
<1>17. ASSUME NEW c \in Commands, Use(c) PROVE CopyInv'
  BY <1>17 DEF Use, Read
<1>18. ASSUME NEW c \in Commands, SaveTarget(c) PROVE CopyInv'
  BY <1>18, Alone DEF SaveTarget, Save, Held, Forget, StillKept
<1>19. ASSUME NEW c \in Commands, Logout(c) PROVE CopyInv'
  BY <1>19, Alone DEF Logout
<1>20. ASSUME NEW c \in Commands, RemoveKey(c) PROVE CopyInv'
  BY <1>20, Alone DEF RemoveKey
<1>21. ASSUME NEW c \in Commands, Killed(c) PROVE CopyInv'
  BY <1>21 DEF Killed, Forget
<1>22. CASE DaemonStarts \/ DaemonExits \/ UNCHANGED vars
  BY <1>22 DEF DaemonStarts, DaemonExits, vars
<1> QED
  BY <1>1, <1>2, <1>3, <1>4, <1>5, <1>6, <1>7, <1>8, <1>9, <1>10, <1>11, <1>12, <1>13,
     <1>14, <1>15, <1>16, <1>17, <1>18, <1>19, <1>20, <1>21, <1>22
  DEF Next, Enrol, Command

\* A save undoes only what was saved after the command had read state.json.
LEMMA KeptInvNext == DirInv /\ [Next]_vars => KeptInv'
<1> SUFFICES ASSUME DirInv, [Next]_vars
             PROVE  KeptInv'
  OBVIOUS
<1> USE DEF DirInv, TypeInv, TypeOK, KeptInv, SettingsKept, Past, States, Commands
<1>1. ASSUME NEW e \in Enrols, Probe(e) PROVE KeptInv'
  BY <1>1 DEF Probe
<1>2. ASSUME NEW e \in Enrols, Post(e) PROVE KeptInv'
  BY <1>2 DEF Post
<1>3. ASSUME NEW e \in Enrols, GatewayEnrols(e) PROVE KeptInv'
  BY <1>3 DEF GatewayEnrols
<1>4. ASSUME NEW e \in Enrols, Exchanged(e) PROVE KeptInv'
  BY <1>4 DEF Exchanged
<1>5. ASSUME NEW e \in Enrols, ExchangeFails(e) PROVE KeptInv'
  BY <1>5 DEF ExchangeFails
<1>6. ASSUME NEW e \in Enrols, Plan(e) PROVE KeptInv'
  BY <1>6 DEF Plan
<1>7. ASSUME NEW e \in Enrols, OpenKey(e) PROVE KeptInv'
  BY <1>7, Alone DEF OpenKey
<1>8. ASSUME NEW e \in Enrols, SaveKey(e) PROVE KeptInv'
  BY <1>8, Alone DEF SaveKey
<1>9. ASSUME NEW e \in Enrols, SaveState(e) PROVE KeptInv'
  BY <1>9, NewStateType, Alone DEF SaveState
<1>10. ASSUME NEW e \in Enrols, InstallService(e) PROVE KeptInv'
  BY <1>10 DEF InstallService
<1>11. ASSUME NEW c \in Commands, Begin(c) PROVE KeptInv'
  BY <1>11 DEF Begin, Read
<1>12. ASSUME NEW c \in Commands, Fetch(c) PROVE KeptInv'
  BY <1>12 DEF Fetch
<1>13. ASSUME NEW c \in Commands, SaveDefault(c) PROVE KeptInv'
  BY <1>13, Alone DEF SaveDefault, Save, Held, StillKept
<1>14. ASSUME NEW c \in Commands, Stat(c) PROVE KeptInv'
  BY <1>14 DEF Stat
<1>15. ASSUME NEW c \in Commands, Reload(c) PROVE KeptInv'
  BY <1>15 DEF Reload, Read
<1>16. ASSUME NEW c \in Commands, SaveDir(c) PROVE KeptInv'
  BY <1>16, Alone DEF SaveDir, Save, Held, Forget, StillKept
<1>17. ASSUME NEW c \in Commands, Use(c) PROVE KeptInv'
  BY <1>17 DEF Use, Read
<1>18. ASSUME NEW c \in Commands, SaveTarget(c) PROVE KeptInv'
  BY <1>18, Alone DEF SaveTarget, Save, Held, Forget, StillKept
<1>19. ASSUME NEW c \in Commands, Logout(c) PROVE KeptInv'
  BY <1>19, Alone DEF Logout
<1>20. ASSUME NEW c \in Commands, RemoveKey(c) PROVE KeptInv'
  BY <1>20, Alone DEF RemoveKey
<1>21. ASSUME NEW c \in Commands, Killed(c) PROVE KeptInv'
  BY <1>21 DEF Killed, Forget
<1>22. CASE DaemonStarts \/ DaemonExits \/ UNCHANGED vars
  BY <1>22 DEF DaemonStarts, DaemonExits, vars
<1> QED
  BY <1>1, <1>2, <1>3, <1>4, <1>5, <1>6, <1>7, <1>8, <1>9, <1>10, <1>11, <1>12, <1>13,
     <1>14, <1>15, <1>16, <1>17, <1>18, <1>19, <1>20, <1>21, <1>22
  DEF Next, Enrol, Command

\* Nothing but an overlap disturbs an enrolment between its two files.
LEMMA KeyInvNext == DirInv /\ [Next]_vars => KeyInv'
<1> SUFFICES ASSUME DirInv, [Next]_vars
             PROVE  KeyInv'
  OBVIOUS
<1> USE DEF DirInv, TypeInv, TypeOK, CopyInv, KeyInv, States, Keys, Commands
<1>1. ASSUME NEW e \in Enrols, Probe(e) PROVE KeyInv'
  BY <1>1 DEF Probe
<1>2. ASSUME NEW e \in Enrols, Post(e) PROVE KeyInv'
  BY <1>2 DEF Post
<1>3. ASSUME NEW e \in Enrols, GatewayEnrols(e) PROVE KeyInv'
  BY <1>3 DEF GatewayEnrols
<1>4. ASSUME NEW e \in Enrols, Exchanged(e) PROVE KeyInv'
  BY <1>4 DEF Exchanged
<1>5. ASSUME NEW e \in Enrols, ExchangeFails(e) PROVE KeyInv'
  BY <1>5 DEF ExchangeFails
<1>6. ASSUME NEW e \in Enrols, Plan(e) PROVE KeyInv'
  BY <1>6 DEF Plan
<1>7. ASSUME NEW e \in Enrols, OpenKey(e) PROVE KeyInv'
  BY <1>7, Alone DEF OpenKey
<1>8. ASSUME NEW e \in Enrols, SaveKey(e) PROVE KeyInv'
  BY <1>8, Alone DEF SaveKey
<1>9. ASSUME NEW e \in Enrols, SaveState(e) PROVE KeyInv'
  BY <1>9, NewStateType, Alone DEF SaveState
<1>10. ASSUME NEW e \in Enrols, InstallService(e) PROVE KeyInv'
  BY <1>10 DEF InstallService
<1>11. ASSUME NEW c \in Commands, Begin(c) PROVE KeyInv'
  BY <1>11 DEF Begin, Read
<1>12. ASSUME NEW c \in Commands, Fetch(c) PROVE KeyInv'
  BY <1>12 DEF Fetch
<1>13. ASSUME NEW c \in Commands, SaveDefault(c) PROVE KeyInv'
  BY <1>13, Alone DEF SaveDefault, Save, Held, StillKept
<1>14. ASSUME NEW c \in Commands, Stat(c) PROVE KeyInv'
  BY <1>14 DEF Stat
<1>15. ASSUME NEW c \in Commands, Reload(c) PROVE KeyInv'
  BY <1>15 DEF Reload, Read
<1>16. ASSUME NEW c \in Commands, SaveDir(c) PROVE KeyInv'
  BY <1>16, Alone DEF SaveDir, Save, Held, Forget, StillKept
<1>17. ASSUME NEW c \in Commands, Use(c) PROVE KeyInv'
  BY <1>17 DEF Use, Read
<1>18. ASSUME NEW c \in Commands, SaveTarget(c) PROVE KeyInv'
  BY <1>18, Alone DEF SaveTarget, Save, Held, Forget, StillKept
<1>19. ASSUME NEW c \in Commands, Logout(c) PROVE KeyInv'
  BY <1>19, Alone DEF Logout
<1>20. ASSUME NEW c \in Commands, RemoveKey(c) PROVE KeyInv'
  BY <1>20, Alone DEF RemoveKey
<1>21. ASSUME NEW c \in Commands, Killed(c) PROVE KeyInv'
  BY <1>21 DEF Killed, Forget
<1>22. CASE DaemonStarts \/ DaemonExits \/ UNCHANGED vars
  BY <1>22 DEF DaemonStarts, DaemonExits, vars
<1> QED
  BY <1>1, <1>2, <1>3, <1>4, <1>5, <1>6, <1>7, <1>8, <1>9, <1>10, <1>11, <1>12, <1>13,
     <1>14, <1>15, <1>16, <1>17, <1>18, <1>19, <1>20, <1>21, <1>22
  DEF Next, Enrol, Command

\* No step leaves state.json without its key.
LEMMA StateHasKeyNext == DirInv /\ [Next]_vars => StateHasKey'
<1> SUFFICES ASSUME DirInv, [Next]_vars
             PROVE  StateHasKey'
  OBVIOUS
<1> USE DEF DirInv, TypeInv, TypeOK, CopyInv, KeyInv, StateHasKey, States, Keys, Commands
<1>1. ASSUME NEW e \in Enrols, Probe(e) PROVE StateHasKey'
  BY <1>1 DEF Probe
<1>2. ASSUME NEW e \in Enrols, Post(e) PROVE StateHasKey'
  BY <1>2 DEF Post
<1>3. ASSUME NEW e \in Enrols, GatewayEnrols(e) PROVE StateHasKey'
  BY <1>3 DEF GatewayEnrols
<1>4. ASSUME NEW e \in Enrols, Exchanged(e) PROVE StateHasKey'
  BY <1>4 DEF Exchanged
<1>5. ASSUME NEW e \in Enrols, ExchangeFails(e) PROVE StateHasKey'
  BY <1>5 DEF ExchangeFails
<1>6. ASSUME NEW e \in Enrols, Plan(e) PROVE StateHasKey'
  BY <1>6 DEF Plan
<1>7. ASSUME NEW e \in Enrols, OpenKey(e) PROVE StateHasKey'
  BY <1>7, Alone DEF OpenKey
<1>8. ASSUME NEW e \in Enrols, SaveKey(e) PROVE StateHasKey'
  BY <1>8, Alone DEF SaveKey
<1>9. ASSUME NEW e \in Enrols, SaveState(e) PROVE StateHasKey'
  BY <1>9, NewStateType, Alone DEF SaveState
<1>10. ASSUME NEW e \in Enrols, InstallService(e) PROVE StateHasKey'
  BY <1>10 DEF InstallService
<1>11. ASSUME NEW c \in Commands, Begin(c) PROVE StateHasKey'
  BY <1>11 DEF Begin, Read
<1>12. ASSUME NEW c \in Commands, Fetch(c) PROVE StateHasKey'
  BY <1>12 DEF Fetch
<1>13. ASSUME NEW c \in Commands, SaveDefault(c) PROVE StateHasKey'
  BY <1>13, Alone DEF SaveDefault, Save, Held, StillKept
<1>14. ASSUME NEW c \in Commands, Stat(c) PROVE StateHasKey'
  BY <1>14 DEF Stat
<1>15. ASSUME NEW c \in Commands, Reload(c) PROVE StateHasKey'
  BY <1>15 DEF Reload, Read
<1>16. ASSUME NEW c \in Commands, SaveDir(c) PROVE StateHasKey'
  BY <1>16, Alone DEF SaveDir, Save, Held, Forget, StillKept
<1>17. ASSUME NEW c \in Commands, Use(c) PROVE StateHasKey'
  BY <1>17 DEF Use, Read
<1>18. ASSUME NEW c \in Commands, SaveTarget(c) PROVE StateHasKey'
  BY <1>18, Alone DEF SaveTarget, Save, Held, Forget, StillKept
<1>19. ASSUME NEW c \in Commands, Logout(c) PROVE StateHasKey'
  BY <1>19, Alone DEF Logout
<1>20. ASSUME NEW c \in Commands, RemoveKey(c) PROVE StateHasKey'
  BY <1>20, Alone DEF RemoveKey
<1>21. ASSUME NEW c \in Commands, Killed(c) PROVE StateHasKey'
  BY <1>21 DEF Killed, Forget
<1>22. CASE DaemonStarts \/ DaemonExits \/ UNCHANGED vars
  BY <1>22 DEF DaemonStarts, DaemonExits, vars
<1> QED
  BY <1>1, <1>2, <1>3, <1>4, <1>5, <1>6, <1>7, <1>8, <1>9, <1>10, <1>11, <1>12, <1>13,
     <1>14, <1>15, <1>16, <1>17, <1>18, <1>19, <1>20, <1>21, <1>22
  DEF Next, Enrol, Command

\* No step brings in an identity the gateway has not accepted.
LEMMA EnrolInvNext == DirInv /\ [Next]_vars => EnrolInv'
<1> SUFFICES ASSUME DirInv, [Next]_vars
             PROVE  EnrolInv'
  OBVIOUS
<1> USE DEF DirInv, TypeInv, TypeOK, EnrolInv, Keys, States, Commands
<1>1. ASSUME NEW e \in Enrols, Probe(e) PROVE EnrolInv'
  BY <1>1 DEF Probe
<1>2. ASSUME NEW e \in Enrols, Post(e) PROVE EnrolInv'
  BY <1>2 DEF Post
<1>3. ASSUME NEW e \in Enrols, GatewayEnrols(e) PROVE EnrolInv'
  BY <1>3 DEF GatewayEnrols
<1>4. ASSUME NEW e \in Enrols, Exchanged(e) PROVE EnrolInv'
  BY <1>4 DEF Exchanged
<1>5. ASSUME NEW e \in Enrols, ExchangeFails(e) PROVE EnrolInv'
  BY <1>5 DEF ExchangeFails
<1>6. ASSUME NEW e \in Enrols, Plan(e) PROVE EnrolInv'
  BY <1>6 DEF Plan
<1>7. ASSUME NEW e \in Enrols, OpenKey(e) PROVE EnrolInv'
  BY <1>7, Alone DEF OpenKey
<1>8. ASSUME NEW e \in Enrols, SaveKey(e) PROVE EnrolInv'
  BY <1>8, Alone DEF SaveKey
<1>9. ASSUME NEW e \in Enrols, SaveState(e) PROVE EnrolInv'
  BY <1>9, NewStateType, Alone DEF SaveState
<1>10. ASSUME NEW e \in Enrols, InstallService(e) PROVE EnrolInv'
  BY <1>10 DEF InstallService
<1>11. ASSUME NEW c \in Commands, Begin(c) PROVE EnrolInv'
  BY <1>11 DEF Begin, Read
<1>12. ASSUME NEW c \in Commands, Fetch(c) PROVE EnrolInv'
  BY <1>12 DEF Fetch
<1>13. ASSUME NEW c \in Commands, SaveDefault(c) PROVE EnrolInv'
  BY <1>13, Alone DEF SaveDefault, Save, Held, StillKept
<1>14. ASSUME NEW c \in Commands, Stat(c) PROVE EnrolInv'
  BY <1>14 DEF Stat
<1>15. ASSUME NEW c \in Commands, Reload(c) PROVE EnrolInv'
  <2>1. UNCHANGED <<net, tok, used, gw, key, st, stage, fresh>>
    BY <1>15 DEF Reload
  <2>2. \A d \in Commands : loaded'[d] = loaded[d] \/ (loaded'[d] = <<st>> /\ st # None)
    BY <1>15 DEF Reload, Read
  <2>3. \A e \in Enrols : pc'[e] = pc[e]
    BY <1>15 DEF Reload, Read
  <2> QED BY <2>1, <2>2, <2>3
<1>16. ASSUME NEW c \in Commands, SaveDir(c) PROVE EnrolInv'
  BY <1>16, Alone DEF SaveDir, Save, Held, Forget, StillKept
<1>17. ASSUME NEW c \in Commands, Use(c) PROVE EnrolInv'
  BY <1>17 DEF Use, Read
<1>18. ASSUME NEW c \in Commands, SaveTarget(c) PROVE EnrolInv'
  BY <1>18, Alone DEF SaveTarget, Save, Held, Forget, StillKept
<1>19. ASSUME NEW c \in Commands, Logout(c) PROVE EnrolInv'
  BY <1>19, Alone DEF Logout
<1>20. ASSUME NEW c \in Commands, RemoveKey(c) PROVE EnrolInv'
  BY <1>20, Alone DEF RemoveKey
<1>21. ASSUME NEW c \in Commands, Killed(c) PROVE EnrolInv'
  BY <1>21 DEF Killed, Forget
<1>22. CASE DaemonStarts \/ DaemonExits \/ UNCHANGED vars
  BY <1>22 DEF DaemonStarts, DaemonExits, vars
<1> QED
  BY <1>1, <1>2, <1>3, <1>4, <1>5, <1>6, <1>7, <1>8, <1>9, <1>10, <1>11, <1>12, <1>13,
     <1>14, <1>15, <1>16, <1>17, <1>18, <1>19, <1>20, <1>21, <1>22
  DEF Next, Enrol, Command

\* No step starts a service on files that are out of date, unless commands overlap.
LEMMA ServiceInvNext == DirInv /\ [Next]_vars => ServiceInv'
<1> SUFFICES ASSUME DirInv, [Next]_vars
             PROVE  ServiceInv'
  OBVIOUS
<1> USE DEF DirInv, TypeInv, TypeOK, CopyInv, EnrolInv, ServiceInv, Keys, States, Commands
<1>1. ASSUME NEW e \in Enrols, Probe(e) PROVE ServiceInv'
  BY <1>1 DEF Probe
<1>2. ASSUME NEW e \in Enrols, Post(e) PROVE ServiceInv'
  BY <1>2 DEF Post
<1>3. ASSUME NEW e \in Enrols, GatewayEnrols(e) PROVE ServiceInv'
  BY <1>3 DEF GatewayEnrols
<1>4. ASSUME NEW e \in Enrols, Exchanged(e) PROVE ServiceInv'
  BY <1>4 DEF Exchanged
<1>5. ASSUME NEW e \in Enrols, ExchangeFails(e) PROVE ServiceInv'
  BY <1>5 DEF ExchangeFails
<1>6. ASSUME NEW e \in Enrols, Plan(e) PROVE ServiceInv'
  BY <1>6 DEF Plan
<1>7. ASSUME NEW e \in Enrols, OpenKey(e) PROVE ServiceInv'
  BY <1>7, Alone DEF OpenKey
<1>8. ASSUME NEW e \in Enrols, SaveKey(e) PROVE ServiceInv'
  BY <1>8, Alone DEF SaveKey
<1>9. ASSUME NEW e \in Enrols, SaveState(e) PROVE ServiceInv'
  BY <1>9, NewStateType, Alone DEF SaveState
<1>10. ASSUME NEW e \in Enrols, InstallService(e) PROVE ServiceInv'
  BY <1>10 DEF InstallService
<1>11. ASSUME NEW c \in Commands, Begin(c) PROVE ServiceInv'
  BY <1>11 DEF Begin, Read
<1>12. ASSUME NEW c \in Commands, Fetch(c) PROVE ServiceInv'
  BY <1>12 DEF Fetch
<1>13. ASSUME NEW c \in Commands, SaveDefault(c) PROVE ServiceInv'
  BY <1>13, Alone DEF SaveDefault, Save, Held, StillKept
<1>14. ASSUME NEW c \in Commands, Stat(c) PROVE ServiceInv'
  BY <1>14 DEF Stat
<1>15. ASSUME NEW c \in Commands, Reload(c) PROVE ServiceInv'
  BY <1>15 DEF Reload, Read
<1>16. ASSUME NEW c \in Commands, SaveDir(c) PROVE ServiceInv'
  BY <1>16, Alone DEF SaveDir, Save, Held, Forget, StillKept
<1>17. ASSUME NEW c \in Commands, Use(c) PROVE ServiceInv'
  BY <1>17 DEF Use, Read
<1>18. ASSUME NEW c \in Commands, SaveTarget(c) PROVE ServiceInv'
  BY <1>18, Alone DEF SaveTarget, Save, Held, Forget, StillKept
<1>19. ASSUME NEW c \in Commands, Logout(c) PROVE ServiceInv'
  BY <1>19, Alone DEF Logout
<1>20. ASSUME NEW c \in Commands, RemoveKey(c) PROVE ServiceInv'
  BY <1>20, Alone DEF RemoveKey
<1>21. ASSUME NEW c \in Commands, Killed(c) PROVE ServiceInv'
  BY <1>21 DEF Killed, Forget
<1>22. CASE DaemonStarts \/ DaemonExits \/ UNCHANGED vars
  BY <1>22 DEF DaemonStarts, DaemonExits, vars
<1> QED
  BY <1>1, <1>2, <1>3, <1>4, <1>5, <1>6, <1>7, <1>8, <1>9, <1>10, <1>11, <1>12, <1>13,
     <1>14, <1>15, <1>16, <1>17, <1>18, <1>19, <1>20, <1>21, <1>22
  DEF Next, Enrol, Command

\* No step of a command, the gateway or systemd breaks the invariant.
LEMMA DirInvNext == DirInv /\ [Next]_vars => DirInv'
BY TypeInvNext, CopyInvNext, KeptInvNext, KeyInvNext, StateHasKeyNext, EnrolInvNext, ServiceInvNext DEF DirInv

\* The invariant holds throughout.
LEMMA DirInvariant == Spec => []DirInv
BY DirInvInit, DirInvNext, PTL DEF Spec

\* Every variable of the model stays in its type.
THEOREM DeviceTypeCorrect == Spec => []TypeOK
<1>1. DirInv => TypeOK
  BY DEF DirInv, TypeInv
<1> QED BY <1>1, DirInvariant, PTL

\* enroll.go, logout.go: state.json is never left without its key file, and the
\* key is the one the gateway was given, wherever a command fails or is killed,
\* as long as no two commands overlap.
THEOREM StateAlwaysHasKey == Spec => []StateHasKey
<1>1. DirInv => StateHasKey
  BY DEF DirInv
<1> QED BY <1>1, DirInvariant, PTL

\* cli_cd.go, cli_config_use.go, cli_workingdir.go: whatever overlaps, a setting
\* stays until it is saved again, the device enrolled again or logged out, or a
\* copy of state.json from before it is saved over it.
THEOREM SettingsAlwaysKept == Spec => []SettingsKept
<1>1. DirInv => SettingsKept
  BY DEF DirInv, KeptInv
<1> QED BY <1>1, DirInvariant, PTL

\* enroll.go, gateway/enrollserver.go, service_systemd.go: what enroll reports of
\* the token, of the identity in the directory and of the daemon it started is true.
THEOREM ReportsAreTrue == Spec => []ReportIsTrue
<1>1. ASSUME DirInv, NEW e \in Enrols, stage[e] = "ok"
      PROVE  tok[e] \in used
  BY <1>1 DEF DirInv, EnrolInv
<1>2. ASSUME DirInv, NEW e \in Enrols, stage[e] = "ok", ~overlap, st # None, st.dev = e
      PROVE  /\ (\A f \in Enrols \ {e} : net[f] = "none") => gw = e /\ key.by = e
             /\ key.by = e => key.whole
             /\ key.by = e /\ e \in fresh /\ svc # None => svc = [dev |-> e, key |-> e]
  BY <1>2 DEF DirInv, TypeInv, TypeOK, Keys, EnrolInv, ServiceInv, StateHasKey
<1>3. ASSUME DirInv, NEW e \in Enrols, stage[e] = "probe", tok[e] \in used
      PROVE  \E f \in Enrols \ {e} : tok[f] = tok[e]
  BY <1>3 DEF DirInv, EnrolInv
<1>4. DirInv => ReportIsTrue
  BY <1>1, <1>2, <1>3 DEF ReportIsTrue
<1> QED BY <1>4, DirInvariant, PTL
=============================================================================
