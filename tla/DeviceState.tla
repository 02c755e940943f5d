---------------------------- MODULE DeviceState ----------------------------
(***************************************************************************)
(* The state directory of one device, state.json and the key file, and the *)
(* commands that change it: enroll, the first command that needs a working *)
(* directory, cd, config use and logout.  Each is a process of its own; no *)
(* lock orders them, several wait for the network between a read and a     *)
(* write, and any may be killed between two steps.                         *)
(*                                                                         *)
(* The gateway is seen from the device: tokens, the identity it knows the  *)
(* device by, and answers that may be lost or late.  systemd is seen from  *)
(* enroll: it starts the daemon on what the directory holds.               *)
(***************************************************************************)
EXTENDS Naturals, FiniteSets

CONSTANTS
    Enrols,        \* runs of enroll
    Firsts,        \* commands that resolve a path: ensureWorkingDir
    Cds,           \* runs of cd
    Uses,          \* runs of config use
    Logouts,       \* runs of logout
    Tokens,        \* enrolment tokens, all for this device
    Default,       \* the daemon's default_working_dir
    Targets, Dirs, \* targets a bridge may use, directories on the daemon's host
    None           \* no state, command, target or directory

Role == {"bridge", "daemon"}
Nobody == [by |-> None, whole |-> FALSE]
Commands == Enrols \cup Firsts \cup Cds \cup Uses \cup Logouts
ASSUME DirAssumption == Default \in Dirs /\ Targets # {}
ASSUME CommandAssumption ==
    /\ None \notin Commands \cup Tokens \cup Targets \cup Dirs \cup {"probe", "token_exchange", "save_state", "ok"}
    /\ Enrols \cap (Firsts \cup Cds \cup Uses \cup Logouts) = {} /\ Firsts \cap (Cds \cup Uses \cup Logouts) = {}
    /\ Cds \cap (Uses \cup Logouts) = {} /\ Uses \cap Logouts = {}

VARIABLES
    role,    \* what the tokens enrol the device as
    st,      \* state.json: absent, or device, default target and working directory
    key,     \* the key file of that role: whose key, and whether it is whole
    svc,     \* the service: the identity a running daemon uses, or None
    unit,    \* whether the service is installed
    used,    \* tokens the gateway has consumed
    gw,      \* the enrolment the gateway knows the device by
    pc,      \* where each command is
    tok,     \* the token each enrolment presents
    net,     \* the exchange of each enrolment: "none", "sent", "ok" or "refused"
    loaded,  \* the state each command holds in memory
    arg,     \* the directory or target each command is about to save
    stage,   \* what each enrolment has reported
    fresh,   \* history: enrolments that found no service running
    overlap, \* history: a command changed the directory while another was between its read and its write
    kept,    \* history: the settings saved last, and for which enrolment
    missed   \* history: the settings others saved since a command read state.json

dirVars == <<st, key>>
gwVars == <<used, gw, net>>
svcVars == <<svc, unit, fresh>>
procVars == <<pc, tok, loaded, arg, stage>>
settingVars == <<kept, missed>>
vars == <<role, dirVars, gwVars, svcVars, procVars, overlap, settingVars>>

\* A command that is between two steps that must not be disturbed.
Busy(c) == pc[c] \in {"truncated", "state", "fetched", "fetch", "recd", "use", "rmkey"}

\* What a command that changes the directory does to the histories.
Changes(c) == overlap' = (overlap \/ \E d \in Commands \ {c} : Busy(d))

Goto(c, l) == pc' = [pc EXCEPT ![c] = l]
-----------------------------------------------------------------------------
(* enroll *)

Fail(e, s) == Goto(e, "failed") /\ stage' = [stage EXCEPT ![e] = s]

\* Faulty variant: the probe carries the token.
Probe_WithToken(e) ==
    /\ pc[e] = "idle"
    /\ \E t \in Tokens :
        /\ tok' = [tok EXCEPT ![e] = t] /\ used' = used \cup {t}
        /\ (Goto(e, "exchange") /\ UNCHANGED stage) \/ Fail(e, "probe")
    /\ UNCHANGED <<role, dirVars, gw, net, svcVars, loaded, arg, overlap, settingVars>>

\* Stages 1 to 5, DNS to a POST of {} that must be answered 400, and keygen:
\* none of them presents the token.
Probe(e) ==
    /\ pc[e] = "idle"
    /\ \E t \in Tokens : tok' = [tok EXCEPT ![e] = t]
    /\ (Goto(e, "exchange") /\ UNCHANGED stage) \/ Fail(e, "probe")
    /\ UNCHANGED <<role, dirVars, gwVars, svcVars, loaded, arg, overlap, settingVars>>

\* Stage 6: the token and the public key are posted.
Post(e) ==
    /\ pc[e] = "exchange" /\ net[e] = "none"
    /\ net' = [net EXCEPT ![e] = "sent"]
    /\ UNCHANGED <<role, dirVars, used, gw, svcVars, procVars, overlap, settingVars>>

\* The gateway consumes the token and knows the device by its new identity;
\* or the token is unknown or used; or it is consumed and the rest fails.
GatewayEnrols(e) ==
    /\ net[e] = "sent"
    /\ \/ tok[e] \notin used /\ used' = used \cup {tok[e]} /\ gw' = e /\ net' = [net EXCEPT ![e] = "ok"]
       \/ tok[e] \notin used /\ used' = used \cup {tok[e]} /\ net' = [net EXCEPT ![e] = "refused"] /\ UNCHANGED gw
       \/ tok[e] \in used /\ net' = [net EXCEPT ![e] = "refused"] /\ UNCHANGED <<used, gw>>
    /\ UNCHANGED <<role, dirVars, svcVars, procVars, overlap, settingVars>>

\* The answer is read and accepted ...
Exchanged(e) ==
    /\ pc[e] = "exchange" /\ net[e] = "ok"
    /\ Goto(e, "plan")
    /\ UNCHANGED <<role, dirVars, gwVars, svcVars, tok, loaded, arg, stage, overlap, settingVars>>

\* ... or is a refusal, does not arrive within five seconds, names another
\* certificate, or enrols a daemon on Windows.  The gateway may still act.
ExchangeFails(e) ==
    /\ pc[e] = "exchange" /\ net[e] # "none"
    /\ Fail(e, "token_exchange")
    /\ UNCHANGED <<role, dirVars, gwVars, svcVars, tok, loaded, arg, overlap, settingVars>>

\* planDaemonService, ensureNoSymlinkBelowHome, whose error is returned without
\* a report of the stage, and MkdirAll.
Plan(e) ==
    /\ pc[e] = "plan"
    /\ \/ Goto(e, "key") /\ UNCHANGED stage
       \/ role = "daemon" /\ Goto(e, "failed") /\ UNCHANGED stage
       \/ Fail(e, "save_state")
    /\ UNCHANGED <<role, dirVars, gwVars, svcVars, tok, loaded, arg, overlap, settingVars>>

\* Stage 7: StaticKey.Save truncates the key file ...
OpenKey(e) ==
    /\ pc[e] = "key"
    /\ \/ key' = [by |-> e, whole |-> FALSE] /\ Goto(e, "truncated") /\ Changes(e) /\ UNCHANGED stage
       \/ Fail(e, "save_state") /\ UNCHANGED <<key, overlap>>
    /\ UNCHANGED <<role, st, gwVars, svcVars, tok, loaded, arg, settingVars>>

\* ... and writes it ...
SaveKey(e) ==
    /\ pc[e] = "truncated"
    /\ \/ /\ key' = [by |-> e, whole |-> TRUE]
          /\ Goto(e, "state") /\ UNCHANGED stage
       \/ Fail(e, "save_state") /\ UNCHANGED key
    /\ Changes(e)
    /\ UNCHANGED <<role, st, gwVars, svcVars, tok, loaded, arg, settingVars>>

NewState(e) == [dev |-> e, target |-> CHOOSE t \in Targets : TRUE, wd |-> None]

\* ... and SaveBridge or SaveDaemon replaces state.json, which may fail: the
\* settings of an earlier enrolment are gone.
SaveState(e) ==
    /\ pc[e] = "state"
    /\ \/ /\ st' = NewState(e) /\ Changes(e)
          /\ Goto(e, "service") /\ UNCHANGED stage
       \/ Fail(e, "save_state") /\ UNCHANGED <<st, overlap>>
    /\ UNCHANGED <<role, key, gwVars, svcVars, tok, loaded, arg, settingVars>>

\* installDaemonService writes the unit and runs daemon-reload and enable
\* --now, which leaves a running daemon alone.  It may fail at any point, which
\* does not fail enroll; a bridge has none.
InstallService(e) ==
    /\ pc[e] = "service"
    /\ \/ role = "daemon" /\ unit' = TRUE /\ fresh' = IF svc = None THEN fresh \cup {e} ELSE fresh
       \/ UNCHANGED <<unit, fresh>>
    /\ Goto(e, "done") /\ stage' = [stage EXCEPT ![e] = "ok"]
    /\ UNCHANGED <<role, dirVars, gwVars, svc, tok, loaded, arg, overlap, settingVars>>

\* systemd starts the daemon, at once or five seconds after it exits: it reads
\* the directory once and exits if that is not complete.
DaemonStarts ==
    /\ unit /\ svc = None /\ st # None /\ key.whole
    /\ svc' = [dev |-> st.dev, key |-> key.by]
    /\ UNCHANGED <<role, dirVars, gwVars, unit, fresh, procVars, overlap, settingVars>>

DaemonExits ==
    /\ svc # None /\ svc' = None
    /\ UNCHANGED <<role, dirVars, gwVars, unit, fresh, procVars, overlap, settingVars>>
-----------------------------------------------------------------------------
(* The bridge's commands *)

\* Commands that hold a copy of state.json that they will save.
Window == {"fetch", "fetched", "recd", "use"}
Read(c, l) ==
    /\ loaded' = [loaded EXCEPT ![c] = <<st>>] /\ missed' = [missed EXCEPT ![c] = {}]
    /\ Goto(c, l)
Held(c) == loaded[c][1]
Forget(c) == loaded' = [loaded EXCEPT ![c] = <<>>] /\ arg' = [arg EXCEPT ![c] = None]

\* What is known of a setting after c has saved a copy in which it set another:
\* v, the value saved last, unless c's copy is older or of another enrolment.
StillKept(c, f, v) == IF kept.dev = Held(c).dev /\ f \notin missed[c] THEN v ELSE None

\* saveJSON of new, the copy c holds with setting f changed: a failure leaves
\* the file alone.
Save(c, f, new, l) ==
    \/ /\ st' = new /\ Changes(c) /\ Goto(c, l)
       /\ kept' = [dev |-> new.dev,
                   target |-> IF f = "target" THEN new.target ELSE StillKept(c, "target", kept.target),
                   wd |-> IF f = "wd" THEN new.wd ELSE StillKept(c, "wd", kept.wd)]
       /\ missed' = [d \in Commands |->
                        IF d # c /\ pc[d] \in Window THEN missed[d] \cup {f} ELSE missed[d]]
    \/ Goto(c, "failed") /\ UNCHANGED <<st, overlap, settingVars>>

\* loadOpts and ensureWorkingDir: a working directory that is known is used ...
Begin(c) ==
    /\ c \in Firsts \cup Cds /\ pc[c] = "idle" /\ role = "bridge" /\ st # None
    /\ IF st.wd = None THEN Read(c, "fetch")
       ELSE Goto(c, IF c \in Cds THEN "stat" ELSE "done") /\ UNCHANGED <<loaded, missed>>
    /\ UNCHANGED <<role, dirVars, gwVars, svcVars, tok, arg, stage, overlap, kept>>

\* ... and another is asked of the daemon, which may fail, ...
Fetch(c) ==
    /\ pc[c] = "fetch"
    /\ Goto(c, "fetched") \/ Goto(c, "failed")
    /\ UNCHANGED <<role, dirVars, gwVars, svcVars, tok, loaded, arg, stage, overlap, settingVars>>

\* Faulty variant: a daemon that advertises no directory is not given "/".
SaveDefault_Empty(c) ==
    /\ pc[c] = "fetched"
    /\ Save(c, "wd", [Held(c) EXCEPT !.wd = ""], IF c \in Cds THEN "stat" ELSE "done")
    /\ UNCHANGED <<role, key, gwVars, svcVars, tok, loaded, arg, stage>>

\* ... and saved with everything else that was read before.
SaveDefault(c) ==
    /\ pc[c] = "fetched"
    /\ Save(c, "wd", [Held(c) EXCEPT !.wd = Default], IF c \in Cds THEN "stat" ELSE "done")
    /\ UNCHANGED <<role, key, gwVars, svcVars, tok, loaded, arg, stage>>

\* cd asks the daemon whether the directory exists ...
Stat(c) ==
    /\ pc[c] = "stat"
    /\ \/ \E d \in Dirs : arg' = [arg EXCEPT ![c] = d] /\ Goto(c, "reload")
       \/ Goto(c, "failed") /\ UNCHANGED arg
    /\ UNCHANGED <<role, dirVars, gwVars, svcVars, tok, loaded, stage, overlap, settingVars>>

\* Faulty variant: cd keeps the state that it read first.
Reload_KeepsOld(c) ==
    /\ pc[c] = "reload"
    /\ IF st = None THEN Goto(c, "failed") /\ UNCHANGED <<loaded, missed>>
       ELSE IF loaded[c] # <<>> THEN Goto(c, "recd") /\ UNCHANGED <<loaded, missed>>
       ELSE Read(c, "recd")
    /\ UNCHANGED <<role, dirVars, gwVars, svcVars, tok, arg, stage, overlap, kept>>

\* ... reads state.json again ...
Reload(c) ==
    /\ pc[c] = "reload"
    /\ IF st = None THEN Goto(c, "failed") /\ UNCHANGED <<loaded, missed>> ELSE Read(c, "recd")
    /\ UNCHANGED <<role, dirVars, gwVars, svcVars, tok, arg, stage, overlap, kept>>

\* ... and saves it.
SaveDir(c) ==
    /\ pc[c] = "recd"
    /\ Save(c, "wd", [Held(c) EXCEPT !.wd = arg[c]], "done")
    /\ Forget(c)
    /\ UNCHANGED <<role, key, gwVars, svcVars, tok, stage>>

\* config use: read, check, ...
Use(c) ==
    /\ c \in Uses /\ pc[c] = "idle" /\ role = "bridge" /\ st # None
    /\ \E t \in Targets : arg' = [arg EXCEPT ![c] = t]
    /\ Read(c, "use")
    /\ UNCHANGED <<role, dirVars, gwVars, svcVars, tok, stage, overlap, kept>>

\* ... save.
SaveTarget(c) ==
    /\ pc[c] = "use"
    /\ Save(c, "target", [Held(c) EXCEPT !.target = arg[c]], "done")
    /\ Forget(c)
    /\ UNCHANGED <<role, key, gwVars, svcVars, tok, stage>>
-----------------------------------------------------------------------------
(* logout *)

\* Faulty variant: the key goes first.
Logout_KeyFirst(c) ==
    /\ c \in Logouts /\ pc[c] = "idle"
    /\ key' = Nobody /\ Changes(c) /\ Goto(c, "rmkey")
    /\ UNCHANGED <<role, st, gwVars, svcVars, tok, loaded, arg, stage, settingVars>>

\* logout removes state.json ...
Logout(c) ==
    /\ c \in Logouts /\ pc[c] = "idle"
    /\ st' = None /\ Changes(c) /\ Goto(c, "rmkey")
    /\ UNCHANGED <<role, key, gwVars, svcVars, tok, loaded, arg, stage, settingVars>>

\* ... and then the key files.
RemoveKey(c) ==
    /\ pc[c] = "rmkey"
    /\ key' = Nobody /\ Changes(c) /\ Goto(c, "done")
    /\ UNCHANGED <<role, st, gwVars, svcVars, tok, loaded, arg, stage, settingVars>>
-----------------------------------------------------------------------------
\* A command is killed, or gives up, between two steps.
Killed(c) ==
    /\ pc[c] \notin {"idle", "done", "failed", "dead"}
    /\ Goto(c, "dead") /\ Forget(c) /\ missed' = [missed EXCEPT ![c] = {}]
    /\ UNCHANGED <<role, dirVars, gwVars, svcVars, tok, stage, overlap, kept>>

Init ==
    /\ role \in Role /\ st = None /\ key = Nobody
    /\ svc = None /\ unit = FALSE /\ used = {} /\ gw = None
    /\ pc = [c \in Commands |-> "idle"]
    /\ tok = [e \in Enrols |-> None] /\ net = [e \in Enrols |-> "none"]
    /\ loaded = [c \in Commands |-> <<>>] /\ arg = [c \in Commands |-> None]
    /\ stage = [e \in Enrols |-> None] /\ fresh = {}
    /\ overlap = FALSE /\ kept = [dev |-> None, target |-> None, wd |-> None]
    /\ missed = [c \in Commands |-> {}]

Enrol(e) ==
    \/ Probe(e) \/ Post(e) \/ GatewayEnrols(e) \/ Exchanged(e) \/ ExchangeFails(e) \/ Plan(e)
    \/ OpenKey(e) \/ SaveKey(e) \/ SaveState(e) \/ InstallService(e)

Command(c) ==
    \/ Begin(c) \/ Fetch(c) \/ SaveDefault(c) \/ Stat(c) \/ Reload(c) \/ SaveDir(c)
    \/ Use(c) \/ SaveTarget(c) \/ Logout(c) \/ RemoveKey(c) \/ Killed(c)

Next ==
    \/ \E e \in Enrols : Enrol(e)
    \/ \E c \in Commands : Command(c)
    \/ DaemonStarts \/ DaemonExits

Spec == Init /\ [][Next]_vars
-----------------------------------------------------------------------------
(* Properties *)

States == [dev : Enrols, target : Targets, wd : Dirs \cup {None}]
Keys == [by : Enrols \cup {None}, whole : BOOLEAN]
Labels == {"idle", "exchange", "plan", "key", "truncated", "state", "service", "fetch", "fetched",
           "stat", "reload", "recd", "use", "rmkey", "done", "failed", "dead"}

\* Every variable stays in its type.
TypeOK ==
    /\ role \in Role /\ st \in States \cup {None} /\ key \in Keys
    /\ svc \in [dev : Enrols, key : Enrols] \cup {None} /\ unit \in BOOLEAN
    /\ used \subseteq Tokens /\ gw \in Enrols \cup {None}
    /\ pc \in [Commands -> Labels]
    /\ tok \in [Enrols -> Tokens \cup {None}] /\ net \in [Enrols -> {"none", "sent", "ok", "refused"}]
    /\ loaded \in [Commands -> {<<>>} \cup {<<s>> : s \in States}]
    /\ arg \in [Commands -> Targets \cup Dirs \cup {None}]
    /\ stage \in [Enrols -> {None, "probe", "token_exchange", "save_state", "ok"}]
    /\ fresh \subseteq Enrols /\ overlap \in BOOLEAN
    /\ kept \in [dev : Enrols \cup {None}, target : Targets \cup {None}, wd : Dirs \cup {None}]
    /\ missed \in [Commands -> SUBSET {"target", "wd"}]

\* Whatever is killed or fails on the way, unless two commands overlap,
\* state.json is never there without its key file; and the key is the one the
\* gateway was given for that device, unless a later enrolment stopped between
\* its two files.
StateHasKey ==
    ~overlap /\ st # None =>
        /\ key.by # None
        /\ key = [by |-> st.dev, whole |-> TRUE]
            \/ (key.by # st.dev /\ pc[key.by] \in {"truncated", "state", "failed", "dead"})

\* What enroll reports is true: ok means that while state.json names it, and
\* unless commands overlap, the gateway knows the device by that identity and
\* the key file holds its key (until another enrolment reaches the gateway),
\* and that a daemon whose service was not running before runs with exactly
\* these (until another enrolment opens the key file); a failure before
\* token_exchange means its token can still be used.
ReportIsTrue ==
    \A e \in Enrols :
        /\ stage[e] = "ok" =>
            /\ tok[e] \in used
            /\ ~overlap /\ st # None /\ st.dev = e =>
                /\ (\A f \in Enrols \ {e} : net[f] = "none") => gw = e /\ key.by = e
                /\ key.by = e => key.whole
                /\ key.by = e /\ e \in fresh /\ svc # None => svc = [dev |-> e, key |-> e]
        /\ stage[e] = "probe" /\ tok[e] \in used => \E f \in Enrols \ {e} : tok[f] = tok[e]

\* A setting that was saved stays in state.json until the same setting is saved
\* again, the device is enrolled again (enroll.go:280 writes neither back) or
\* logged out, or a command saves a copy of state.json that it read before.
\* Which copies can be that old: cd and config use read right before they save;
\* only the first command that needs a working directory waits for the daemon
\* in between, and only there the answer can be late.
SettingsKept ==
    st # None /\ kept.dev = st.dev =>
        kept.target \in {None, st.target} /\ kept.wd \in {None, st.wd}
=============================================================================
