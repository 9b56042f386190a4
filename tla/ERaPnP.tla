------------------------------- MODULE ERaPnP -------------------------------
(***************************************************************************)
(* The plug-and-play connection of an ESP32 board: run() dispatches on the *)
(* global state ERaState, and each case provisions the board through its   *)
(* access point, joins a network, reaches the cloud, moves to a network    *)
(* the cloud asks for, or erases the configuration.  The configuration     *)
(* lives in RAM (ERaConfig) and in flash; the board may lose power at any  *)
(* step.  A button handler in a thread of its own, the access point's web  *)
(* and UDP pages and the cloud write the same ERaState.                    *)
(*                                                                         *)
(* Modelled: blocking mode, a WiFi board without Ethernet or modem.  A     *)
(* network stands for an SSID with its password; the token and the server  *)
(* address are not told apart.  The station count (STATE_CONFIGURING) is   *)
(* folded into STATE_WAIT_CONFIG.                                          *)
(***************************************************************************)
EXTENDS Naturals, FiniteSets

CONSTANTS Nets,       \* the networks that can be entered or asked for
          None,       \* no network
          Statuses,   \* what a network can be: "off", "ok", "local"
          Erase,      \* the arguments of switchToConfig the application uses
          Events,     \* the kinds of events the environment may cause
          MaxEvents   \* bound on those events

ASSUME PnPAssumption ==
    /\ None \notin Nets
    /\ Statuses \subseteq {"off", "ok", "local"}
    /\ Erase \subseteq BOOLEAN
    /\ MaxEvents \in Nat

VARIABLES
    st,         \* ERaState
    hnd,        \* the case of run()'s switch that is being handled
    pc,         \* how far that handler is
    goal,       \* the state the handler is about to set
    cfg,        \* ERaConfig
    flash,      \* the "config" file
    new,        \* newWiFi
    wifi,       \* wifiState
    useBackup,  \* connectNetwork's static connectBackup
    portal,     \* configApi's static configured: /api/config is registered
    online,     \* ERaMqtt's _connected: the session was established
    late,       \* WIFI_NET_CHECK_TIMEOUT has passed since configBegin
    target,     \* the network of the last WiFi.begin, until a disconnect
    link,       \* the network the station is associated with
    status,     \* what each network is now
    proven,     \* history: the networks the cloud was reached over
    draft,      \* history: ERaConfig has networks entered and not submitted
    events      \* environment events so far

board == <<st, hnd, pc, goal, cfg, new, wifi, useBackup, portal, online, late>>
air   == <<target, link, status>>
vars  == <<board, flash, air, proven, draft, events>>

States == {"WAIT_CONFIG", "SWITCH_TO_AP", "SWITCH_TO_STA", "SWITCH_TO_AP_STA",
           "CONNECTING_NETWORK", "CONNECTING_NEW_NETWORK", "CONNECTING_CLOUD",
           "CONNECTED", "RUNNING", "DISCONNECTED", "OTA_UPGRADE",
           "REQUEST_LIST_WIFI", "RESET_CONFIG", "RESET_CONFIG_REBOOT", "REBOOT"}

Steps == {"run", "body", "set", "enter", "begin", "associate", "joined",
          "session", "loop", "portal", "check", "leave"}

Config == [valid: BOOLEAN, store: BOOLEAN, api: BOOLEAN, ssid: Nets \cup {None},
           backup: Nets \cup {None}, connected: BOOLEAN, force: BOOLEAN]

Blank == [ssid |-> None, flag |-> "INVALID"]

\* ERaProto::isConfigMode.
ConfigMode == st \in {"SWITCH_TO_AP", "RESET_CONFIG", "RESET_CONFIG_REBOOT", "REBOOT"}

\* An event of the environment, within the bound.
Event(kind) == kind \in Events /\ events < MaxEvents /\ events' = events + 1
Quiet == UNCHANGED events

-----------------------------------------------------------------------------
(* The configuration and the boot.                                         *)

\* ERaDefault: what a blank flash, and an erased one, load.
Default == [valid |-> FALSE, store |-> FALSE, api |-> FALSE, ssid |-> None,
            backup |-> None, connected |-> FALSE, force |-> FALSE]

\* configSave of configuration c: only when the STORE flag asks for it.
ConfigSave(c) ==
    LET saved == [c EXCEPT !.store = FALSE]
    IN  /\ cfg' = saved
        /\ flash' = IF c.store THEN saved ELSE flash
        /\ draft' = (draft /\ ~c.store)

\* begin, configInit and configLoad after a power-up: RAM is initialised and
\* the configuration is read from flash.
Boot ==
    /\ cfg' = [flash EXCEPT !.api = @ \/ ~flash.valid]
    /\ st' = IF flash.valid THEN "CONNECTING_NETWORK" ELSE "SWITCH_TO_AP"
    /\ hnd' = st' /\ goal' = st' /\ pc' = "run"
    /\ new' = Blank /\ wifi' = "IDLE" /\ useBackup' = FALSE
    /\ portal' = FALSE /\ online' = FALSE /\ late' = FALSE
    /\ target' = None /\ link' = None /\ draft' = FALSE
    /\ UNCHANGED <<flash, status, proven>>

Provisioned(n, b) == [Default EXCEPT !.valid = TRUE, !.ssid = n, !.backup = b,
                                     !.connected = TRUE]

\* A board from the factory, or one that was provisioned before.
Init ==
    /\ \/ flash = Default /\ proven = {}
       \/ \E n \in Nets, b \in Nets \cup {None} :
              flash = Provisioned(n, b) /\ proven = {n}
    /\ cfg = [flash EXCEPT !.api = ~flash.valid]
    /\ st = IF flash.valid THEN "CONNECTING_NETWORK" ELSE "SWITCH_TO_AP"
    /\ hnd = st /\ goal = st /\ pc = "run"
    /\ new = Blank /\ wifi = "IDLE" /\ useBackup = FALSE
    /\ portal = FALSE /\ online = FALSE /\ late = FALSE
    /\ target = None /\ link = None
    /\ status \in [Nets -> Statuses]
    /\ draft = FALSE /\ events = 0

-----------------------------------------------------------------------------
(* run() and the handlers that only set the next state.                    *)

\* The state the handler will set; other threads may write ERaState before.
Sets(s) == goal' = s /\ pc' = "set"
Returns == pc' = "run" /\ UNCHANGED goal

\* switch (ERaState::get()): one case is entered.  configMode starts with
\* configBegin, which registers the page once the API flag was raised, and with
\* a new time-out; goal and late mean nothing before a handler sets them.
Dispatch ==
    /\ pc = "run"
    /\ hnd' = st /\ goal' = st /\ late' = FALSE
    /\ IF st = "WAIT_CONFIG"
       THEN /\ pc' = "portal"
            /\ portal' = (portal \/ cfg.api)
            /\ cfg' = [cfg EXCEPT !.api = @ /\ portal]
       ELSE pc' = "body" /\ UNCHANGED <<portal, cfg>>
    /\ UNCHANGED <<st, new, wifi, useBackup, online, flash, draft, air, proven>> /\ Quiet

After == [SWITCH_TO_AP |-> "WAIT_CONFIG", SWITCH_TO_STA |-> "CONNECTING_NETWORK",
          SWITCH_TO_AP_STA |-> "CONNECTING_NETWORK", CONNECTED |-> "RUNNING",
          DISCONNECTED |-> "CONNECTING_NETWORK", OTA_UPGRADE |-> "RUNNING",
          REQUEST_LIST_WIFI |-> "RUNNING"]

\* Switching the radio (which drops the station), answering a scan request...
Switch ==
    /\ pc = "body" /\ hnd \in DOMAIN After
    /\ Sets(After[hnd])
    /\ IF hnd \in {"SWITCH_TO_AP", "SWITCH_TO_STA"}
       THEN target' = None /\ link' = None
       ELSE UNCHANGED <<target, link>>
    /\ UNCHANGED <<st, hnd, cfg, new, wifi, useBackup, portal, online, late, flash, draft, status, proven>>
    /\ Quiet

\* ... and ERaState::set at the end.
SetState ==
    /\ pc = "set"
    /\ st' = goal /\ Returns
    /\ UNCHANGED <<hnd, cfg, new, wifi, useBackup, portal, online, late, flash, draft, air, proven>> /\ Quiet

\* configReset, for both states that ask for it.
ConfigReset ==
    /\ pc = "body" /\ hnd \in {"RESET_CONFIG", "RESET_CONFIG_REBOOT"}
    /\ ConfigSave([Default EXCEPT !.api = TRUE, !.store = TRUE])
    /\ st' = IF hnd = "RESET_CONFIG" THEN "SWITCH_TO_AP" ELSE "REBOOT"
    /\ Returns
    /\ UNCHANGED <<hnd, new, wifi, useBackup, portal, online, late, air, proven>> /\ Quiet

Restart == pc = "body" /\ hnd = "REBOOT" /\ Boot /\ Quiet

-----------------------------------------------------------------------------
(* Joining a network.                                                      *)

\* The network connectWiFi is called with (None: an empty one, or no backup).
Want == IF hnd = "CONNECTING_NEW_NETWORK" THEN new.ssid
        ELSE IF useBackup THEN cfg.backup ELSE cfg.ssid

\* A station that is associated, with whatever network, goes on to the cloud;
\* connectBackup and wifiState keep what an earlier attempt left.
StartNetwork ==
    /\ pc = "body" /\ hnd = "CONNECTING_NETWORK"
    /\ \/ link # None /\ Sets("CONNECTING_CLOUD")
       \/ link = None /\ pc' = "enter" /\ UNCHANGED goal
    /\ UNCHANGED <<st, hnd, cfg, new, wifi, useBackup, portal, online, late, flash, draft, air, proven>>
    /\ Quiet

\* connectWiFi up to WiFi.begin: an existing association is kept, whatever
\* the network; a scan may miss the network asked for.
Enter ==
    /\ pc = "enter"
    /\ \/ link # None /\ wifi' = "CONNECTED" /\ pc' = "joined" /\ Quiet
       \/ link = None /\ Want = None /\ pc' = "joined" /\ UNCHANGED wifi /\ Quiet
       \/ /\ link = None /\ Want # None /\ pc' = "joined" /\ UNCHANGED wifi
          /\ IF status[Want] = "off" THEN Quiet ELSE Event("fault")
       \/ link = None /\ Want # None /\ pc' = "begin" /\ UNCHANGED wifi /\ Quiet
    /\ UNCHANGED <<st, hnd, goal, cfg, new, useBackup, portal, online, late, flash, draft, air, proven>>

\* Mutant of ReFlag: the request is not looked at again.
ReFlag_Never(n) == new

\* reFlagNewNetwork: joining another network than the new one means that the
\* change failed.
ReFlag(n) == IF new.flag = "INVALID" \/ n = new.ssid THEN new
             ELSE [new EXCEPT !.flag = "FAILED"]

Joined == wifi' = "CONNECTED" /\ new' = ReFlag(Want) /\ pc' = "joined"

\* The driver may have come back by itself during the scan.
Begin ==
    /\ pc = "begin"
    /\ IF link # None
       THEN Joined /\ UNCHANGED target
       ELSE /\ target' = Want /\ wifi' = "CONNECTING" /\ pc' = "associate"
            /\ UNCHANGED new
    /\ UNCHANGED <<st, hnd, goal, cfg, useBackup, portal, online, late, flash, draft, link, status, proven>>
    /\ Quiet

Associated ==
    /\ pc = "associate" /\ link # None /\ ~ConfigMode
    /\ Joined
    /\ UNCHANGED <<st, hnd, goal, cfg, useBackup, portal, online, late, flash, draft, air, proven>> /\ Quiet

\* Configuration mode was asked for, or WIFI_NET_CONNECT_TIMEOUT has passed.
GiveUp ==
    /\ pc = "associate"
    /\ IF ConfigMode \/ target = None \/ status[target] = "off" THEN Quiet ELSE Event("fault")
    /\ target' = None /\ link' = None
    /\ wifi' = "FAILED" /\ pc' = "joined"
    /\ UNCHANGED <<st, hnd, goal, cfg, new, useBackup, portal, online, late, flash, draft, status, proven>>

\* The rest of connectNetwork: the backup is next, or the cloud, or the
\* access point when nothing could be joined.
NetworkResult ==
    /\ pc = "joined" /\ hnd = "CONNECTING_NETWORK"
    /\ wifi' = "IDLE"
    /\ IF wifi # "CONNECTED" /\ ~useBackup /\ cfg.backup # None
       THEN useBackup' = TRUE /\ Returns /\ UNCHANGED cfg
       ELSE /\ useBackup' = FALSE
            /\ \/ link # None /\ Sets("CONNECTING_CLOUD") /\ UNCHANGED cfg
               \/ link = None /\ ConfigMode /\ Returns /\ UNCHANGED cfg
               \/ /\ link = None /\ ~ConfigMode
                  /\ Sets("SWITCH_TO_AP") /\ cfg' = [cfg EXCEPT !.api = TRUE]
    /\ UNCHANGED <<st, hnd, new, portal, online, late, flash, draft, air, proven>> /\ Quiet

-----------------------------------------------------------------------------
(* Moving to the network the cloud asks for, and reaching the cloud.       *)

Reachable(n) == n # None /\ status[n] = "ok"

\* A publish is lost when the network is, or by a fault.
MaySend(sent) == IF sent \/ ~Reachable(link) THEN Quiet ELSE Event("fault")

\* connectNewNetworkResult: once the result is sent the request is forgotten...
Reported(sent) == IF sent /\ new.flag # "INVALID" THEN Blank ELSE new

\* Mutant of CopyNewNetwork: the STORE flag is forgotten.
CopyNewNetwork_NoStore(sent) ==
    IF sent /\ new.flag = "CONNECTED"
    THEN [cfg EXCEPT !.backup = cfg.ssid, !.ssid = new.ssid]
    ELSE cfg

\* Mutant of CopyNewNetwork: the wrong field of newWiFi is copied.
CopyNewNetwork_WrongField(sent) ==
    IF sent /\ new.flag = "CONNECTED"
    THEN [cfg EXCEPT !.backup = cfg.ssid, !.ssid = new.flag, !.store = TRUE]
    ELSE cfg

\* ... and copyNewNetwork makes a network that was joined the primary one.
CopyNewNetwork(sent) ==
    IF sent /\ new.flag = "CONNECTED"
    THEN [cfg EXCEPT !.backup = cfg.ssid, !.ssid = new.ssid, !.store = TRUE]
    ELSE cfg

\* connectNewNetwork: a request that needs no joining is answered; otherwise
\* the station leaves its network first (it may take too long to).
StartNew ==
    /\ pc = "body" /\ hnd = "CONNECTING_NEW_NETWORK"
    /\ \/ /\ new.flag # "INVALID" /\ Sets("CONNECTED")
          /\ \E sent \in BOOLEAN : /\ MaySend(sent)
                                   /\ new' = Reported(sent)
                                   /\ cfg' = CopyNewNetwork(sent)
          /\ UNCHANGED <<target, link>>
       \/ /\ new.flag = "INVALID" /\ Sets("CONNECTING_NETWORK")
          /\ IF new.ssid = None THEN UNCHANGED target /\ Quiet
             ELSE link # None /\ target' = None /\ Event("fault")
          /\ UNCHANGED <<new, cfg, link>>
       \/ /\ new.flag = "INVALID" /\ new.ssid # None
          /\ target' = None /\ link' = None
          /\ pc' = "enter" /\ UNCHANGED <<goal, new, cfg>> /\ Quiet
    /\ UNCHANGED <<st, hnd, wifi, useBackup, portal, online, late, flash, draft, status, proven>>

\* The rest of connectNewNetwork, after connectWiFi.
NewResult ==
    /\ pc = "joined" /\ hnd = "CONNECTING_NEW_NETWORK"
    /\ IF link # None
       THEN new' = [new EXCEPT !.flag = "CONNECTED"] /\ Sets("CONNECTING_CLOUD")
       ELSE new' = [new EXCEPT !.flag = "FAILED"] /\ Sets("CONNECTING_NETWORK")
    /\ UNCHANGED <<st, hnd, cfg, wifi, useBackup, portal, online, late, flash, draft, air, proven>> /\ Quiet

\* connectCloud: Base::connect has a session and is subscribing.
Session ==
    /\ pc = "body" /\ hnd = "CONNECTING_CLOUD" /\ Reachable(link)
    /\ pc' = "session" /\ proven' = proven \cup {link} /\ online' = FALSE
    /\ UNCHANGED <<st, hnd, goal, cfg, new, wifi, useBackup, portal, late, flash, draft, air>> /\ Quiet

\* Base::connect returns true.
CloudConnected ==
    /\ pc = "session"
    /\ \E sent \in BOOLEAN : /\ MaySend(sent)
                             /\ new' = Reported(sent)
                             /\ ConfigSave([CopyNewNetwork(sent) EXCEPT !.connected = TRUE])
    /\ online' = TRUE /\ Sets("CONNECTED")
    /\ UNCHANGED <<st, hnd, wifi, useBackup, portal, late, air, proven>>

\* Base::connect gives up: the state is left in configuration mode, a board
\* the server refuses opens its access point, and the others start again.
CloudFailed ==
    /\ pc = "body" /\ hnd = "CONNECTING_CLOUD" /\ online' = FALSE
    /\ \/ /\ IF Reachable(link) THEN Event("fault") ELSE Quiet
          /\ IF ConfigMode THEN Returns ELSE Sets("CONNECTING_NETWORK")
          /\ UNCHANGED cfg
       \/ /\ ~ConfigMode /\ (cfg.connected \/ cfg.force) /\ Event("fault")
          /\ Sets("SWITCH_TO_AP") /\ cfg' = [cfg EXCEPT !.api = TRUE]
    /\ UNCHANGED <<st, hnd, new, wifi, useBackup, portal, late, flash, draft, air, proven>>

\* The session is lost while subscribing: connect fails below its limit.
SessionLost ==
    /\ pc = "session"
    /\ IF Reachable(link) THEN Event("fault") ELSE Quiet
    /\ Returns
    /\ UNCHANGED <<st, hnd, cfg, new, wifi, useBackup, portal, online, late, flash, draft, air, proven>>

-----------------------------------------------------------------------------
(* Running.                                                                *)

\* The case of STATE_RUNNING: the network is looked at, then ERaState again.
RunCheck ==
    /\ pc = "body" /\ hnd = "RUNNING"
    /\ \/ link = None /\ Sets("DISCONNECTED")
       \/ link # None /\ st # "RUNNING" /\ Returns
       \/ link # None /\ st = "RUNNING" /\ pc' = "loop" /\ UNCHANGED goal
    /\ UNCHANGED <<st, hnd, cfg, new, wifi, useBackup, portal, online, late, flash, draft, air, proven>> /\ Quiet

\* ERaProto::run: the session lives (or was renewed), or it is lost for good.
Loop ==
    /\ pc = "loop"
    /\ \/ online /\ Returns /\ UNCHANGED online /\ Quiet
       \/ /\ online' = FALSE
          /\ IF online /\ Reachable(link) THEN Event("fault") ELSE Quiet
          /\ IF ConfigMode THEN Returns ELSE Sets("DISCONNECTED")
    /\ UNCHANGED <<st, hnd, cfg, new, wifi, useBackup, portal, late, flash, draft, air, proven>>

\* A command of the cloud, handled in the callback of the session: change the
\* network (connectNewWiFi), list them, upgrade, or erase everything.
Command ==
    /\ pc = "session" \/ (pc = "loop" /\ online)
    /\ Reachable(link) /\ Event("command")
    /\ \/ \E n \in Nets, f \in {"CURRENT", "FAILED"} :
              /\ new' = [ssid |-> n, flag |-> IF n = cfg.ssid THEN f ELSE "INVALID"]
              /\ st' = "CONNECTING_NEW_NETWORK"
       \/ /\ st' \in {"REQUEST_LIST_WIFI", "OTA_UPGRADE", "RESET_CONFIG_REBOOT"}
          /\ UNCHANGED new
    /\ UNCHANGED <<hnd, pc, goal, cfg, wifi, useBackup, portal, online, late, flash, draft, air, proven>>

-----------------------------------------------------------------------------
(* The access point: pages, timeout, and the way out.                      *)

\* The networks entered on a page replace those of ERaConfig, an empty primary
\* one nothing; a page that is submitted leaves the access point.
Enters(n, b, force, submitted, states) ==
    LET entered == [cfg EXCEPT !.ssid = IF n = None THEN @ ELSE n,
                               !.backup = b, !.force = force]
        c == [entered EXCEPT !.valid = TRUE, !.store = TRUE]
    IN  \/ /\ submitted /\ st' \in states
           /\ IF force THEN ConfigSave(c)
              ELSE cfg' = c /\ draft' = FALSE /\ UNCHANGED flash
        \/ /\ ~submitted /\ cfg' = entered /\ UNCHANGED <<st, flash>>
           /\ draft' = (draft \/ n \notin {None, cfg.ssid} \/ b # cfg.backup)

\* Mutant of Post: what is entered is saved before it was tried.
Post_SavesAtOnce(n, b, force) ==
    /\ n # None \/ force
    /\ st' \in {"SWITCH_TO_STA", "SWITCH_TO_AP_STA"}
    /\ ConfigSave([cfg EXCEPT !.ssid = IF n = None THEN @ ELSE n, !.backup = b,
                              !.force = force, !.valid = TRUE, !.store = TRUE])

\* /api/config or the UDP connect request: a primary network is enough.
Post(n, b, force) ==
    Enters(n, b, force, n # None \/ force, {"SWITCH_TO_STA", "SWITCH_TO_AP_STA"})

\* The page /network: its form is submitted by "connect" or "save"; a visit,
\* or "scan", copies what was typed and stays.
Network(n, b, connect, save) ==
    Enters(n, b, save, (n # None /\ connect) \/ save, {"SWITCH_TO_STA"})

\* A request the registered pages serve: new networks, a reset or a reboot.
Request ==
    /\ portal /\ Event("post")
    /\ \/ \E n, b \in Nets \cup {None}, force \in BOOLEAN :
              \/ Post(n, b, force)
              \/ \E connect \in BOOLEAN : Network(n, b, connect, force)
       \/ st' \in {"RESET_CONFIG", "REBOOT"} /\ UNCHANGED <<cfg, flash, draft>>

NoRequest == Quiet /\ UNCHANGED <<st, cfg, flash, draft>>

\* One turn of configMode's loop serves at most one request...
Serve ==
    /\ pc = "portal" /\ pc' = "check"
    /\ Request \/ NoRequest
    /\ UNCHANGED <<hnd, goal, new, wifi, useBackup, portal, online, late, air, proven>>

\* Mutant of Check: the timeout does not end the configuration mode.
Check_NoTimeout ==
    /\ pc = "check"
    /\ pc' = IF st = "WAIT_CONFIG" THEN "portal" ELSE "leave"
    /\ UNCHANGED <<st, hnd, goal, cfg, new, wifi, useBackup, portal, online, late, flash, draft, air, proven>>
    /\ Quiet

\* ... and then, once the timeout has passed, tries the stored network again.
Check ==
    /\ pc = "check"
    /\ st' = IF late /\ cfg.valid /\ st # "SWITCH_TO_AP_STA" THEN "SWITCH_TO_STA" ELSE st
    /\ pc' = IF st' = "WAIT_CONFIG" THEN "portal" ELSE "leave"
    /\ UNCHANGED <<hnd, goal, cfg, new, wifi, useBackup, portal, online, late, flash, draft, air, proven>> /\ Quiet

\* waitHandle still serves the pages for a second.
Leave ==
    /\ pc = "leave" /\ Returns
    /\ Request \/ NoRequest
    /\ UNCHANGED <<hnd, new, wifi, useBackup, portal, online, late, air, proven>>

\* The timeout is over.
TimeOut ==
    /\ hnd = "WAIT_CONFIG" /\ pc \in {"portal", "check"} /\ ~late
    /\ late' = TRUE
    /\ UNCHANGED <<st, hnd, pc, goal, cfg, new, wifi, useBackup, portal, online, flash, draft, air, proven>>
    /\ Quiet

-----------------------------------------------------------------------------
(* Other threads and the environment.                                      *)

\* Mutant of SwitchToConfig: the API flag is not raised.
SwitchToConfig_NoApi(erase) ==
    /\ Event("button")
    /\ cfg' = [cfg EXCEPT !.connected = FALSE]
    /\ st' = IF erase THEN "RESET_CONFIG" ELSE "SWITCH_TO_AP"
    /\ UNCHANGED <<hnd, pc, goal, new, wifi, useBackup, portal, online, late, flash, draft, air, proven>>

\* switchToConfig, called by the application's button thread.
SwitchToConfig(erase) ==
    /\ Event("button")
    /\ cfg' = [cfg EXCEPT !.connected = FALSE, !.api = TRUE]
    /\ st' = IF erase THEN "RESET_CONFIG" ELSE "SWITCH_TO_AP"
    /\ UNCHANGED <<hnd, pc, goal, new, wifi, useBackup, portal, online, late, flash, draft, air, proven>>

\* The WiFi driver joins the network it was given, again after each loss.
Associate ==
    /\ link = None /\ target # None /\ status[target] # "off"
    /\ link' = target
    /\ UNCHANGED <<board, flash, draft, target, status, proven>> /\ Quiet

NetworkChanges(n, s) ==
    /\ Event("network") /\ status[n] # s
    /\ status' = [status EXCEPT ![n] = s]
    /\ link' = IF link = n /\ s = "off" THEN None ELSE link
    /\ UNCHANGED <<board, flash, draft, target, proven>>

\* Power is lost, a watchdog bites, or the cloud sends force_reset.
PowerLoss == Event("crash") /\ Boot

-----------------------------------------------------------------------------
Main == \/ Dispatch \/ Switch \/ SetState \/ ConfigReset \/ Restart
        \/ StartNetwork \/ Enter \/ Begin \/ Associated \/ GiveUp \/ NetworkResult
        \/ StartNew \/ NewResult \/ Session \/ CloudConnected \/ CloudFailed
        \/ SessionLost \/ RunCheck \/ Loop \/ Serve \/ Check \/ Leave

Environment == \/ Command
               \/ \E erase \in Erase : SwitchToConfig(erase)
               \/ \E n \in Nets, s \in Statuses : NetworkChanges(n, s)
               \/ PowerLoss

Next == Main \/ TimeOut \/ Associate \/ Environment

Spec == Init /\ [][Next]_vars

\* The board's task keeps running, its clock passes the timeout, and the
\* driver joins a network that stays in range.
FairSpec == Spec /\ WF_vars(Main) /\ WF_vars(TimeOut) /\ WF_vars(Associate)

(* Properties                                                              *)

\* Every variable keeps its type.
TypeOK ==
    /\ st \in States /\ hnd \in States /\ goal \in States /\ pc \in Steps
    /\ cfg \in Config /\ flash \in Config
    /\ new \in [ssid : Nets \cup {None},
                flag : {"INVALID", "CONNECTED", "CURRENT", "FAILED"}]
    /\ wifi \in {"IDLE", "CONNECTING", "CONNECTED", "FAILED"}
    /\ useBackup \in BOOLEAN /\ portal \in BOOLEAN /\ online \in BOOLEAN /\ late \in BOOLEAN
    /\ target \in Nets \cup {None} /\ link \in Nets \cup {None}
    /\ status \in [Nets -> {"off", "ok", "local"}]
    /\ proven \subseteq Nets /\ draft \in BOOLEAN /\ events \in 0 .. MaxEvents

\* Wherever power is lost, the configuration the board would boot with holds
\* a network over which it once reached the cloud, unless the user forced an
\* unverified one into flash: configSave runs only after Base::connect, and
\* copyNewNetwork keeps the network that worked.
StoredIsProven ==
    flash.valid /\ ~flash.force => flash.ssid \in proven \/ flash.backup \in proven

\* A new network is called joined only while the board is on it: whatever
\* networks connectNetwork goes through before the cloud answers, the one
\* connectNewNetworkResult makes the primary one is the one that works.
NewIsJoined ==
    hnd = "CONNECTING_CLOUD" /\ pc \in {"body", "session"} /\ new.flag = "CONNECTED"
        => link \in {None, new.ssid}

\* A running board has its networks in flash and no save to come: neither those
\* submitted at the access point nor the one the cloud asked for are lost with
\* the power.  Excepted are networks copied from a page that was not submitted
\* (draft), on /network above all: configMode's time-out may join them, the
\* board runs on them, and nothing ever saves them.
RunningIsStored ==
    st = "RUNNING" /\ online /\ ~draft =>
        ~cfg.store /\ cfg.ssid = flash.ssid /\ cfg.backup = flash.backup

\* The open access point has its page: every way to STATE_SWITCH_TO_AP raises
\* the API flag, and configApi registers the page once for all.
PortalServed == hnd = "WAIT_CONFIG" /\ pc \in {"portal", "check"} => portal

\* A request to erase the configuration is carried out: the only way out of
\* STATE_RESET_CONFIG is configReset.
EraseHappens == [][st = "RESET_CONFIG" /\ st' # st => flash'.valid = FALSE]_vars

\* A stored network that comes back and stays, with the cloud behind it, gets
\* the board running again, from the access point and from any failed change.
Back == <>[](/\ cfg.valid
             /\ Reachable(cfg.ssid) \/ Reachable(cfg.backup)
             /\ \A n \in Nets : status[n] # "local")
        => <>[](st = "RUNNING" /\ Reachable(link))

=============================================================================
