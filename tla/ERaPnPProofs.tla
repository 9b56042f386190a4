---------------------------- MODULE ERaPnPProofs ----------------------------
(***************************************************************************)
(* Proofs about ERaPnP for every set of networks and every number of       *)
(* events: what flash holds when power is lost, what a running board has   *)
(* stored, which network becomes the primary one, and that the access      *)
(* point serves its page.                                                  *)
(*                                                                         *)
(* The argument follows a change entered at the access point.  Until the   *)
(* cloud is reached the board stays in the early states, on its way from   *)
(* the access point to the cloud, and joins none but the networks entered; *)
(* the session then proves one of them, and only then is it saved.         *)
(***************************************************************************)
EXTENDS ERaPnP, TLAPS

-----------------------------------------------------------------------------
(* The inductive invariant.                                                *)

CloudGoals == {"WAIT_CONFIG", "CONNECTING_NETWORK", "CONNECTING_CLOUD", "SWITCH_TO_AP"}
Goals == CloudGoals \cup {"CONNECTED", "RUNNING", "DISCONNECTED"}
EarlyStates == CloudGoals \cup {"SWITCH_TO_STA", "SWITCH_TO_AP_STA", "RESET_CONFIG", "REBOOT"}
PortalStates == {"WAIT_CONFIG", "SWITCH_TO_AP", "SWITCH_TO_STA", "SWITCH_TO_AP_STA",
                 "RESET_CONFIG", "REBOOT"}
Joining == {"enter", "begin", "associate", "joined"}
AtPortal == pc \in {"portal", "check", "leave"}

\* Which handler is at which step.
Places ==
    /\ pc = "set" => goal \in Goals
    /\ AtPortal => hnd = "WAIT_CONFIG"
    /\ pc \in Joining => hnd \in {"CONNECTING_NETWORK", "CONNECTING_NEW_NETWORK"}
    /\ pc = "session" => hnd = "CONNECTING_CLOUD"
    /\ pc = "loop" => hnd = "RUNNING"
    /\ pc = "body" => hnd # "WAIT_CONFIG"

\* The station is off while the access point is open.
StationOff ==
    /\ st = "WAIT_CONFIG" => pc = "run" \/ AtPortal
    /\ AtPortal => st \in PortalStates
    /\ st = "WAIT_CONFIG" \/ AtPortal \/ (pc = "set" /\ goal = "WAIT_CONFIG")
         => link = None /\ target = None

\* The network the driver was given is the one the handler wants.
Joins ==
    /\ pc = "associate" => target = Want /\ link \in {None, Want}
    /\ hnd = "CONNECTING_NEW_NETWORK" /\ pc \in Joining
         => new.flag # "CONNECTED" /\ {link, target} \subseteq {None, new.ssid}

\* A new network that was joined is the one the station is on, until another
\* one is being joined; its request is not handled again.
Flagged ==
    new.flag = "CONNECTED" =>
        /\ \/ {link, target} \subseteq {None, new.ssid}
           \/ hnd = "CONNECTING_NETWORK" /\ pc = "associate"
        /\ st = "CONNECTING_NEW_NETWORK" => pc = "set"
        /\ ~(hnd = "CONNECTING_NEW_NETWORK" /\ pc = "body")
        /\ pc = "session" => new.ssid \in proven

\* On the way from the access point to the cloud.
Early ==
    /\ st \in EarlyStates
    /\ pc # "run" => hnd \in EarlyStates
    /\ pc = "set" => goal \in CloudGoals
    /\ pc \notin {"session", "loop"}

CfgProven == cfg.ssid \in proven \/ cfg.backup \in proven

\* What is to be saved and not yet proven was entered a moment ago, and what
\* differs from flash is to be saved, or was typed and not submitted.
Pending ==
    /\ flash.store = FALSE
    /\ cfg.store /\ ~CfgProven
         => Early /\ {link, target} \subseteq {None, cfg.ssid, cfg.backup}
    /\ cfg.store /\ online => Early
    /\ cfg.ssid # flash.ssid \/ cfg.backup # flash.backup => cfg.store \/ draft

ToPortal ==
    \/ st \in {"SWITCH_TO_AP", "WAIT_CONFIG"}
    \/ pc = "set" /\ goal \in {"SWITCH_TO_AP", "WAIT_CONFIG"}
    \/ pc = "body" /\ hnd = "SWITCH_TO_AP"

\* The API flag is raised, or the page registered, on the way to the access
\* point.
Portal ==
    /\ ToPortal => portal \/ cfg.api
    /\ AtPortal => portal

PnPInv == /\ TypeOK /\ Places /\ StationOff /\ Joins /\ Flagged
          /\ Pending /\ StoredIsProven /\ Portal

-----------------------------------------------------------------------------
(* Types.                                                                  *)

LEMMA AfterGoals == \A h \in DOMAIN After : After[h] \in Goals
BY DEF After, Goals, CloudGoals

LEMMA GoalStates == Goals \subseteq States
BY DEF Goals, CloudGoals, States

\* What the handlers make of the configuration is one.
LEMMA DefaultType == None \in Nets \cup {None} /\ Default \in Config
BY DEF Default, Config

LEMMA FlagsType ==
    ASSUME NEW c \in Config, NEW x \in BOOLEAN
    PROVE  [c EXCEPT !.api = x] \in Config /\ [c EXCEPT !.connected = x] \in Config
BY DEF Config

LEMMA BlankType ==
    Blank \in [ssid : Nets \cup {None}, flag : {"INVALID", "CONNECTED", "CURRENT", "FAILED"}]
BY DEF Blank

LEMMA SaveType ==
    ASSUME TypeOK, NEW c \in Config, ConfigSave(c)
    PROVE  cfg' \in Config /\ flash' \in Config /\ draft' \in BOOLEAN
<1>1. [c EXCEPT !.store = FALSE] \in Config
  BY DEF Config
<1>2. draft' \in BOOLEAN
  BY DEF ConfigSave
<1> QED BY <1>1, <1>2 DEF ConfigSave, TypeOK

LEMMA CopyType ==
    ASSUME TypeOK, NEW sent \in BOOLEAN
    PROVE  CopyNewNetwork(sent) \in Config
BY DEF CopyNewNetwork, TypeOK, Config

LEMMA EntersType ==
    ASSUME TypeOK, NEW n \in Nets \cup {None}, NEW b \in Nets \cup {None},
           NEW force \in BOOLEAN, NEW submitted, NEW states,
           Enters(n, b, force, submitted, states)
    PROVE  cfg' \in Config /\ flash' \in Config /\ draft' \in BOOLEAN
<1> DEFINE entered == [cfg EXCEPT !.ssid = IF n = None THEN @ ELSE n,
                                  !.backup = b, !.force = force]
           c == [entered EXCEPT !.valid = TRUE, !.store = TRUE]
<1>1. entered \in Config
  BY DEF TypeOK, Config
<1>2. c \in Config
  <2> HIDE DEF entered
  <2> QED BY <1>1 DEF Config
<1>3. \/ ConfigSave(c)
      \/ cfg' = c /\ UNCHANGED flash /\ draft' = FALSE
      \/ cfg' = entered /\ UNCHANGED flash /\ draft' \in BOOLEAN
  BY DEF Enters
<1> QED
  <2> HIDE DEF c, entered
  <2>1. CASE ConfigSave(c)
    BY <1>2, <2>1, SaveType
  <2>2. CASE cfg' = c /\ UNCHANGED flash /\ draft' = FALSE
    BY <1>2, <2>2 DEF TypeOK
  <2>3. CASE cfg' = entered /\ UNCHANGED flash /\ draft' \in BOOLEAN
    BY <1>1, <2>3 DEF TypeOK
  <2> QED BY <1>3, <2>1, <2>2, <2>3

\* A page that takes networks sets one of the states of its own, or none.
LEMMA EntersState ==
    ASSUME NEW n, NEW b, NEW force \in BOOLEAN,
           \/ Post(n, b, force)
           \/ \E connect \in BOOLEAN : Network(n, b, connect, force)
    PROVE  /\ st' = st \/ st' \in {"SWITCH_TO_STA", "SWITCH_TO_AP_STA"}
           /\ \E submitted, states : Enters(n, b, force, submitted, states)
<1>1. CASE Post(n, b, force)
  <2>1. Enters(n, b, force, n # None \/ force, {"SWITCH_TO_STA", "SWITCH_TO_AP_STA"})
    BY <1>1 DEF Post
  <2> QED BY <2>1 DEF Enters
<1>2. ASSUME NEW connect \in BOOLEAN, Network(n, b, connect, force)
      PROVE  /\ st' = st \/ st' \in {"SWITCH_TO_STA", "SWITCH_TO_AP_STA"}
             /\ \E submitted, states : Enters(n, b, force, submitted, states)
  <2>1. Enters(n, b, force, (n # None /\ connect) \/ force, {"SWITCH_TO_STA"})
    BY <1>2 DEF Network
  <2> QED BY <2>1 DEF Enters
<1> QED BY <1>1, <1>2

\* Requests are reset, reboot and pages that take networks.
LEMMA RequestKinds ==
    ASSUME Request
    PROVE  \/ st' \in {"RESET_CONFIG", "REBOOT"} /\ UNCHANGED <<cfg, flash, draft>>
           \/ \E n, b \in Nets \cup {None}, force \in BOOLEAN :
                 \/ Post(n, b, force)
                 \/ \E connect \in BOOLEAN : Network(n, b, connect, force)
BY DEF Request

LEMMA RequestType ==
    ASSUME TypeOK, Request
    PROVE  /\ cfg' \in Config /\ flash' \in Config /\ draft' \in BOOLEAN
           /\ st' \in PortalStates \/ st' = st
           /\ events' \in 0 .. MaxEvents
<1>1. events' \in 0 .. MaxEvents
  BY PnPAssumption DEF Request, Event, TypeOK, PnPAssumption
<1>2. ASSUME NEW n \in Nets \cup {None}, NEW b \in Nets \cup {None}, NEW force \in BOOLEAN,
             \/ Post(n, b, force)
             \/ \E connect \in BOOLEAN : Network(n, b, connect, force)
      PROVE  /\ cfg' \in Config /\ flash' \in Config /\ draft' \in BOOLEAN
             /\ st' \in PortalStates \/ st' = st
  <2>1. PICK submitted, states : Enters(n, b, force, submitted, states)
    BY <1>2, EntersState
  <2>2. st' \in PortalStates \/ st' = st
    BY <1>2, EntersState DEF PortalStates
  <2> QED BY <2>1, <2>2, EntersType
<1>3. CASE st' \in {"RESET_CONFIG", "REBOOT"} /\ UNCHANGED <<cfg, flash, draft>>
  BY <1>1, <1>3 DEF PortalStates, TypeOK
<1> QED BY <1>1, <1>2, <1>3, RequestKinds

\* TypeOK holds initially.
LEMMA InitTypeOK == Init => TypeOK
<1> SUFFICES ASSUME Init PROVE TypeOK
  OBVIOUS
<1>1. flash \in Config /\ proven \subseteq Nets
  BY DefaultType DEF Init, Provisioned, Default, Config
<1>2. cfg \in Config
  BY <1>1 DEF Init, Config
<1>3. status \in [Nets -> {"off", "ok", "local"}]
  BY PnPAssumption DEF Init, PnPAssumption
<1>4. st \in States /\ hnd \in States /\ goal \in States /\ pc \in Steps
  BY DEF Init, States, Steps
<1>5. events \in 0 .. MaxEvents
  BY PnPAssumption DEF Init, PnPAssumption
<1>6. new \in [ssid : Nets \cup {None}, flag : {"INVALID", "CONNECTED", "CURRENT", "FAILED"}]
  BY BlankType DEF Init
<1> QED
  BY <1>1, <1>2, <1>3, <1>4, <1>5, <1>6 DEF Init, TypeOK

LEMMA BootType ==
    ASSUME TypeOK, Boot, events' \in 0 .. MaxEvents
    PROVE  TypeOK'
<1>1. cfg' \in Config
  BY DEF Boot, TypeOK, Config
<1> QED BY <1>1, BlankType DEF Boot, TypeOK, States, Steps

LEMMA EventType ==
    ASSUME TypeOK, NEW kind, Event(kind) \/ Quiet
    PROVE  events' \in 0 .. MaxEvents
BY PnPAssumption DEF TypeOK, Event, Quiet, PnPAssumption

\* Every step keeps TypeOK.
LEMMA NextTypeOK ==
    ASSUME TypeOK, Places, [Next]_vars
    PROVE  TypeOK'
<1>1. CASE Dispatch
  <2>1. cfg' \in Config
    BY <1>1 DEF Dispatch, TypeOK, Config
  <2>2. pc' \in Steps
    BY <1>1 DEF Dispatch, Steps
  <2>3. portal' \in BOOLEAN /\ late' \in BOOLEAN
    <3>1. CASE st = "WAIT_CONFIG"
      BY <1>1, <3>1 DEF Dispatch, TypeOK, Config
    <3>2. CASE st # "WAIT_CONFIG"
      BY <1>1, <3>2 DEF Dispatch, TypeOK
    <3> QED BY <3>1, <3>2
  <2> QED BY <1>1, <2>1, <2>2, <2>3 DEF Dispatch, TypeOK, Quiet, air
<1>2. CASE Switch
  <2>1. goal' \in States
    BY <1>2, AfterGoals, GoalStates DEF Switch, Sets
  <2> QED BY <1>2, <2>1 DEF Switch, Sets, TypeOK, Steps, Quiet
<1>3. CASE SetState
  BY <1>3 DEF SetState, Returns, TypeOK, Steps, Quiet, air
<1>4. CASE ConfigReset
  <2>1. [Default EXCEPT !.api = TRUE, !.store = TRUE] \in Config
    BY DEF Default, Config
  <2>2. cfg' \in Config /\ flash' \in Config /\ draft' \in BOOLEAN
    BY <1>4, <2>1, SaveType DEF ConfigReset
  <2> QED BY <1>4, <2>2 DEF ConfigReset, Returns, TypeOK, States, Steps, Quiet, air
<1>5. CASE Restart \/ PowerLoss
  BY <1>5, BootType, EventType DEF Restart, PowerLoss
<1>6. CASE StartNetwork
  BY <1>6 DEF StartNetwork, Sets, TypeOK, States, Steps, Quiet, air
<1>7. CASE Enter
  <2>1. events' \in 0 .. MaxEvents
    BY <1>7, EventType DEF Enter
  <2> QED BY <1>7, <2>1 DEF Enter, TypeOK, Steps, air
<1>8. CASE Begin \/ Associated
  <2>1. Want \in Nets \cup {None}
    BY DEF Want, TypeOK, Config
  <2>2. ReFlag(Want) \in [ssid : Nets \cup {None},
                          flag : {"INVALID", "CONNECTED", "CURRENT", "FAILED"}]
    BY DEF ReFlag, TypeOK
  <2>3. CASE Begin
    BY <2>1, <2>2, <2>3 DEF Begin, Joined, TypeOK, Steps, Quiet
  <2>4. CASE Associated
    BY <2>2, <2>4 DEF Associated, Joined, TypeOK, Steps, Quiet, air
  <2> QED BY <1>8, <2>3, <2>4
<1>9. CASE GiveUp
  <2>1. events' \in 0 .. MaxEvents
    BY <1>9, EventType DEF GiveUp
  <2> QED BY <1>9, <2>1 DEF GiveUp, TypeOK, Steps
<1>10. CASE NetworkResult
  <2>1. cfg' \in Config
    <3>1. cfg' = cfg \/ cfg' = [cfg EXCEPT !.api = TRUE]
      BY <1>10 DEF NetworkResult
    <3> QED BY <3>1 DEF TypeOK, Config
  <2>2. goal' \in States /\ pc' \in Steps
    BY <1>10 DEF NetworkResult, Returns, Sets, TypeOK, States, Steps
  <2> QED BY <1>10, <2>1, <2>2 DEF NetworkResult, TypeOK, Quiet, air
<1>11. CASE StartNew
  <2>1. events' \in 0 .. MaxEvents
    BY <1>11, EventType DEF StartNew, MaySend
  <2>2. goal' \in States /\ pc' \in Steps
    BY <1>11 DEF StartNew, Sets, TypeOK, States, Steps
  <2>3. /\ new' = Blank \/ UNCHANGED new
        /\ cfg' \in Config
    BY <1>11, CopyType DEF StartNew, Reported, TypeOK
  <2>4. target' \in Nets \cup {None} /\ link' \in Nets \cup {None}
    <3>1. target' \in {target, None} /\ link' \in {link, None}
      BY <1>11 DEF StartNew
    <3> QED BY <3>1 DEF TypeOK
  <2> QED BY <1>11, <2>1, <2>2, <2>3, <2>4, BlankType DEF StartNew, TypeOK
<1>12. CASE NewResult
  <2>1. new' \in [ssid : Nets \cup {None},
                  flag : {"INVALID", "CONNECTED", "CURRENT", "FAILED"}]
    BY <1>12 DEF NewResult, TypeOK
  <2> QED BY <1>12, <2>1 DEF NewResult, Sets, TypeOK, States, Steps, Quiet, air
<1>13. CASE Session
  BY <1>13 DEF Session, Reachable, TypeOK, Steps, Quiet, air
<1>14. CASE CloudConnected
  <2>1. PICK sent \in BOOLEAN :
          /\ MaySend(sent) /\ new' = Reported(sent)
          /\ ConfigSave([CopyNewNetwork(sent) EXCEPT !.connected = TRUE])
    BY <1>14 DEF CloudConnected
  <2>2. [CopyNewNetwork(sent) EXCEPT !.connected = TRUE] \in Config
    BY CopyType DEF Config
  <2>3. cfg' \in Config /\ flash' \in Config /\ draft' \in BOOLEAN
    BY <2>1, <2>2, SaveType
  <2>4. events' \in 0 .. MaxEvents
    BY <2>1, EventType DEF MaySend
  <2>5. new' = Blank \/ UNCHANGED new
    BY <2>1 DEF Reported
  <2> QED BY <1>14, <2>3, <2>4, <2>5, BlankType
          DEF CloudConnected, Sets, TypeOK, States, Steps, air
<1>15. CASE CloudFailed
  <2>1. events' \in 0 .. MaxEvents
    BY <1>15, EventType DEF CloudFailed
  <2>2. cfg' \in Config
    BY <1>15, FlagsType DEF CloudFailed, TypeOK
  <2>3. goal' \in States /\ pc' \in Steps
    BY <1>15 DEF CloudFailed, Sets, Returns, TypeOK, States, Steps
  <2> QED BY <1>15, <2>1, <2>2, <2>3 DEF CloudFailed, TypeOK, air
<1>16. CASE SessionLost
  <2>1. events' \in 0 .. MaxEvents
    BY <1>16, EventType DEF SessionLost
  <2> QED BY <1>16, <2>1 DEF SessionLost, Returns, TypeOK, Steps, air
<1>17. CASE RunCheck
  BY <1>17 DEF RunCheck, Sets, Returns, TypeOK, States, Steps, Quiet, air
<1>18. CASE Loop
  <2>1. events' \in 0 .. MaxEvents
    BY <1>18, EventType DEF Loop
  <2>2. goal' \in States /\ pc' \in Steps
    BY <1>18 DEF Loop, Sets, Returns, TypeOK, States, Steps
  <2>3. online' \in BOOLEAN
    BY <1>18 DEF Loop, TypeOK
  <2> QED BY <1>18, <2>1, <2>2, <2>3 DEF Loop, TypeOK, air
<1>19. CASE Serve \/ Leave
  <2>1. /\ cfg' \in Config /\ flash' \in Config /\ draft' \in BOOLEAN
        /\ st' \in PortalStates \/ st' = st
        /\ events' \in 0 .. MaxEvents
    BY <1>19, RequestType, EventType DEF Serve, Leave, NoRequest, TypeOK
  <2>2. st' \in States
    BY <2>1 DEF PortalStates, States, TypeOK
  <2> QED BY <1>19, <2>1, <2>2 DEF Serve, Leave, Returns, TypeOK, Steps, air
<1>20. CASE Check
  BY <1>20 DEF Check, TypeOK, States, Steps, Quiet, air
<1>21. CASE TimeOut
  BY <1>21 DEF TimeOut, TypeOK, Quiet, air
<1>22. CASE Associate
  BY <1>22 DEF Associate, TypeOK, Quiet, board
<1>23. CASE Command
  <2>1. events' \in 0 .. MaxEvents
    BY <1>23, EventType DEF Command
  <2>2. st' \in States /\ new' \in [ssid : Nets \cup {None},
                  flag : {"INVALID", "CONNECTED", "CURRENT", "FAILED"}]
    BY <1>23 DEF Command, TypeOK, States
  <2> QED BY <1>23, <2>1, <2>2 DEF Command, TypeOK, air
<1>24. ASSUME NEW erase \in Erase, SwitchToConfig(erase)
       PROVE  TypeOK'
  <2>1. events' \in 0 .. MaxEvents
    BY <1>24, EventType DEF SwitchToConfig
  <2>2. cfg' \in Config
    BY <1>24 DEF SwitchToConfig, TypeOK, Config
  <2> QED BY <1>24, <2>1, <2>2 DEF SwitchToConfig, TypeOK, States, air
<1>25. ASSUME NEW n \in Nets, NEW s \in Statuses, NetworkChanges(n, s)
       PROVE  TypeOK'
  <2>1. events' \in 0 .. MaxEvents
    BY <1>25, EventType DEF NetworkChanges
  <2>2. status' \in [Nets -> {"off", "ok", "local"}]
    BY <1>25, PnPAssumption DEF NetworkChanges, TypeOK, PnPAssumption
  <2> QED BY <1>25, <2>1, <2>2 DEF NetworkChanges, TypeOK, board
<1>26. CASE UNCHANGED vars
  BY <1>26 DEF vars, board, air, TypeOK
<1> QED
  BY <1>1, <1>2, <1>3, <1>4, <1>5, <1>6, <1>7, <1>8, <1>9, <1>10, <1>11, <1>12, <1>13,
     <1>14, <1>15, <1>16, <1>17, <1>18, <1>19, <1>20, <1>21, <1>22, <1>23, <1>24, <1>25,
     <1>26 DEF Next, Main, Environment

-----------------------------------------------------------------------------
(* Where the handlers are, and the station.                                *)

\* Every step keeps Places.
LEMMA NextPlaces ==
    ASSUME TypeOK, Places, [Next]_vars
    PROVE  Places'
<1> USE DEF Places, AtPortal, Joining
<1>1. CASE Dispatch
  BY <1>1 DEF Dispatch
<1>2. CASE Switch
  BY <1>2, AfterGoals DEF Switch, Sets
<1>3. CASE SetState \/ ConfigReset \/ Restart \/ PowerLoss \/ SessionLost \/ Leave
  BY <1>3 DEF SetState, ConfigReset, Restart, PowerLoss, Boot, SessionLost, Leave, Returns
<1>4. CASE StartNetwork \/ Enter \/ Begin \/ Associated \/ GiveUp
  BY <1>4 DEF StartNetwork, Enter, Begin, Associated, Joined, GiveUp, Sets, Goals, CloudGoals
<1>5. CASE NetworkResult \/ StartNew \/ NewResult
  BY <1>5 DEF NetworkResult, StartNew, NewResult, Sets, Returns, Goals, CloudGoals
<1>6. CASE Session \/ CloudConnected \/ CloudFailed
  BY <1>6 DEF Session, CloudConnected, CloudFailed, Sets, Returns, Goals, CloudGoals
<1>7. CASE RunCheck \/ Loop
  BY <1>7 DEF RunCheck, Loop, Sets, Returns, Goals
<1>8. CASE Serve \/ Check
  BY <1>8 DEF Serve, Check
<1>9. CASE TimeOut \/ Associate \/ Command \/ UNCHANGED vars
  BY <1>9 DEF TimeOut, Associate, Command, vars, board
<1>10. CASE \E erase \in Erase : SwitchToConfig(erase)
  BY <1>10 DEF SwitchToConfig
<1>11. CASE \E n \in Nets, s \in Statuses : NetworkChanges(n, s)
  BY <1>11 DEF NetworkChanges, board
<1> QED
  BY <1>1, <1>2, <1>3, <1>4, <1>5, <1>6, <1>7, <1>8, <1>9, <1>10, <1>11
  DEF Next, Main, Environment

\* What a page does to the state, whatever was entered.
LEMMA RequestState ==
    ASSUME TypeOK, Request \/ NoRequest
    PROVE  /\ st' = st \/ st' \in PortalStates \ {"WAIT_CONFIG", "SWITCH_TO_AP"}
           /\ st' # st => portal
<1>1. CASE Request
  <2>1. portal
    BY <1>1 DEF Request
  <2>2. st' = st \/ st' \in {"SWITCH_TO_STA", "SWITCH_TO_AP_STA", "RESET_CONFIG", "REBOOT"}
    BY <1>1, EntersState, RequestKinds
  <2> QED BY <2>1, <2>2 DEF PortalStates
<1>2. CASE NoRequest
  BY <1>2 DEF NoRequest
<1> QED BY <1>1, <1>2

\* Every step keeps StationOff.
LEMMA NextStationOff ==
    ASSUME TypeOK, Places, StationOff, [Next]_vars
    PROVE  StationOff'
<1> USE DEF Places, AtPortal, Joining, StationOff, PortalStates
<1>1. CASE Dispatch
  BY <1>1 DEF Dispatch, air
<1>2. CASE Switch
  <2>1. After[hnd] = "WAIT_CONFIG" => hnd = "SWITCH_TO_AP"
    BY <1>2 DEF Switch, After
  <2> QED BY <1>2, <2>1 DEF Switch, Sets
<1>3. CASE SetState \/ ConfigReset \/ Restart \/ PowerLoss \/ SessionLost
  BY <1>3 DEF SetState, ConfigReset, Restart, PowerLoss, Boot, SessionLost, Returns, air
<1>4. CASE StartNetwork \/ Enter \/ Begin \/ Associated \/ GiveUp
  BY <1>4 DEF StartNetwork, Enter, Begin, Associated, Joined, GiveUp, Sets, air
<1>5. CASE NetworkResult \/ StartNew \/ NewResult
  BY <1>5 DEF NetworkResult, StartNew, NewResult, Sets, Returns, air
<1>6. CASE Session \/ CloudConnected \/ CloudFailed
  BY <1>6 DEF Session, CloudConnected, CloudFailed, Sets, Returns, air
<1>7. CASE RunCheck \/ Loop
  BY <1>7 DEF RunCheck, Loop, Sets, Returns, air
<1>8. CASE Serve \/ Leave
  BY <1>8, RequestState DEF Serve, Leave, Returns, air
<1>9. CASE Check
  BY <1>9 DEF Check, air
<1>10. CASE TimeOut \/ Associate \/ Command \/ UNCHANGED vars
  BY <1>10 DEF TimeOut, Associate, Command, vars, board, air
<1>11. CASE \E erase \in Erase : SwitchToConfig(erase)
  BY <1>11 DEF SwitchToConfig, air
<1>12. CASE \E n \in Nets, s \in Statuses : NetworkChanges(n, s)
  BY <1>12 DEF NetworkChanges, board
<1> QED
  BY <1>1, <1>2, <1>3, <1>4, <1>5, <1>6, <1>7, <1>8, <1>9, <1>10, <1>11, <1>12
  DEF Next, Main, Environment

-----------------------------------------------------------------------------
(* What the configuration keeps.                                           *)

\* The networks of ERaConfig and what is to become of them.
SameNetworks ==
    cfg'.ssid = cfg.ssid /\ cfg'.backup = cfg.backup /\ cfg'.store = cfg.store

\* The flags the handlers write leave the networks alone.
LEMMA FlagsKeepNetworks ==
    ASSUME TypeOK, NEW x \in BOOLEAN,
           cfg' \in {cfg, [cfg EXCEPT !.api = x],
                     [cfg EXCEPT !.connected = FALSE, !.api = TRUE]}
    PROVE  SameNetworks
BY DEF TypeOK, Config, SameNetworks

\* What configSave leaves in RAM and in flash.
LEMMA SaveFields ==
    ASSUME TypeOK, NEW c \in Config, ConfigSave(c)
    PROVE  /\ cfg'.ssid = c.ssid /\ cfg'.backup = c.backup /\ cfg'.api = c.api
           /\ cfg'.valid = c.valid /\ cfg'.force = c.force /\ cfg'.store = FALSE
           /\ ~c.store => draft' = draft
           /\ c.store => flash' = cfg'
           /\ ~c.store => flash' = flash
<1>1. ~c.store => draft' = draft
  BY DEF ConfigSave, TypeOK
<1> QED BY <1>1 DEF ConfigSave, Config

\* What copyNewNetwork makes of the configuration.
LEMMA CopyFields ==
    ASSUME TypeOK, NEW sent \in BOOLEAN
    PROVE  LET c == [CopyNewNetwork(sent) EXCEPT !.connected = TRUE]
           IN  /\ c \in Config /\ c.api = cfg.api /\ c.force = cfg.force /\ c.valid = cfg.valid
               /\ \/ new.flag = "CONNECTED" /\ c.ssid = new.ssid /\ c.store
                  \/ c.ssid = cfg.ssid /\ c.backup = cfg.backup /\ c.store = cfg.store
BY DEF CopyNewNetwork, TypeOK, Config

\* What a request of the access point leaves.
LEMMA RequestFields ==
    ASSUME TypeOK, Request \/ NoRequest
    PROVE  /\ cfg'.api = cfg.api
           /\ flash'.store = FALSE \/ flash' = flash
           /\ flash' = flash \/ flash'.force \/ ~flash'.valid
           /\ \/ cfg'.ssid = flash'.ssid /\ cfg'.backup = flash'.backup
              \/ cfg'.store \/ draft'
              \/ SameNetworks /\ flash' = flash /\ draft' = draft
<1>1. ASSUME NEW n \in Nets \cup {None}, NEW b \in Nets \cup {None}, NEW force \in BOOLEAN,
             \/ Post(n, b, force)
             \/ \E connect \in BOOLEAN : Network(n, b, connect, force)
      PROVE  /\ cfg'.api = cfg.api
             /\ flash'.store = FALSE \/ flash' = flash
             /\ flash' = flash \/ flash'.force
             /\ \/ cfg'.ssid = flash'.ssid /\ cfg'.backup = flash'.backup
                \/ cfg'.store \/ draft'
                \/ SameNetworks /\ flash' = flash /\ draft' = draft
  <2> DEFINE entered == [cfg EXCEPT !.ssid = IF n = None THEN @ ELSE n,
                                    !.backup = b, !.force = force]
             c == [entered EXCEPT !.valid = TRUE, !.store = TRUE]
  <2>1. /\ entered \in Config /\ entered.api = cfg.api
        /\ entered.store = cfg.store
        /\ entered.ssid = (IF n = None THEN cfg.ssid ELSE n) /\ entered.backup = b
    BY DEF TypeOK, Config
  <2>2. /\ c \in Config /\ c.api = cfg.api /\ c.store = TRUE /\ c.force = force
    BY DEF TypeOK, Config
  <2>3. PICK submitted, states : Enters(n, b, force, submitted, states)
    BY <1>1, EntersState
  <2>4. \/ force /\ ConfigSave(c)
        \/ cfg' = c /\ UNCHANGED flash
        \/ /\ cfg' = entered /\ UNCHANGED flash
           /\ draft' = (draft \/ n \notin {None, cfg.ssid} \/ b # cfg.backup)
    BY <2>3 DEF Enters
  <2> HIDE DEF entered, c
  <2>5. CASE force /\ ConfigSave(c)
    BY <2>2, <2>5, SaveFields
  <2>6. CASE cfg' = c /\ UNCHANGED flash
    BY <2>2, <2>6
  <2>7. CASE /\ cfg' = entered /\ UNCHANGED flash
             /\ draft' = (draft \/ n \notin {None, cfg.ssid} \/ b # cfg.backup)
    <3>1. n \in {None, cfg.ssid} /\ b = cfg.backup => SameNetworks
      BY <2>1, <2>7 DEF SameNetworks
    <3>2. draft' \/ (n \in {None, cfg.ssid} /\ b = cfg.backup /\ draft' = draft)
      BY <2>7 DEF TypeOK
    <3> QED BY <2>1, <2>7, <3>1, <3>2
  <2> QED BY <2>4, <2>5, <2>6, <2>7
<1>2. CASE UNCHANGED <<cfg, flash, draft>>
  BY <1>2 DEF SameNetworks
<1> QED BY <1>1, <1>2, RequestKinds DEF NoRequest

-----------------------------------------------------------------------------
(* The network that is being joined.                                       *)

\* Every step keeps Joins.
LEMMA NextJoins ==
    ASSUME TypeOK, Places, Joins, [Next]_vars
    PROVE  Joins'
<1> USE DEF Places, AtPortal, Joining, Joins
<1>1. CASE Dispatch
  BY <1>1 DEF Dispatch
<1>2. CASE Switch \/ SetState \/ ConfigReset \/ Restart \/ PowerLoss
  BY <1>2 DEF Switch, SetState, ConfigReset, Restart, PowerLoss, Boot, Sets, Returns
<1>3. CASE StartNetwork
  BY <1>3 DEF StartNetwork, Sets
<1>4. CASE Enter
  BY <1>4 DEF Enter, air
<1>5. CASE Begin
  <2>1. ReFlag(new.ssid) = new
    BY DEF ReFlag
  <2>2. hnd = "CONNECTING_NEW_NETWORK" => Want = new.ssid
    BY DEF Want
  <2>3. CASE link # None
    BY <1>5, <2>1, <2>2, <2>3 DEF Begin, Joined
  <2>4. CASE link = None
    <3>1. Want' = Want
      BY <1>5, <2>4 DEF Begin, Want
    <3> QED BY <1>5, <2>2, <2>4, <3>1 DEF Begin
  <2> QED BY <2>3, <2>4
<1>6. CASE Associated
  <2>1. hnd = "CONNECTING_NEW_NETWORK" => Want = new.ssid /\ ReFlag(Want) = new
    BY DEF Want, ReFlag
  <2> QED BY <1>6, <2>1 DEF Associated, Joined, air
<1>7. CASE GiveUp
  BY <1>7 DEF GiveUp
<1>8. CASE NetworkResult \/ NewResult
  BY <1>8 DEF NetworkResult, NewResult, Sets, Returns
<1>9. CASE StartNew
  BY <1>9 DEF StartNew, Sets
<1>10. CASE Session \/ CloudConnected \/ CloudFailed \/ SessionLost \/ RunCheck \/ Loop
  BY <1>10 DEF Session, CloudConnected, CloudFailed, SessionLost, RunCheck, Loop, Sets, Returns
<1>11. CASE Serve \/ Check \/ Leave
  BY <1>11 DEF Serve, Check, Leave, Returns
<1>12. CASE TimeOut \/ UNCHANGED vars
  <2>1. Want' = Want
    BY <1>12 DEF TimeOut, Want, vars, board
  <2> QED BY <1>12, <2>1 DEF TimeOut, vars, board, air
<1>13. CASE Associate
  <2>1. Want' = Want
    BY <1>13 DEF Associate, Want, board
  <2> QED BY <1>13, <2>1 DEF Associate, board
<1>14. CASE Command
  BY <1>14 DEF Command
<1>15. ASSUME NEW erase \in Erase, SwitchToConfig(erase)
       PROVE  Joins'
  <2>1. SameNetworks
    BY <1>15, FlagsKeepNetworks DEF SwitchToConfig
  <2>2. Want' = Want
    BY <1>15, <2>1 DEF SwitchToConfig, Want, SameNetworks
  <2> QED BY <1>15, <2>2 DEF SwitchToConfig, air
<1>16. ASSUME NEW n \in Nets, NEW s \in Statuses, NetworkChanges(n, s)
       PROVE  Joins'
  <2>1. Want' = Want
    BY <1>16 DEF NetworkChanges, Want, board
  <2> QED BY <1>16, <2>1 DEF NetworkChanges, board
<1> QED
  BY <1>1, <1>2, <1>3, <1>4, <1>5, <1>6, <1>7, <1>8, <1>9, <1>10, <1>11, <1>12, <1>13,
     <1>14, <1>15, <1>16 DEF Next, Main, Environment

\* Every step keeps Flagged.
LEMMA NextFlagged ==
    ASSUME TypeOK, Places, Joins, Flagged, [Next]_vars
    PROVE  Flagged'
<1> USE DEF Places, AtPortal, Joining, Flagged
<1>1. CASE Dispatch
  BY <1>1 DEF Dispatch, air
<1>2. CASE Switch \/ SetState \/ ConfigReset
  BY <1>2 DEF Switch, SetState, ConfigReset, Sets, Returns, Goals, CloudGoals, air
<1>3. CASE Restart \/ PowerLoss
  BY <1>3 DEF Restart, PowerLoss, Boot, Blank
<1>4. CASE StartNetwork \/ Enter \/ GiveUp
  BY <1>4 DEF StartNetwork, Enter, GiveUp, Sets, air
<1>5. CASE Begin
  <2>1. CASE link # None
    <3>1. new'.flag = "CONNECTED" => new' = new
      BY <1>5, <2>1 DEF Begin, Joined, ReFlag, TypeOK
    <3> QED BY <1>5, <2>1, <3>1 DEF Begin, Joined
  <2>2. CASE link = None
    BY <1>5, <2>2 DEF Begin, Joins
  <2> QED BY <2>1, <2>2
<1>6. CASE Associated
  <2>1. new'.flag = "CONNECTED" => new' = new /\ Want = new.ssid
    BY <1>6 DEF Associated, Joined, ReFlag, TypeOK
  <2>2. hnd = "CONNECTING_NETWORK" \/ new'.flag # "CONNECTED"
    BY <1>6, <2>1 DEF Associated, Joins
  <2> QED BY <1>6, <2>1, <2>2 DEF Associated, Joined, Joins, air
<1>7. CASE NetworkResult
  BY <1>7 DEF NetworkResult, Sets, Returns, air
<1>8. CASE NewResult
  <2>1. new'.ssid = new.ssid
    BY <1>8 DEF NewResult, TypeOK
  <2>2. CASE link # None
    BY <1>8, <2>1, <2>2 DEF NewResult, Sets, Joins, air
  <2>3. CASE link = None
    <3>1. new'.flag = "FAILED"
      BY <1>8, <2>3 DEF NewResult, TypeOK
    <3> QED BY <3>1
  <2> QED BY <2>2, <2>3
<1>9. CASE StartNew
  <2>1. new' = Blank \/ UNCHANGED new
    BY <1>9 DEF StartNew, Reported
  <2>2. new.flag # "CONNECTED"
    BY <1>9 DEF StartNew
  <2> QED BY <2>1, <2>2 DEF Blank
<1>10. CASE Session
  BY <1>10 DEF Session, Reachable, air
<1>11. CASE CloudConnected
  <2>1. new' = Blank \/ UNCHANGED new
    BY <1>11 DEF CloudConnected, Reported
  <2> QED BY <1>11, <2>1 DEF CloudConnected, Sets, Blank, air
<1>12. CASE CloudFailed \/ SessionLost \/ RunCheck \/ Loop
  BY <1>12 DEF CloudFailed, SessionLost, RunCheck, Loop, Sets, Returns, air
<1>13. CASE Serve \/ Leave
  BY <1>13, RequestState DEF Serve, Leave, Returns, PortalStates, air
<1>14. CASE Check
  BY <1>14 DEF Check, air
<1>15. CASE TimeOut \/ Associate \/ UNCHANGED vars
  BY <1>15 DEF TimeOut, Associate, vars, board, air
<1>16. CASE Command
  <2>1. CASE UNCHANGED new
    BY <1>16, <2>1 DEF Command, air
  <2>2. CASE \E n \in Nets, f \in {"CURRENT", "FAILED"} :
               new' = [ssid |-> n, flag |-> IF n = cfg.ssid THEN f ELSE "INVALID"]
    BY <2>2
  <2> QED BY <1>16, <2>1, <2>2 DEF Command
<1>17. CASE \E erase \in Erase : SwitchToConfig(erase)
  BY <1>17 DEF SwitchToConfig, air
<1>18. CASE \E n \in Nets, s \in Statuses : NetworkChanges(n, s)
  BY <1>18 DEF NetworkChanges, board
<1> QED
  BY <1>1, <1>2, <1>3, <1>4, <1>5, <1>6, <1>7, <1>8, <1>9, <1>10, <1>11, <1>12, <1>13,
     <1>14, <1>15, <1>16, <1>17, <1>18 DEF Next, Main, Environment

-----------------------------------------------------------------------------
(* The way from the access point to the cloud, and what is saved.          *)

\* Pending depends on no more than this.
LEMMA PendingFrame ==
    ASSUME Pending, SameNetworks, proven' = proven, flash' = flash, draft' = draft,
           online' => online, Early => Early',
           Early => {link', target'} \subseteq {None, cfg.ssid, cfg.backup, target, link}
    PROVE  Pending'
BY DEF Pending, SameNetworks, CfgProven

\* Every step keeps Pending.
LEMMA NextPending ==
    ASSUME PnPInv, [Next]_vars
    PROVE  Pending'
<1> USE DEF PnPInv
<1> DEFINE Far == {link', target'} \subseteq {None, cfg.ssid, cfg.backup, target, link}
<1>0. (cfg' = cfg => SameNetworks) /\ CloudGoals \subseteq EarlyStates
  BY DEF SameNetworks, CloudGoals, EarlyStates
<1>1. CASE Dispatch
  <2>1. SameNetworks
    BY <1>1, FlagsKeepNetworks DEF Dispatch, TypeOK, Config
  <2>2. Early => Early'
    BY <1>1 DEF Dispatch, Early
  <2> QED BY <1>1, <2>1, <2>2, PendingFrame DEF Dispatch, air
<1>2. CASE Switch
  <2>1. hnd \in EarlyStates => After[hnd] \in CloudGoals
    BY <1>2 DEF Switch, After, EarlyStates, CloudGoals
  <2>2. (Early => Early') /\ Far
    BY <1>2, <2>1 DEF Switch, Sets, Early
  <2> QED BY <1>0, <1>2, <2>2, PendingFrame DEF Switch
<1>3. CASE SetState
  <2>1. Early => Early'
    BY <1>0, <1>3 DEF SetState, Returns, Early
  <2> QED BY <1>0, <1>3, <2>1, PendingFrame DEF SetState, air
<1>4. CASE ConfigReset
  <2>1. [Default EXCEPT !.api = TRUE, !.store = TRUE] \in Config
    BY DEF Default, Config
  <2>2. cfg'.store = FALSE /\ flash' = cfg'
    <3>1. [Default EXCEPT !.api = TRUE, !.store = TRUE].store
      BY DEF Default
    <3> QED BY <1>4, <2>1, <3>1, SaveFields DEF ConfigReset
  <2> QED BY <2>2 DEF Pending
<1>5. CASE Restart \/ PowerLoss
  <2>1. /\ cfg'.store = FALSE /\ flash' = flash
        /\ cfg'.ssid = flash'.ssid /\ cfg'.backup = flash'.backup
    BY <1>5 DEF Restart, PowerLoss, Boot, TypeOK, Config, Pending
  <2> QED BY <2>1 DEF Pending
<1>6. CASE StartNetwork \/ Enter
  <2>1. Early => Early'
    BY <1>6 DEF StartNetwork, Enter, Sets, Early, EarlyStates, CloudGoals
  <2> QED BY <1>0, <1>6, <2>1, PendingFrame DEF StartNetwork, Enter, air
<1>7. CASE Begin
  <2>1. Early => Want \in {cfg.ssid, cfg.backup}
    BY <1>7 DEF Begin, Early, Want, EarlyStates, CloudGoals
  <2>2. (Early => Early') /\ (Early => Far)
    BY <1>7, <2>1 DEF Begin, Joined, Early
  <2> QED BY <1>0, <1>7, <2>2, PendingFrame DEF Begin
<1>8. CASE Associated
  <2>1. Early => Early'
    BY <1>8 DEF Associated, Joined, Early
  <2> QED BY <1>0, <1>8, <2>1, PendingFrame DEF Associated, air
<1>9. CASE GiveUp
  <2>1. Early => Early'
    BY <1>9 DEF GiveUp, Early
  <2> QED BY <1>0, <1>9, <2>1, PendingFrame DEF GiveUp
<1>10. CASE NetworkResult
  <2>1. SameNetworks
    BY <1>10, FlagsKeepNetworks DEF NetworkResult
  <2>2. Early => Early'
    BY <1>10 DEF NetworkResult, Sets, Returns, Early, CloudGoals
  <2> QED BY <1>10, <2>1, <2>2, PendingFrame DEF NetworkResult, air
<1>11. CASE StartNew
  <2>1. new.flag # "CONNECTED" /\ ~Early
    BY <1>11 DEF StartNew, Flagged, Early, EarlyStates, CloudGoals
  <2>2. cfg' = cfg
    BY <1>11, <2>1 DEF StartNew, CopyNewNetwork
  <2> QED BY <1>0, <1>11, <2>1, <2>2, PendingFrame DEF StartNew
<1>12. CASE NewResult
  <2>1. ~Early
    BY <1>12 DEF NewResult, Early, EarlyStates, CloudGoals
  <2> QED BY <1>0, <1>12, <2>1, PendingFrame DEF NewResult
<1>13. CASE Session
  <2>1. cfg.store => CfgProven'
    BY <1>13 DEF Session, Reachable, Pending, CfgProven
  <2> QED BY <1>13, <2>1 DEF Session, Pending
<1>14. CASE CloudConnected
  <2>1. PICK sent \in BOOLEAN : ConfigSave([CopyNewNetwork(sent) EXCEPT !.connected = TRUE])
    BY <1>14 DEF CloudConnected
  <2> DEFINE c == [CopyNewNetwork(sent) EXCEPT !.connected = TRUE]
  <2>2. /\ c \in Config
        /\ \/ c.store
           \/ c.ssid = cfg.ssid /\ c.backup = cfg.backup /\ c.store = cfg.store
    BY CopyFields
  <2> HIDE DEF c
  <2>3. /\ cfg'.store = FALSE /\ cfg'.ssid = c.ssid /\ cfg'.backup = c.backup
        /\ c.store => flash' = cfg'
        /\ ~c.store => flash' = flash /\ draft' = draft
    BY <2>1, <2>2, SaveFields DEF c
  <2> QED BY <2>2, <2>3 DEF Pending
<1>15. CASE CloudFailed
  <2>1. SameNetworks
    BY <1>15, FlagsKeepNetworks DEF CloudFailed
  <2>2. Early => Early'
    BY <1>15 DEF CloudFailed, Sets, Returns, Early, CloudGoals
  <2> QED BY <1>15, <2>1, <2>2, PendingFrame DEF CloudFailed, air
<1>16. CASE SessionLost
  <2>1. ~Early
    BY <1>16 DEF SessionLost, Early
  <2> QED BY <1>0, <1>16, <2>1, PendingFrame DEF SessionLost
<1>17. CASE RunCheck \/ Loop
  <2>1. ~Early
    BY <1>17 DEF RunCheck, Loop, Places, Early, EarlyStates, CloudGoals
  <2> QED BY <1>0, <1>17, <2>1, PendingFrame DEF RunCheck, Loop
<1>18. CASE Serve \/ Leave
  <2>1. Early' /\ {link', target'} \subseteq {None}
    BY <1>18, RequestState
    DEF Serve, Leave, Returns, Early, StationOff, Places, AtPortal, PortalStates,
        EarlyStates, CloudGoals, air
  <2>2. /\ flash'.store = FALSE
        /\ \/ cfg'.ssid = flash'.ssid /\ cfg'.backup = flash'.backup
           \/ cfg'.store \/ draft'
    BY <1>18, RequestFields DEF Serve, Leave, Pending, SameNetworks
  <2> QED BY <2>1, <2>2 DEF Pending
<1>19. CASE Check
  <2>1. Early => Early'
    BY <1>19 DEF Check, Early, EarlyStates
  <2> QED BY <1>0, <1>19, <2>1, PendingFrame DEF Check, air
<1>20. CASE TimeOut \/ Associate \/ UNCHANGED vars
  <2>1. (Early => Early') /\ Far
    BY <1>20 DEF TimeOut, Associate, vars, board, air, Early
  <2> QED BY <1>0, <1>20, <2>1, PendingFrame DEF TimeOut, Associate, vars, board
<1>21. CASE Command
  <2>1. ~Early
    BY <1>21 DEF Command, Early
  <2> QED BY <1>0, <1>21, <2>1, PendingFrame DEF Command
<1>22. ASSUME NEW erase \in Erase, SwitchToConfig(erase)
       PROVE  Pending'
  <2>1. SameNetworks
    BY <1>22, FlagsKeepNetworks DEF SwitchToConfig
  <2>2. Early => Early'
    BY <1>22 DEF SwitchToConfig, Early, EarlyStates, CloudGoals
  <2> QED BY <1>22, <2>1, <2>2, PendingFrame DEF SwitchToConfig, air
<1>23. ASSUME NEW n \in Nets, NEW s \in Statuses, NetworkChanges(n, s)
       PROVE  Pending'
  <2>1. (Early => Early') /\ Far
    BY <1>23 DEF NetworkChanges, board, Early
  <2> QED BY <1>0, <1>23, <2>1, PendingFrame DEF NetworkChanges, board
<1> QED
  BY <1>1, <1>2, <1>3, <1>4, <1>5, <1>6, <1>7, <1>8, <1>9, <1>10, <1>11, <1>12, <1>13,
     <1>14, <1>15, <1>16, <1>17, <1>18, <1>19, <1>20, <1>21, <1>22, <1>23
  DEF Next, Main, Environment

\* Every step keeps StoredIsProven: flash is written by configReset, by a
\* forced save and once the cloud was reached.
LEMMA NextStored ==
    ASSUME PnPInv, [Next]_vars
    PROVE  StoredIsProven'
<1>1. CASE ConfigReset
  <2>1. [Default EXCEPT !.api = TRUE, !.store = TRUE] \in Config
    BY DEF Default, Config
  <2>2. /\ ~[Default EXCEPT !.api = TRUE, !.store = TRUE].valid
        /\ [Default EXCEPT !.api = TRUE, !.store = TRUE].store
    BY DEF Default
  <2>3. ~flash'.valid
    BY <1>1, <2>1, <2>2, SaveFields DEF PnPInv, ConfigReset
  <2> QED BY <2>3 DEF StoredIsProven
<1>2. CASE CloudConnected
  <2>1. PICK sent \in BOOLEAN : ConfigSave([CopyNewNetwork(sent) EXCEPT !.connected = TRUE])
    BY <1>2 DEF CloudConnected
  <2> DEFINE c == [CopyNewNetwork(sent) EXCEPT !.connected = TRUE]
  <2>2. /\ c \in Config
        /\ \/ new.flag = "CONNECTED" /\ c.ssid = new.ssid /\ c.store
           \/ c.ssid = cfg.ssid /\ c.backup = cfg.backup /\ c.store = cfg.store
    BY CopyFields DEF PnPInv
  <2> HIDE DEF c
  <2>3. /\ cfg'.ssid = c.ssid /\ cfg'.backup = c.backup
        /\ c.store => flash' = cfg'
        /\ ~c.store => flash' = flash
    BY <2>1, <2>2, SaveFields DEF PnPInv, c
  <2>4. proven' = proven /\ pc = "session"
    BY <1>2 DEF CloudConnected
  <2>5. new.flag = "CONNECTED" => new.ssid \in proven
    BY <2>4 DEF PnPInv, Flagged
  <2>6. cfg.store => cfg.ssid \in proven \/ cfg.backup \in proven
    BY <2>4 DEF PnPInv, Pending, CfgProven, Early
  <2> QED BY <2>2, <2>3, <2>4, <2>5, <2>6 DEF PnPInv, StoredIsProven
<1>3. CASE Serve \/ Leave
  <2>1. proven' = proven /\ (flash' = flash \/ flash'.force \/ ~flash'.valid)
    BY <1>3, RequestFields DEF PnPInv, Serve, Leave
  <2> QED BY <2>1 DEF PnPInv, StoredIsProven
<1>4. CASE Restart \/ PowerLoss
  BY <1>4 DEF PnPInv, StoredIsProven, Restart, PowerLoss, Boot
<1>5. ASSUME flash' = flash, proven \subseteq proven'
      PROVE  StoredIsProven'
  BY <1>5 DEF PnPInv, StoredIsProven
<1>6. \/ ConfigReset \/ CloudConnected \/ Serve \/ Leave \/ Restart \/ PowerLoss
      \/ flash' = flash /\ proven \subseteq proven'
  <2>1. CASE Dispatch \/ Switch \/ SetState \/ StartNetwork \/ Enter \/ Begin \/ Associated
    BY <2>1 DEF Dispatch, Switch, SetState, StartNetwork, Enter, Begin, Associated
  <2>2. CASE GiveUp \/ NetworkResult \/ StartNew \/ NewResult \/ Session \/ CloudFailed
    BY <2>2 DEF GiveUp, NetworkResult, StartNew, NewResult, Session, CloudFailed
  <2>3. CASE SessionLost \/ RunCheck \/ Loop \/ Check \/ TimeOut \/ Associate \/ Command
    BY <2>3 DEF SessionLost, RunCheck, Loop, Check, TimeOut, Associate, Command
  <2>4. CASE \E erase \in Erase : SwitchToConfig(erase)
    BY <2>4 DEF SwitchToConfig
  <2>5. CASE \E n \in Nets, s \in Statuses : NetworkChanges(n, s)
    BY <2>5 DEF NetworkChanges
  <2>6. CASE UNCHANGED vars
    BY <2>6 DEF vars
  <2> QED BY <2>1, <2>2, <2>3, <2>4, <2>5, <2>6 DEF Next, Main, Environment
<1> QED BY <1>1, <1>2, <1>3, <1>4, <1>5, <1>6

-----------------------------------------------------------------------------
(* The access point.                                                       *)

\* Every step keeps Portal.
LEMMA NextPortal ==
    ASSUME PnPInv, [Next]_vars
    PROVE  Portal'
<1> USE DEF PnPInv, AtPortal, ToPortal
<1>1. CASE Dispatch
  <2>1. CASE st = "WAIT_CONFIG"
    <3>1. portal'
      BY <1>1, <2>1 DEF Dispatch, Portal
    <3> QED BY <3>1 DEF Portal
  <2>2. CASE st # "WAIT_CONFIG"
    BY <1>1, <2>2 DEF Dispatch, Portal
  <2> QED BY <2>1, <2>2
<1>2. CASE Switch
  <2>1. After[hnd] \in {"SWITCH_TO_AP", "WAIT_CONFIG"} => hnd = "SWITCH_TO_AP"
    BY <1>2 DEF Switch, After
  <2> QED BY <1>2, <2>1 DEF Switch, Sets, Portal
<1>3. CASE ConfigReset
  <2>1. /\ [Default EXCEPT !.api = TRUE, !.store = TRUE] \in Config
        /\ [Default EXCEPT !.api = TRUE, !.store = TRUE].api
    BY DEF Default, Config
  <2>2. cfg'.api
    BY <1>3, <2>1, SaveFields DEF ConfigReset
  <2> QED BY <1>3, <2>2 DEF ConfigReset, Returns, Portal
<1>4. CASE Restart \/ PowerLoss
  <2>1. flash.valid \/ cfg'.api
    BY <1>4 DEF Restart, PowerLoss, Boot, TypeOK, Config
  <2> QED BY <1>4, <2>1 DEF Restart, PowerLoss, Boot, Portal
<1>5. CASE NetworkResult
  <2>1. cfg' = cfg \/ cfg'.api
    BY <1>5 DEF NetworkResult, TypeOK, Config
  <2>2. goal' = "SWITCH_TO_AP" /\ pc' = "set" => cfg'.api
    BY <1>5 DEF NetworkResult, Sets, Returns, TypeOK, Config
  <2> QED BY <1>5, <2>1, <2>2 DEF NetworkResult, Sets, Returns, Portal
<1>6. CASE CloudFailed
  <2>1. cfg' = cfg \/ cfg'.api
    BY <1>6 DEF CloudFailed, TypeOK, Config
  <2>2. goal' = "SWITCH_TO_AP" /\ pc' = "set" => cfg'.api
    BY <1>6 DEF CloudFailed, Sets, Returns, TypeOK, Config
  <2> QED BY <1>6, <2>1, <2>2 DEF CloudFailed, Sets, Returns, Portal
<1>7. CASE StartNew
  <2>1. cfg' = cfg
    BY <1>7 DEF StartNew, Flagged, CopyNewNetwork
  <2> QED BY <1>7, <2>1 DEF StartNew, Sets, Portal
<1>8. CASE CloudConnected
  <2>1. PICK sent \in BOOLEAN : ConfigSave([CopyNewNetwork(sent) EXCEPT !.connected = TRUE])
    BY <1>8 DEF CloudConnected
  <2>2. cfg'.api = cfg.api
    BY <2>1, CopyFields, SaveFields
  <2> QED BY <1>8, <2>2 DEF CloudConnected, Sets, Portal
<1>9. CASE Serve \/ Leave
  BY <1>9, RequestFields, RequestState DEF Serve, Leave, Returns, Places, Portal
<1>10. CASE Check
  BY <1>10 DEF Check, Portal
<1>11. CASE SetState
  BY <1>11 DEF SetState, Returns, Portal
<1>12. CASE StartNetwork \/ Enter \/ Begin \/ Associated \/ GiveUp
  BY <1>12 DEF StartNetwork, Sets, Enter, Begin, Associated, Joined, GiveUp, Places, Joining, Portal
<1>13. CASE NewResult \/ Session \/ SessionLost
  BY <1>13 DEF NewResult, Session, SessionLost, Sets, Returns, Places, Portal
<1>14. CASE RunCheck \/ Loop
  BY <1>14 DEF RunCheck, Loop, Sets, Returns, Places, Portal
<1>15. CASE TimeOut \/ Associate \/ Command \/ UNCHANGED vars
  BY <1>15 DEF TimeOut, Associate, Command, vars, board, Portal
<1>16. ASSUME NEW erase \in Erase, SwitchToConfig(erase)
       PROVE  Portal'
  <2>1. cfg'.api
    BY <1>16 DEF SwitchToConfig, TypeOK, Config
  <2> QED BY <1>16, <2>1 DEF SwitchToConfig, Portal
<1>17. CASE \E n \in Nets, s \in Statuses : NetworkChanges(n, s)
  BY <1>17 DEF NetworkChanges, board, Portal
<1> QED
  BY <1>1, <1>2, <1>3, <1>4, <1>5, <1>6, <1>7, <1>8, <1>9, <1>10, <1>11, <1>12, <1>13,
     <1>14, <1>15, <1>16, <1>17 DEF Next, Main, Environment

-----------------------------------------------------------------------------
(* The theorems.                                                           *)

LEMMA InitPnPInv == Init => PnPInv
<1> SUFFICES ASSUME Init PROVE PnPInv
  OBVIOUS
<1>1. TypeOK
  BY InitTypeOK
<1>2. Places /\ StationOff /\ Joins /\ Flagged
  BY DEF Init, Blank, Places, StationOff, Joins, Flagged, AtPortal, Joining
<1>3. /\ flash.store = FALSE
      /\ flash.valid => flash.ssid \in proven
  <2>1. CASE flash = Default
    BY <2>1 DEF Default
  <2>2. ASSUME NEW n \in Nets, NEW b \in Nets \cup {None},
               flash = Provisioned(n, b) /\ proven = {n}
        PROVE  flash.store = FALSE /\ flash.ssid = n
    BY <2>2 DEF Provisioned, Default
  <2> QED BY <2>1, <2>2 DEF Init, Default
<1>4. /\ cfg.store = flash.store /\ cfg.ssid = flash.ssid /\ cfg.backup = flash.backup
      /\ flash.valid \/ cfg.api
  BY <1>1 DEF Init, TypeOK, Config
<1>5. Pending /\ StoredIsProven
  BY <1>3, <1>4 DEF Pending, StoredIsProven
<1>6. Portal
  BY <1>4 DEF Init, Portal, AtPortal, ToPortal
<1> QED BY <1>1, <1>2, <1>5, <1>6 DEF PnPInv

LEMMA PnPInductive == Spec => []PnPInv
<1>1. PnPInv /\ [Next]_vars => PnPInv'
  BY NextTypeOK, NextPlaces, NextStationOff, NextJoins, NextFlagged, NextPending,
     NextStored, NextPortal DEF PnPInv
<1> QED BY InitPnPInv, <1>1, PTL DEF Spec

\* Every variable keeps its type, for every set of networks and every number
\* of events.
THEOREM PnPTypeOK == Spec => []TypeOK
BY PnPInductive, PTL DEF PnPInv

\* Wherever power is lost, the networks in flash were reached, or forced.
THEOREM PnPStoredIsProven == Spec => []StoredIsProven
BY PnPInductive, PTL DEF PnPInv

\* A new network is called joined only while the board is on it.
THEOREM PnPNewIsJoined == Spec => []NewIsJoined
<1>1. PnPInv => NewIsJoined
  BY DEF PnPInv, Flagged, NewIsJoined
<1> QED BY <1>1, PnPInductive, PTL

\* A running board has its networks in flash and no save to come, unless they
\* were typed on a page and not submitted.
THEOREM PnPRunningIsStored == Spec => []RunningIsStored
<1>1. PnPInv => RunningIsStored
  BY DEF PnPInv, Pending, Early, EarlyStates, CloudGoals, RunningIsStored
<1> QED BY <1>1, PnPInductive, PTL

\* The open access point serves its page.
THEOREM PnPPortalServed == Spec => []PortalServed
<1>1. PnPInv => PortalServed
  BY DEF PnPInv, Portal, AtPortal, PortalServed
<1> QED BY <1>1, PnPInductive, PTL

=============================================================================
