------------------------------ MODULE ERaMqtt ------------------------------
(***************************************************************************)
(* ERaMqtt (src/src/MQTT/ERaMqtt.hpp) on top of MQTTClient and lwmqtt: the *)
(* session of a board with the broker.  connect() subscribes the topics,   *)
(* publishes the retained "online" message over the will that says         *)
(* "offline", then subscribes its own presence topic; run() keeps the      *)
(* session alive and repeats "online" when an "offline" of an earlier      *)
(* session arrives late.                                                   *)
(*                                                                         *)
(* The task that calls connect() and run() is one process, the api task    *)
(* (optional) another; the TCP link and the broker are external.  A wait   *)
(* for an acknowledgement runs the message callback, and delays() runs the *)
(* application: both may publish.  The mutex is held over such a wait, but *)
(* loop() and MQTTClient::connect() read without it: a packet goes to the  *)
(* task that reads first.                                                  *)
(***************************************************************************)
EXTENDS Integers, SequencesExt

CONSTANTS Configs,     \* the configurations an application may choose
          Limit,       \* LIMIT_CONNECT_BROKER_MQTT
          MaxFail,     \* bound: failures of the network, the broker, a switch
          QMax         \* bound: application messages queued in one direction

ASSUME ConfigAssumption ==
    Configs \subseteq [nonBlocking : BOOLEAN, skipAck : BOOLEAN, askConfig : BOOLEAN,
                      handlerPublishes : BOOLEAN, apiTask : BOOLEAN]
ASSUME LimitAssumption == Limit \in Nat \ {0}
ASSUME BoundAssumption == MaxFail \in Nat /\ QMax \in Nat

VARIABLES config,      \* the configuration of this board: never changes
          pc,          \* the call in progress in the main task
          wait,        \* the packet type lwmqtt_cycle_until() looks for
          connected,   \* ERaMqtt::_connected
          needPubState,
          reachedLimit,
          connectCount,
          failedConnect, \* lastError() is LWMQTT_NETWORK_FAILED_CONNECT
          mqConnected, \* MQTTClient::_connected
          due,         \* the keep alive timer has run out
          pongPending,
          api,         \* publishData() of the api task: idle, checked, wait (for its
                       \* PUBACK, with the mutex), stuck
          link,        \* the TCP connection: closed, up, dead (half open)
          unacked,     \* bytes were written into a dead link
          up, down,    \* packets on their way to and from the broker
          broker,      \* what the broker holds
          fails        \* failures so far

session == <<connected, needPubState, reachedLimit, connectCount, failedConnect>>
client == <<mqConnected, due, pongPending>>
net == <<link, unacked, up, down>>
state == <<pc, wait, session, client, api, net, broker, fails>>
vars == <<config, state>>

NonBlocking == config.nonBlocking \* setNonBlocking
SkipAck == config.skipAck         \* setSkipACK
AskConfig == config.askConfig     \* setAskConfig
HandlerPublishes == config.handlerPublishes \* the application's handlers
ApiTask == config.apiTask         \* a second task publishes (setTaskSize)

Steps == {"idle", "connect", "backoff", "sub1", "sub2", "online", "settle", "ask",
          "sublwt", "run", "state", "app", "call", "stuck"}
UpTypes == {"CONNECT", "SUB", "SUBLWT", "ONLINE", "ASK", "DATA", "PINGREQ"}
Acks == {"CONNACK", "SUBACK", "PUBACK"}
DownTypes == Acks \cup {"DENIED", "PINGRESP", "CMD", "OL1", "OL0"}

Members(s) == {s[i] : i \in DOMAIN s}
Holds(s, p) == p \in Members(s)

----------------------------------------------------------------------------
(* the broker and the link: external                                       *)

Fail == fails < MaxFail /\ fails' = fails + 1

NoSession == [open |-> FALSE, cmd |-> FALSE, lwt |-> FALSE, announced |-> FALSE]

\* A packet may have gone to the other task, so an answer does not come though
\* nothing failed.  Bound: not before the wills still due are published.
Astray == ApiTask /\ ~SkipAck /\ broker.wills = 0 /\ fails' = fails

\* What the broker may hold once the connection is gone: the will of an open
\* session is due, surely after a failure, possibly after a DISCONNECT.
Ended(clean) ==
    {[broker EXCEPT !.session = NoSession, !.wills = @ + w] :
        w \in IF broker.session.open THEN IF clean THEN {0, 1} ELSE {1}
              ELSE IF Holds(up, "CONNECT") THEN {0, 1} ELSE {0}}

\* The connection goes to state l and loses what was in flight.
EndLink(l, clean) ==
    /\ link' = l /\ up' = <<>> /\ down' = <<>> /\ unacked' = FALSE
    /\ broker' \in IF link = "up" THEN Ended(clean) ELSE {broker}

\* A will is published, retained; a session that watches the topic gets it.
FireWill ==
    /\ broker.wills > 0
    /\ broker' = [broker EXCEPT !.wills = @ - 1, !.retained = "OL0"]
    /\ down' = IF broker.session.lwt THEN Append(down, "OL0") ELSE down
    /\ UNCHANGED <<pc, wait, session, client, api, link, unacked, up, fails>>

\* The answers to a packet: a new session is clean; a subscription to the
\* presence topic is answered with the retained message too.
Answer(p) ==
    CASE p = "CONNECT" -> {<<"CONNACK">>}
      [] p = "SUB" -> {<<"SUBACK">>}
      [] p = "SUBLWT" -> IF broker.retained = "none" THEN {<<"SUBACK">>}
                         ELSE {<<"SUBACK", broker.retained>>, <<broker.retained, "SUBACK">>}
      [] p = "PINGREQ" -> {<<"PINGRESP">>}
      [] OTHER -> LET ack == IF SkipAck THEN <<>> ELSE <<"PUBACK">>
                      own == IF p # "DATA" /\ broker.session.lwt THEN <<"OL1">> ELSE <<>>
                  IN {ack \o own, own \o ack}

Received(p) ==
    CASE p = "CONNECT" -> [broker EXCEPT !.session = [NoSession EXCEPT !.open = TRUE]]
      [] p = "SUB" -> [broker EXCEPT !.session.cmd = TRUE]
      [] p = "SUBLWT" -> [broker EXCEPT !.session.lwt = TRUE]
      [] p = "ONLINE" -> [broker EXCEPT !.session.announced = TRUE, !.retained = "OL1"]
      [] OTHER -> broker

BrokerReceive ==
    /\ link = "up" /\ up # <<>>
    /\ up' = Tail(up)
    /\ \E a \in Answer(Head(up)) : down' = down \o a
    /\ broker' = Received(Head(up))
    /\ UNCHANGED <<pc, wait, session, client, api, link, unacked, fails>>

\* CONNACK with a return code other than accepted.
BrokerDeny ==
    /\ link = "up" /\ up # <<>> /\ Head(up) = "CONNECT" /\ Fail
    /\ up' = Tail(up) /\ down' = Append(down, "DENIED")
    /\ UNCHANGED <<pc, wait, session, client, api, link, unacked, broker>>

\* A user acts on the board through the cloud.
BrokerCommand ==
    /\ broker.session.cmd /\ Len(down) < QMax
    /\ down' = Append(down, "CMD")
    /\ UNCHANGED <<pc, wait, session, client, api, link, unacked, up, broker, fails>>

\* The connection is reset, or stalls without either side being told.
Drop == /\ link = "up" /\ Fail
        /\ EndLink("closed", FALSE)
        /\ UNCHANGED <<pc, wait, session, client, api>>

Stall == /\ link = "up" /\ Fail
         /\ EndLink("dead", FALSE)
         /\ UNCHANGED <<pc, wait, session, client, api>>

\* TCP gives up on a dead connection once it has something to retransmit.
TcpGiveUp == /\ link = "dead" /\ unacked
             /\ EndLink("closed", FALSE)
             /\ UNCHANGED <<pc, wait, session, client, api, fails>>

\* Half a keep alive interval passes without a packet sent.  A ping on a
\* working link is answered sooner than that.
TimePasses == /\ pc = "run" /\ ~due
              /\ ~(pongPending /\ link = "up")
              /\ due' = TRUE
              /\ UNCHANGED <<pc, wait, session, mqConnected, pongPending, api, net, broker, fails>>
----------------------------------------------------------------------------
(* MQTTClient, lwmqtt                                                      *)

\* MQTTClient::connected()
Linked == mqConnected /\ link # "closed"

\* lwmqtt_send_packet_in_buffer: a packet sent restarts the keep alive timer.
Send(p) == /\ due' = FALSE
           /\ up' = IF link = "up" THEN Append(up, p) ELSE up
           /\ unacked' = (unacked \/ link = "dead")

\* MQTTClient::close()
Close == EndLink("closed", FALSE) /\ mqConnected' = FALSE

\* ERaMqtt::mutex is held: subscribeTopic, publishLWT and publishData keep it
\* for the whole call.
Locked == wait \in {"SUBACK", "PUBACK"}

\* The api task holds it.
ApiLocked == api \in {"wait", "stuck"}

\* The first statements of connect(): connectBlocking(), and the first of a
\* series of connectNonBlocking(), drop the old connection and start counting.
\* lost: called by run(), after loop() has failed and onDisconnected().
StartConnect_KeepsCount(lost) ==
    /\ pc' = "connect"
    /\ connected' = FALSE /\ reachedLimit' = FALSE
    /\ IF Linked THEN EndLink("closed", ~lost) /\ mqConnected' = FALSE
                 ELSE UNCHANGED <<mqConnected, net, broker>>
    /\ UNCHANGED <<connectCount, needPubState, failedConnect, due, pongPending>>
StartConnect_KeepsConnected(lost) ==
    LET fresh == ~NonBlocking \/ connectCount = 0
    IN /\ pc' = "connect"
       /\ connected' = (connected /\ ~lost)
       /\ reachedLimit' = (reachedLimit /\ ~fresh)
       /\ connectCount' = IF NonBlocking THEN connectCount ELSE 0
       /\ IF Linked /\ (lost \/ fresh) THEN EndLink("closed", ~lost) /\ mqConnected' = FALSE
                                       ELSE UNCHANGED <<mqConnected, net, broker>>
       /\ UNCHANGED <<needPubState, failedConnect, due, pongPending>>
StartConnect(lost) ==
    LET fresh == ~NonBlocking \/ connectCount = 0
    IN /\ pc' = "connect"
       /\ connected' = (connected /\ ~fresh /\ ~lost)
       /\ reachedLimit' = (reachedLimit /\ ~fresh)
       /\ connectCount' = IF NonBlocking THEN connectCount ELSE 0
       /\ IF Linked /\ (lost \/ fresh) THEN EndLink("closed", ~lost) /\ mqConnected' = FALSE
                                       ELSE UNCHANGED <<mqConnected, net, broker>>
       /\ UNCHANGED <<needPubState, failedConnect, due, pongPending>>

\* One more connection attempt has failed.
AttemptFailed(network) ==
    LET limit == connectCount + 1 >= Limit
    IN /\ wait' = "none"
       /\ pc' = IF limit \/ NonBlocking THEN "idle" ELSE "backoff"
       /\ connectCount' = IF limit /\ NonBlocking THEN 0 ELSE connectCount + 1
       /\ reachedLimit' = (reachedLimit \/ limit)
       /\ failedConnect' = network
       /\ UNCHANGED <<connected, needPubState>>

\* The step of connect() or run() after the one whose call returned ok.
Following(ok) ==
    CASE pc = "connect" -> "sub1"
      [] pc = "sub1" -> "sub2"
      [] pc = "sub2" -> "online"
      [] pc = "online" -> IF ok THEN "settle" ELSE "idle"
      [] pc = "ask" -> IF ok THEN "sublwt" ELSE "idle"
      [] OTHER -> "run"

\* What a step does when its call has returned: a session is counted as
\* connected (onConnected) after its last step only.
Continue_Early(ok) ==
    IF pc = "connect" /\ ~ok THEN AttemptFailed(FALSE)
    ELSE /\ wait' = "none"
         /\ pc' = Following(ok)
         /\ connected' = (connected \/ pc = "connect")
         /\ connectCount' = IF pc = "connect" THEN 0 ELSE connectCount
         /\ needPubState' = (needPubState /\ pc # "state")
         /\ failedConnect' = (failedConnect /\ pc # "connect")
         /\ UNCHANGED reachedLimit
Continue_Clears(ok) ==
    IF pc = "connect" /\ ~ok THEN AttemptFailed(FALSE)
    ELSE /\ wait' = "none"
         /\ pc' = Following(ok)
         /\ connected' = (connected \/ pc = "sublwt")
         /\ connectCount' = IF pc = "connect" THEN 0 ELSE connectCount
         /\ needPubState' = (needPubState /\ pc \notin {"state", "sublwt"})
         /\ failedConnect' = (failedConnect /\ pc # "connect")
         /\ UNCHANGED reachedLimit
Continue(ok) ==
    IF pc = "connect" /\ ~ok THEN AttemptFailed(FALSE)
    ELSE /\ wait' = "none"
         /\ pc' = Following(ok)
         /\ connected' = (connected \/ pc = "sublwt")
         /\ connectCount' = IF pc = "connect" THEN 0 ELSE connectCount
         /\ needPubState' = (needPubState /\ pc # "state")
         /\ failedConnect' = (failedConnect /\ pc # "connect")
         /\ UNCHANGED reachedLimit

\* subscribeTopic() and publishLWT(): lock, connected(), the call of lwmqtt.
Request(p, ack) ==
    /\ wait = "none" /\ ~ApiLocked
    /\ IF ~Linked THEN Continue(FALSE) /\ UNCHANGED <<due, up, unacked>>
       ELSE /\ Send(p)
            /\ IF ack = "PUBACK" /\ SkipAck THEN Continue(TRUE)
               ELSE wait' = ack /\ UNCHANGED <<pc, session>>
    /\ UNCHANGED <<mqConnected, pongPending, api, link, down, broker, fails>>

\* publishData() in the main task; the mutex is not recursive.  A call that
\* finds it taken by the api task waits for it.
PublishData_NoCheck ==
    CASE Locked -> pc' = "stuck" /\ UNCHANGED <<wait, due, up, unacked>>
      [] ~Locked /\ ApiLocked -> pc' = "call" /\ UNCHANGED <<wait, due, up, unacked>>
      [] ~Locked /\ ~ApiLocked /\ ~Linked -> UNCHANGED <<pc, wait, due, up, unacked>>
      [] OTHER -> /\ Send("DATA")
                  /\ IF SkipAck THEN UNCHANGED <<pc, wait>>
                                ELSE pc' = "app" /\ wait' = "PUBACK"
PublishData ==
    CASE ~connected -> UNCHANGED <<pc, wait, due, up, unacked>>
      [] connected /\ Locked -> pc' = "stuck" /\ UNCHANGED <<wait, due, up, unacked>>
      [] connected /\ ~Locked /\ ApiLocked -> pc' = "call" /\ UNCHANGED <<wait, due, up, unacked>>
      [] connected /\ ~Locked /\ ~ApiLocked /\ ~Linked -> UNCHANGED <<pc, wait, due, up, unacked>>
      [] OTHER -> /\ Send("DATA")
                  /\ IF SkipAck THEN UNCHANGED <<pc, wait>>
                                ELSE pc' = "app" /\ wait' = "PUBACK"

\* lwmqtt_cycle_once() on a packet nobody waits for: the message callback.
\* processState() takes note of "offline", a handler of the application may
\* publish.  A message is acknowledged, which restarts the keep alive timer.
Handle(p) ==
    /\ needPubState' = (needPubState \/ p = "OL0")
    /\ pongPending' = (pongPending /\ p # "PINGRESP")
    /\ \/ p = "CMD" /\ HandlerPublishes /\ Len(up) < QMax /\ PublishData
       \/ /\ due' = (due /\ p \notin {"CMD", "OL0", "OL1"})
          /\ UNCHANGED <<pc, wait, up, unacked>>
    /\ UNCHANGED <<connected, reachedLimit, connectCount, failedConnect, mqConnected>>
----------------------------------------------------------------------------
(* the main task                                                           *)

\* connect(), from the state machine of the board.  connectNonBlocking()
\* returns at once until 5 seconds have passed: that is a delay here.
Connect == /\ pc = "idle"
           /\ StartConnect(FALSE)
           /\ UNCHANGED <<wait, api, fails>>

\* MQTTClient::connect(): no connection, or the CONNECT packet is sent.
Refused == /\ pc = "connect" /\ wait = "none" /\ Fail
           /\ AttemptFailed(TRUE)
           /\ UNCHANGED <<client, api, net, broker>>

Open == /\ pc = "connect" /\ wait = "none"
        /\ wait' = "CONNACK"
        /\ link' = "up" /\ up' = <<"CONNECT">> /\ down' = <<>> /\ unacked' = FALSE
        /\ due' = FALSE /\ pongPending' = FALSE
        /\ UNCHANGED <<pc, session, mqConnected, api, broker, fails>>

\* delays(5000) of connectBlocking() and what follows.
Backoff == /\ pc = "backoff"
           /\ pc' = IF failedConnect THEN "idle" ELSE "connect"
           /\ reachedLimit' = (reachedLimit \/ failedConnect)
           /\ UNCHANGED <<wait, connected, needPubState, connectCount, failedConnect,
                          client, api, net, broker, fails>>

SubscribeTopics == pc \in {"sub1", "sub2"} /\ Request("SUB", "SUBACK")
PublishOnline == pc = "online" /\ Request("ONLINE", "PUBACK")
PublishAsk == pc = "ask" /\ Request("ASK", "PUBACK")
SubscribeLWT == pc = "sublwt" /\ Request("SUBLWT", "SUBACK")

\* delays(500)
Settle == /\ pc = "settle"
          /\ pc' = IF AskConfig THEN "ask" ELSE "sublwt"
          /\ UNCHANGED <<wait, session, client, api, net, broker, fails>>

\* The wait for an acknowledgement: it arrives (matched by its type), another
\* packet does, or the wait ends with an error and closes the connection.  The
\* api task may have read the CONNACK: then no failure of the link is needed.
Acknowledged ==
    /\ wait # "none" /\ link = "up" /\ down # <<>> /\ Head(down) = wait
    /\ pc # "stuck"
    /\ down' = Tail(down)
    /\ mqConnected' = (mqConnected \/ pc = "connect")
    /\ Continue(TRUE)
    /\ UNCHANGED <<due, pongPending, api, link, unacked, up, broker, fails>>

Deliver ==
    /\ wait # "none" /\ link = "up" /\ down # <<>> /\ Head(down) \notin {wait, "DENIED"}
    /\ pc # "stuck"
    /\ down' = Tail(down)
    /\ Handle(Head(down))
    /\ UNCHANGED <<api, link, broker, fails>>

WaitFails ==
    /\ wait # "none" /\ pc # "stuck"
    /\ \/ link # "up" /\ fails' = fails
       \/ link = "up" /\ down # <<>> /\ Head(down) = "DENIED" /\ fails' = fails
       \/ link = "up" /\ Fail
       \/ link = "up" /\ wait = "CONNACK" /\ Astray
    /\ Close
    /\ Continue(FALSE)
    /\ UNCHANGED <<due, pongPending, api>>

\* run(): MQTTClient::loop() reads, then keeps the connection alive; then the
\* presence is repeated if needed.  Without a connection, connect().
LoopRead ==
    /\ pc = "run" /\ link = "up" /\ down # <<>>
    /\ down' = Tail(down)
    /\ Handle(Head(down))
    /\ UNCHANGED <<api, link, broker, fails>>

LoopPing_Never == pc = "run" /\ FALSE /\ UNCHANGED state
LoopPing ==
    /\ pc = "run" /\ Linked /\ due /\ ~pongPending
    /\ Send("PINGREQ") /\ pongPending' = TRUE
    /\ UNCHANGED <<pc, wait, session, mqConnected, api, link, down, broker, fails>>

LoopPongTimeout ==
    /\ pc = "run" /\ Linked /\ due /\ pongPending
    /\ StartConnect(TRUE)
    /\ UNCHANGED <<wait, api, fails>>

\* Both tasks read, and the packet that loop() puts together is none.
LoopCollides ==
    /\ pc = "run" /\ Linked /\ api = "wait" /\ Fail
    /\ StartConnect(TRUE)
    /\ UNCHANGED <<wait, api>>

LoopLost ==
    /\ pc = "run" /\ ~Linked
    /\ StartConnect(FALSE)
    /\ UNCHANGED <<wait, api, fails>>

LoopState ==
    /\ pc = "run" /\ Linked /\ needPubState
    /\ pc' = "state"
    /\ UNCHANGED <<wait, session, client, api, net, broker, fails>>

PublishState == pc = "state" /\ Request("ONLINE", "PUBACK")

\* Application code between two runs, or called by delays().
App == /\ pc \in {"backoff", "settle", "run"} /\ Len(up) < QMax
       /\ PublishData
       /\ UNCHANGED <<session, mqConnected, pongPending, api, link, down, broker, fails>>

\* disconnect(), by the user or to change the transport.
Disconnect ==
    /\ pc = "run" /\ Linked /\ Fail
    /\ EndLink("closed", TRUE) /\ mqConnected' = FALSE
    /\ pc' \in {"run", "idle"}
    /\ UNCHANGED <<wait, session, due, pongPending, api>>
----------------------------------------------------------------------------
(* publishData() in the api task: _connected is read before the mutex, and *)
(* with acknowledgements the mutex is held until the PUBACK is there       *)

ApiCheck == /\ ApiTask /\ api = "idle" /\ connected
            /\ api' = "checked"
            /\ UNCHANGED <<pc, wait, session, client, net, broker, fails>>

ApiPublish ==
    /\ api = "checked" /\ ~Locked /\ Len(up) < QMax
    /\ IF Linked THEN Send("DATA") ELSE UNCHANGED <<due, up, unacked>>
    /\ api' = IF Linked /\ ~SkipAck THEN "wait" ELSE "idle"
    /\ UNCHANGED <<pc, wait, session, mqConnected, pongPending, link, down, broker, fails>>

ApiAcknowledged ==
    /\ api = "wait" /\ link = "up" /\ down # <<>> /\ Head(down) = "PUBACK"
    /\ down' = Tail(down)
    /\ api' = "idle"
    /\ UNCHANGED <<pc, wait, session, client, link, unacked, up, broker, fails>>

\* The message callback in the api task; a handler that publishes waits for
\* the mutex that its own task holds.
ApiDeliver ==
    /\ api = "wait" /\ link = "up" /\ down # <<>> /\ Head(down) # "PUBACK"
    /\ down' = Tail(down)
    /\ api' = IF Head(down) = "CMD" /\ HandlerPublishes /\ connected THEN "stuck" ELSE "wait"
    /\ needPubState' = (needPubState \/ Head(down) = "OL0")
    /\ pongPending' = (pongPending /\ Head(down) # "PINGRESP")
    /\ due' = (due /\ Head(down) \notin {"CMD", "OL0", "OL1"})
    /\ UNCHANGED <<pc, wait, connected, reachedLimit, connectCount, failedConnect, mqConnected,
                   link, unacked, up, broker, fails>>

\* The wait of the api task ends with an error, on a working link too: the main
\* task may have read its PUBACK.  It closes the connection, a new one as well.
ApiWaitFails ==
    /\ api = "wait"
    /\ \/ link # "up" /\ fails' = fails
       \/ link = "up" /\ (Fail \/ Astray)
    /\ Close
    /\ api' = "idle"
    /\ UNCHANGED <<pc, wait, session, due, pongPending>>

\* A call of the main task that waited for the api task to release the mutex.
Called ==
    /\ pc = "call" /\ ~ApiLocked
    /\ IF Linked THEN Send("DATA") ELSE UNCHANGED <<due, up, unacked>>
    /\ IF Linked /\ ~SkipAck THEN pc' = "app" /\ wait' = "PUBACK"
                            ELSE pc' = "run" /\ UNCHANGED wait
    /\ UNCHANGED <<session, mqConnected, pongPending, api, link, down, broker, fails>>
----------------------------------------------------------------------------
Init == /\ config \in Configs
        /\ pc = "idle" /\ wait = "none"
        /\ connected = FALSE /\ needPubState = FALSE /\ reachedLimit = FALSE
        /\ connectCount = 0 /\ failedConnect = FALSE
        /\ mqConnected = FALSE /\ due = FALSE /\ pongPending = FALSE
        /\ api = "idle"
        /\ link = "closed" /\ unacked = FALSE /\ up = <<>> /\ down = <<>>
        /\ broker = [session |-> NoSession, wills |-> 0, retained |-> "none"]
        /\ fails = 0

Establish == \/ Connect \/ Refused \/ Open \/ Backoff \/ SubscribeTopics
             \/ PublishOnline \/ Settle \/ PublishAsk \/ SubscribeLWT
Await == Acknowledged \/ Deliver \/ WaitFails
Run == \/ LoopRead \/ LoopPing \/ LoopPongTimeout \/ LoopCollides \/ LoopLost
       \/ LoopState \/ PublishState
Environment == \/ FireWill \/ BrokerReceive \/ BrokerDeny \/ BrokerCommand
               \/ Drop \/ Stall \/ TcpGiveUp \/ TimePasses
Api == ApiCheck \/ ApiPublish \/ ApiAcknowledged \/ ApiDeliver \/ ApiWaitFails
Application == App \/ Called \/ Disconnect \/ Api

Next == /\ Establish \/ Await \/ Run \/ Environment \/ Application
        /\ UNCHANGED config

Spec == Init /\ [][Next]_vars

\* The main task keeps running, the broker answers and publishes its wills,
\* TCP gives up on a dead connection, time passes.
Fairness == /\ WF_state(Establish) /\ WF_state(Acknowledged \/ Deliver \/ WaitFails)
            /\ WF_state(LoopRead) /\ WF_state(LoopPing \/ LoopPongTimeout)
            /\ WF_state(LoopLost) /\ SF_state(LoopState) /\ WF_state(PublishState)
            /\ WF_state(FireWill) /\ WF_state(BrokerReceive)
            /\ WF_state(TcpGiveUp) /\ WF_state(TimePasses)

FairSpec == Spec /\ Fairness
----------------------------------------------------------------------------
TypeOK ==
    /\ config \in Configs
    /\ pc \in Steps /\ wait \in Acks \cup {"none"}
    /\ {connected, needPubState, reachedLimit, failedConnect, mqConnected, due,
        pongPending, unacked} \subseteq BOOLEAN
    /\ connectCount \in 0..Limit
    /\ api \in {"idle", "checked", "wait", "stuck"}
    /\ link \in {"closed", "up", "dead"}
    /\ up \in Seq(UpTypes) /\ down \in Seq(DownTypes)
    /\ broker \in [session : [open : BOOLEAN, cmd : BOOLEAN, lwt : BOOLEAN, announced : BOOLEAN],
                   wills : Nat, retained : {"none", "OL0", "OL1"}]
    /\ fails \in 0..MaxFail

\* No task waits for the mutex it already holds: a handler called while
\* subscribeTopic(), publishLWT() or publishData() waits for an acknowledgement
\* may publish, and publishData() takes the same mutex (ERaMqtt.hpp:606-628).
NoSelfDeadlock == pc # "stuck" /\ api # "stuck"

\* The session is up and its broker shows the board as offline, which a will
\* of an earlier session causes at any time: then the correction is under way,
\* as a message to the board, a flag in it or a publish on its way back.
NoMissedOffline ==
    (pc \in {"run", "state", "app", "call"} /\ link = "up" /\ broker.retained = "OL0")
        => Holds(up, "ONLINE") \/ Holds(down, "OL0") \/ needPubState

\* A board that calls itself connected has told this session's broker so.
AnnouncedWhenConnected ==
    (connected /\ Linked /\ link = "up")
        => broker.session.announced \/ Holds(up, "ONLINE")

\* publishData() tests _connected before it waits for the mutex: of the api
\* task's data at most the one call that was waiting gets into a new session
\* before its "online".
AtMostOneStale ==
    ~broker.session.announced
        => \A i, j \in DOMAIN up :
              (i < j /\ up[i] = "DATA" /\ up[j] = "DATA")
                  => \E k \in 1..(j - 1) : up[k] = "ONLINE"

\* Once failures stop, the session is established for good and the broker
\* shows the board as online, whatever late wills it still had to publish: in
\* every configuration but that of an api task that waits for acknowledgements,
\* which loop() may read in its place, each time.
Heals == (ApiTask => SkipAck) => <>[](connected /\ Linked /\ link = "up" /\ broker.retained = "OL1")
=============================================================================
