--------------------------- MODULE ERaMqttProofs ---------------------------
(***************************************************************************)
(* Proofs about ERaMqtt for every limit, bound and number of failures: who *)
(* may wait for the mutex, what being connected implies, types, what of    *)
(* the api task's data gets into a session before its "online", and why a  *)
(* late "offline" is always corrected.                                     *)
(***************************************************************************)
EXTENDS ERaMqtt, SequenceTheorems, TLAPS

\* Where the main task may be while it waits for a packet: the mutex is held
\* for a SUBACK only inside connect(), for a PUBACK only when publishes are
\* acknowledged, and by one task only.
WaitInv ==
    /\ wait = "CONNACK" => pc = "connect"
    /\ wait = "SUBACK" => pc \in {"sub1", "sub2", "sublwt"}
    /\ wait = "PUBACK" => ~SkipAck /\ pc \in {"online", "ask", "state", "app", "stuck"}
    /\ wait \in {"none", "CONNACK", "SUBACK", "PUBACK"}
    /\ pc = "call" => wait = "none"
    /\ ApiLocked => ~SkipAck /\ ~Locked

\* A connected session is never in the middle of connect(), and connect() of
\* a connected session starts a new series of attempts.
ConnInv ==
    /\ connected => pc \in {"idle", "run", "state", "app", "call", "stuck"}
    /\ pc \in {"sub1", "sub2", "online", "settle", "ask", "sublwt"} => connectCount = 0
    /\ connected => connectCount = 0

\* The condition that freedom from deadlock needs: publishes are not
\* acknowledged, or handlers do not publish.
SafeConfig == SkipAck \/ ~HandlerPublishes

DeadlockInv == /\ config \in Configs
               /\ WaitInv /\ ConnInv
               /\ SafeConfig => pc # "stuck" /\ api # "stuck"

USE LimitAssumption

\* The configuration is chosen once.
LEMMA ConfigKept ==
    ASSUME [Next]_vars
    PROVE  /\ config' = config
           /\ SkipAck' = SkipAck /\ NonBlocking' = NonBlocking
           /\ HandlerPublishes' = HandlerPublishes /\ SafeConfig' = SafeConfig
BY DEF Next, vars, SkipAck, NonBlocking, HandlerPublishes, SafeConfig

\* DeadlockInv holds initially.
LEMMA InitDeadlockInv == Init => DeadlockInv
BY DEF Init, DeadlockInv, WaitInv, ConnInv, ApiLocked

\* Every step keeps DeadlockInv.
LEMMA NextDeadlockInv ==
    ASSUME DeadlockInv, [Next]_vars
    PROVE  DeadlockInv'
<1> USE DEF DeadlockInv, WaitInv, ConnInv, Locked, ApiLocked
<1>0. config' = config /\ SkipAck' = SkipAck /\ SafeConfig' = SafeConfig
  BY ConfigKept
<1> USE <1>0
<1>a. ASSUME NEW lost, StartConnect(lost), UNCHANGED <<wait, api>>, pc \in {"idle", "run"}
      PROVE  DeadlockInv'
  <2>1. /\ pc' = "connect" /\ wait' \notin {"SUBACK", "PUBACK"}
        /\ wait' \in {"none", "CONNACK", "SUBACK", "PUBACK"}
    BY <1>a DEF StartConnect
  <2>2. ~connected'
    BY <1>a DEF StartConnect
  <2> QED BY <1>a, <2>1, <2>2
<1>1. CASE Connect
  BY <1>1, <1>a DEF Connect
<1>2. CASE Refused
  BY <1>2 DEF Refused, AttemptFailed
<1>3. CASE Open
  BY <1>3 DEF Open, session
<1>4. CASE Backoff
  BY <1>4 DEF Backoff
<1>5. ASSUME NEW p, NEW ack, Request(p, ack),
             \/ pc \in {"sub1", "sub2", "sublwt"} /\ ack = "SUBACK"
             \/ pc \in {"online", "ask", "state"} /\ ack = "PUBACK"
      PROVE  DeadlockInv'
  <2>1. CASE ~Linked
    BY <1>5, <2>1 DEF Request, Continue, Following
  <2>2. CASE Linked /\ ack = "PUBACK" /\ SkipAck
    BY <1>5, <2>2 DEF Request, Continue, Following
  <2>3. CASE Linked /\ ~(ack = "PUBACK" /\ SkipAck)
    <3>1. wait' = ack /\ UNCHANGED <<pc, session>>
      BY <1>5, <2>3 DEF Request
    <3>2. ~ApiLocked /\ api' = api
      BY <1>5 DEF Request
    <3> QED BY <1>5, <2>3, <3>1, <3>2 DEF session
  <2> QED BY <2>1, <2>2, <2>3
<1>6. CASE SubscribeTopics \/ PublishOnline \/ PublishAsk \/ SubscribeLWT \/ PublishState
  BY <1>5, <1>6 DEF SubscribeTopics, PublishOnline, PublishAsk, SubscribeLWT, PublishState
<1>7. CASE Settle
  BY <1>7 DEF Settle, session
<1>8. CASE Acknowledged
  <2>1. /\ Continue(TRUE) /\ api' = api /\ wait # "none" /\ pc # "stuck" /\ wait' = "none"
    BY <1>8 DEF Acknowledged, Continue
  <2> QED BY <2>1 DEF Continue, Following
<1>9. CASE WaitFails
  <2>1. CASE pc = "connect"
    BY <1>9, <2>1 DEF WaitFails, Continue, AttemptFailed
  <2>2. CASE pc # "connect"
    BY <1>9, <2>2 DEF WaitFails, Continue, Following
  <2> QED BY <2>1, <2>2
<1>10. ASSUME NEW p, Handle(p), api' = api, wait # "none" \/ pc = "run"
       PROVE  DeadlockInv'
  <2>1. CASE UNCHANGED <<pc, wait>>
    BY <1>10, <2>1 DEF Handle
  <2>2. CASE HandlerPublishes /\ PublishData /\ ~UNCHANGED <<pc, wait>>
    <3>1. CASE connected /\ Locked
      BY <1>10, <2>2, <3>1 DEF Handle, PublishData, Locked, SafeConfig
    <3>3. CASE ~Locked /\ ApiLocked
      <4>1. pc' = "call" /\ wait' = wait /\ connected
        BY <2>2, <3>3 DEF PublishData
      <4>2. wait = "none"
        BY <1>10, <3>3, <4>1
      <4>3. UNCHANGED <<connected, connectCount>>
        BY <1>10 DEF Handle
      <4> QED BY <1>10, <3>3, <4>1, <4>2, <4>3
    <3>2. CASE ~Locked /\ ~ApiLocked
      <4>1. pc' = "app" /\ wait' = "PUBACK" /\ ~SkipAck /\ wait = "none"
        BY <1>10, <2>2, <3>2 DEF PublishData
      <4>2. ~SkipAck' /\ config' \in Configs
        BY <4>1
      <4>3. UNCHANGED <<connected, connectCount>> /\ (connected => connectCount = 0)
        BY <1>10 DEF Handle
      <4> QED BY <1>10, <3>2, <4>1, <4>2, <4>3
    <3> QED BY <2>2, <3>1, <3>2, <3>3 DEF PublishData
  <2> QED BY <1>10, <2>1, <2>2 DEF Handle
<1>11. CASE Deliver \/ LoopRead
  BY <1>10, <1>11 DEF Deliver, LoopRead
<1>12. CASE LoopPongTimeout \/ LoopCollides \/ LoopLost
  BY <1>12, <1>a DEF LoopPongTimeout, LoopCollides, LoopLost
<1>13. CASE LoopPing \/ LoopState \/ Disconnect
  <2>1. CASE LoopPing
    BY <2>1 DEF LoopPing, session
  <2>2. CASE LoopState
    BY <2>2 DEF LoopState, session
  <2>3. CASE Disconnect
    BY <2>3 DEF Disconnect, session
  <2> QED BY <1>13, <2>1, <2>2, <2>3
<1>14. CASE App
  BY <1>14 DEF App, PublishData, Locked, session
<1>15. CASE ApiCheck \/ ApiPublish \/ ApiAcknowledged \/ ApiWaitFails
  BY <1>15 DEF ApiCheck, ApiPublish, ApiAcknowledged, ApiWaitFails, session
<1>18. CASE ApiDeliver
  BY <1>18 DEF ApiDeliver, SafeConfig
<1>19. CASE Called
  BY <1>19 DEF Called, session
<1>16. CASE Environment
  <2>1. UNCHANGED <<pc, wait, session, api>>
    BY <1>16 DEF Environment, FireWill, BrokerReceive, BrokerDeny, BrokerCommand, Drop, Stall,
                 TcpGiveUp, TimePasses
  <2> QED BY <2>1 DEF session
<1>17. CASE UNCHANGED vars
  BY <1>17 DEF vars, state, session
<1> QED
  BY <1>1, <1>2, <1>3, <1>4, <1>6, <1>7, <1>8, <1>9, <1>11, <1>12, <1>13, <1>14,
     <1>15, <1>16, <1>17, <1>18, <1>19 DEF Next, Establish, Await, Run, Application, Api

\* NoSelfDeadlock for every limit and bound: neither task waits for the mutex
\* it holds if publishes are not acknowledged or handlers do not publish.
THEOREM MqttNoSelfDeadlock ==
    ASSUME \A c \in Configs : c.skipAck \/ ~c.handlerPublishes
    PROVE  Spec => []NoSelfDeadlock
<1>1. DeadlockInv /\ [Next]_vars => DeadlockInv'
  BY NextDeadlockInv
<1>2. DeadlockInv => NoSelfDeadlock
  BY DEF DeadlockInv, NoSelfDeadlock, SafeConfig, SkipAck, HandlerPublishes
<1> QED BY InitDeadlockInv, <1>1, <1>2, PTL DEF Spec
----------------------------------------------------------------------------
\* The broker of the session is told that the board is online, or is about to be.
Told == broker.session.announced \/ Holds(up, "ONLINE")

\* connect() has published "online" and has not failed since.
Past == \/ pc \in {"settle", "ask", "sublwt", "run", "state", "app", "call", "stuck"}
        \/ pc = "online" /\ wait = "PUBACK"

Broker == [session : [open : BOOLEAN, cmd : BOOLEAN, lwt : BOOLEAN, announced : BOOLEAN],
           wills : Nat, retained : {"none", "OL0", "OL1"}]

NetType == up \in Seq(UpTypes) /\ down \in Seq(DownTypes) /\ broker \in Broker

\* CONNECT is the first packet of its connection, and until the broker has
\* received it the board waits for a CONNACK that nobody has sent.
ConnectFirst ==
    \A i \in DOMAIN up : up[i] = "CONNECT" =>
        i = 1 /\ wait = "CONNACK" /\ ~Holds(down, "CONNACK")

ToldInv == /\ NetType
           /\ ConnectFirst
           /\ link = "up" /\ Past => Told
           /\ connected /\ pc = "idle" => link = "closed"

\* Appending to a sequence keeps what it holds and adds the new element.
LEMMA HoldsAppend ==
    ASSUME NEW S, NEW s \in Seq(S), NEW p \in S, NEW x
    PROVE  /\ Append(s, p) \in Seq(S)
           /\ Holds(Append(s, p), x) <=> Holds(s, x) \/ p = x
<1>1. /\ Append(s, p) \in Seq(S)
      /\ DOMAIN Append(s, p) = DOMAIN s \cup {Len(s) + 1}
      /\ \A i \in DOMAIN s : Append(s, p)[i] = s[i]
      /\ Append(s, p)[Len(s) + 1] = p
  OBVIOUS
<1> QED BY <1>1, Zenon DEF Holds, Members

\* Taking the first element away loses it and nothing else.
LEMMA HoldsTail ==
    ASSUME NEW S, NEW s \in Seq(S), s # <<>>, NEW x
    PROVE  /\ Tail(s) \in Seq(S)
           /\ Head(s) \in S
           /\ Holds(s, x) <=> Head(s) = x \/ Holds(Tail(s), x)
<1>1. Tail(s) \in Seq(S) /\ Head(s) \in S
  OBVIOUS
<1>2. ASSUME NEW i \in DOMAIN s, s[i] = x, Head(s) # x
      PROVE  Holds(Tail(s), x)
  <2>1. i # 1
    BY <1>2
  <2>2. i - 1 \in DOMAIN Tail(s) /\ Tail(s)[i - 1] = x
    BY <1>2, <2>1
  <2> QED BY <2>2 DEF Holds, Members
<1>3. ASSUME NEW i \in DOMAIN Tail(s), Tail(s)[i] = x
      PROVE  Holds(s, x)
  <2>1. i + 1 \in DOMAIN s /\ s[i + 1] = x
    BY <1>3
  <2> QED BY <2>1 DEF Holds, Members
<1>4. Head(s) = x => Holds(s, x)
  <2>1. 1 \in DOMAIN s /\ s[1] = Head(s)
    OBVIOUS
  <2> QED BY <2>1 DEF Holds, Members
<1> QED BY <1>1, <1>2, <1>3, <1>4 DEF Holds, Members

\* Ending a connection keeps the types, loses CONNECT and leaves state l.
LEMMA EndLinkTypes ==
    ASSUME NetType, NEW l, NEW clean, EndLink(l, clean)
    PROVE  NetType' /\ link' = l /\ ConnectFirst'
<1>1. <<>> \in Seq(UpTypes) /\ <<>> \in Seq(DownTypes)
  OBVIOUS
<1>2. ASSUME NEW b \in Ended(clean)
      PROVE  b \in Broker
  <2>1. PICK w \in {0, 1} : b = [broker EXCEPT !.session = NoSession, !.wills = @ + w]
    BY <1>2 DEF Ended
  <2>2. broker.wills \in Nat /\ broker.wills + w \in Nat /\ broker.wills + 0 \in Nat
    BY <2>1 DEF NetType, Broker
  <2> QED BY <2>1, <2>2 DEF NetType, Broker, NoSession
<1> QED BY <1>1, <1>2 DEF EndLink, NetType, ConnectFirst

\* ToldInv holds initially.
LEMMA InitToldInv == Init => ToldInv
BY DEF Init, ToldInv, NetType, Broker, Past, Told, NoSession, ConnectFirst

\* Sending a packet other than CONNECT keeps the types, the place of CONNECT
\* and what the broker is told.
LEMMA SendTold ==
    ASSUME NetType, ConnectFirst, NEW p \in UpTypes, p # "CONNECT", Send(p),
           UNCHANGED <<link, down, broker>>, wait = "CONNACK" => wait' = "CONNACK"
    PROVE  /\ NetType' /\ ConnectFirst'
           /\ Told => Told'
           /\ p = "ONLINE" /\ link = "up" => Told'
<1>1. NetType' /\ (Told => Told') /\ (p = "ONLINE" /\ link = "up" => Told')
  BY HoldsAppend DEF NetType, Told, Send
<1>2. ConnectFirst'
  <2>1. up' = up \/ up' = Append(up, p)
    BY DEF Send
  <2> QED BY <2>1 DEF ConnectFirst, NetType
<1> QED BY <1>1, <1>2

\* A packet taken from the queue to the board keeps ConnectFirst, if the wait
\* for a CONNACK goes on or the packet was the CONNACK.
LEMMA ReadKeeps ==
    ASSUME NetType, ConnectFirst, down # <<>>, down' = Tail(down), UNCHANGED <<up, broker>>,
           wait = "CONNACK" => wait' = "CONNACK" \/ Head(down) = "CONNACK"
    PROVE  NetType' /\ ConnectFirst' /\ (Told => Told')
<1>1. /\ Tail(down) \in Seq(DownTypes)
      /\ Holds(down, "CONNACK") <=> Head(down) = "CONNACK" \/ Holds(Tail(down), "CONNACK")
  BY HoldsTail DEF NetType
<1> QED BY <1>1 DEF NetType, ConnectFirst, Told

\* The answers of the broker are packets for the board.
LEMMA AnswerTypes ==
    ASSUME NetType, NEW p \in UpTypes, NEW a \in Answer(p)
    PROVE  a \in Seq(DownTypes)
<1> DEFINE ack == IF SkipAck THEN <<>> ELSE <<"PUBACK">>
           own == IF p # "DATA" /\ broker.session.lwt THEN <<"OL1">> ELSE <<>>
<1>0. ASSUME NEW d \in DownTypes PROVE <<d>> \in Seq(DownTypes)
  OBVIOUS
<1>1. /\ <<"CONNACK">> \in Seq(DownTypes) /\ <<"SUBACK">> \in Seq(DownTypes)
      /\ <<"PINGRESP">> \in Seq(DownTypes)
      /\ ack \in Seq(DownTypes) /\ own \in Seq(DownTypes)
  <2>1. /\ <<"CONNACK">> \in Seq(DownTypes) /\ <<"SUBACK">> \in Seq(DownTypes)
        /\ <<"PINGRESP">> \in Seq(DownTypes) /\ <<"PUBACK">> \in Seq(DownTypes)
        /\ <<"OL1">> \in Seq(DownTypes)
    BY <1>0 DEF DownTypes, Acks
  <2>2. <<>> \in Seq(DownTypes)
    OBVIOUS
  <2> QED BY <2>1, <2>2
<1>2. broker.retained # "none" =>
        /\ <<"SUBACK", broker.retained>> \in Seq(DownTypes)
        /\ <<broker.retained, "SUBACK">> \in Seq(DownTypes)
  BY DEF DownTypes, Acks, NetType, Broker
<1>3. ack \o own \in Seq(DownTypes) /\ own \o ack \in Seq(DownTypes)
  BY <1>1
<1> HIDE DEF ack, own
<1>4. CASE p = "CONNECT"
  BY <1>1, <1>4 DEF Answer
<1>5. CASE p = "SUB" \/ p = "PINGREQ"
  BY <1>1, <1>5 DEF Answer
<1>6. CASE p = "SUBLWT"
  BY <1>1, <1>2, <1>6 DEF Answer
<1>7. CASE p \notin {"CONNECT", "SUB", "PINGREQ", "SUBLWT"}
  <2>1. a \in {ack \o own, own \o ack}
    BY <1>7 DEF Answer, ack, own
  <2> QED BY <2>1, <1>3
<1> QED BY <1>4, <1>5, <1>6, <1>7

\* Every step keeps ToldInv.
LEMMA NextToldInv ==
    ASSUME ToldInv, DeadlockInv, [Next]_vars
    PROVE  ToldInv'
<1> USE DEF ToldInv
<1>0. /\ wait = "CONNACK" => pc = "connect"
      /\ wait = "SUBACK" => pc \in {"sub1", "sub2", "sublwt"}
      /\ wait = "PUBACK" => pc \in {"online", "ask", "state", "app", "stuck"}
      /\ wait \in {"none", "CONNACK", "SUBACK", "PUBACK"}
      /\ connected => pc \in {"idle", "run", "state", "app", "call", "stuck"}
      /\ connected => connectCount = 0
  BY DEF DeadlockInv, WaitInv, ConnInv
<1>a. ASSUME UNCHANGED <<up, down, broker>>, wait = "CONNACK" => wait' = "CONNACK"
      PROVE  NetType' /\ ConnectFirst' /\ (Told => Told')
  BY <1>a DEF NetType, Told, ConnectFirst
<1>b. ASSUME NEW lost, StartConnect(lost), UNCHANGED wait PROVE ToldInv'
  <2>1. NetType' /\ ConnectFirst'
    BY <1>b, <1>a, EndLinkTypes DEF StartConnect, net
  <2> QED BY <1>b, <2>1, <1>0 DEF StartConnect, Past
<1>1. CASE Connect \/ LoopPongTimeout \/ LoopCollides \/ LoopLost
  BY <1>b, <1>1 DEF Connect, LoopPongTimeout, LoopCollides, LoopLost
<1>2. CASE Refused
  BY <1>2, <1>a, <1>0 DEF Refused, AttemptFailed, Past, net
<1>3. CASE Open
  <2>1. <<"CONNECT">> \in Seq(UpTypes) /\ <<>> \in Seq(DownTypes)
    BY DEF UpTypes
  <2>2. ConnectFirst'
    BY <1>3 DEF Open, ConnectFirst, Holds, Members
  <2> QED BY <1>3, <2>1, <2>2, <1>0 DEF Open, NetType, Past, session
<1>4. CASE Backoff
  BY <1>4, <1>a, <1>0 DEF Backoff, Past, net
<1>5. ASSUME NEW p \in UpTypes, p # "CONNECT", NEW ack, Request(p, ack),
             \/ pc \in {"sub1", "sub2", "sublwt"} /\ ack = "SUBACK"
             \/ pc \in {"online", "ask", "state"} /\ ack = "PUBACK",
             pc = "online" => p = "ONLINE"
      PROVE  ToldInv'
  <2>1. CASE ~Linked
    BY <1>5, <2>1, <1>a, <1>0 DEF Request, Continue, Following, Past
  <2>2. CASE Linked
    <3>1. NetType' /\ ConnectFirst' /\ (Told => Told')
          /\ (p = "ONLINE" /\ link = "up" => Told') /\ UNCHANGED link
      BY <1>5, <2>2, SendTold DEF Request
    <3>2. CASE ack = "PUBACK" /\ SkipAck
      BY <1>5, <2>2, <3>1, <3>2, <1>0 DEF Request, Continue, Following, Past
    <3>3. CASE ~(ack = "PUBACK" /\ SkipAck)
      BY <1>5, <2>2, <3>1, <3>3, <1>0 DEF Request, Past, session
    <3> QED BY <3>2, <3>3
  <2> QED BY <2>1, <2>2
<1>6. CASE SubscribeTopics \/ PublishOnline \/ PublishAsk \/ SubscribeLWT \/ PublishState
  BY <1>5, <1>6 DEF SubscribeTopics, PublishOnline, PublishAsk, SubscribeLWT, PublishState, UpTypes
<1>7. CASE Settle
  BY <1>7, <1>a DEF Settle, Past, session, net
<1>8. CASE Acknowledged
  <2>1. NetType' /\ ConnectFirst' /\ (Told => Told')
    BY <1>8, ReadKeeps DEF Acknowledged
  <2>2. link' = "up" /\ Past' => Past
    BY <1>8, <1>0 DEF Acknowledged, Continue, Following, Past
  <2>3. pc' # "idle"
    BY <1>8, <1>0 DEF Acknowledged, Continue, Following
  <2> QED BY <1>8, <2>1, <2>2, <2>3 DEF Acknowledged
<1>9. CASE WaitFails
  <2>1. NetType' /\ link' = "closed" /\ ConnectFirst'
    BY <1>9, EndLinkTypes DEF WaitFails, Close
  <2> QED BY <2>1
<1>10. ASSUME PublishData, UNCHANGED <<connected, link, broker>>, pc # "idle"
       PROVE  /\ pc' # "idle"
              /\ link' = "up" /\ Past' => link = "up" /\ Past
              /\ wait = "CONNACK" => wait' = "CONNACK"
              /\ UNCHANGED up \/ Send("DATA")
              /\ wait = "CONNACK" => UNCHANGED up
  BY <1>10, <1>0 DEF PublishData, Past
<1>11. CASE Deliver \/ LoopRead
  <2>1. /\ UNCHANGED <<connected, link, broker>> /\ pc # "idle"
        /\ down # <<>> /\ down' = Tail(down)
        /\ PublishData \/ UNCHANGED <<pc, wait, up>>
    BY <1>11, <1>0 DEF Deliver, LoopRead, Handle
  <2>2. /\ pc' # "idle" /\ (link' = "up" /\ Past' => link = "up" /\ Past)
        /\ wait = "CONNACK" => wait' = "CONNACK"
        /\ UNCHANGED up \/ Send("DATA")
    BY <2>1, <1>10 DEF Past
  <2>3. CASE UNCHANGED up
    BY <2>1, <2>2, <2>3, ReadKeeps
  <2>4. CASE Send("DATA") /\ ~UNCHANGED up
    <3>1. /\ up' = Append(up, "DATA")
          /\ up' \in Seq(UpTypes)
          /\ Holds(up, "ONLINE") => Holds(up', "ONLINE")
      BY <2>4, HoldsAppend DEF Send, NetType, UpTypes
    <3>2. /\ Tail(down) \in Seq(DownTypes)
          /\ Holds(Tail(down), "CONNACK") => Holds(down, "CONNACK")
      BY <2>1, HoldsTail DEF NetType
    <3>3. ConnectFirst'
      BY <2>1, <2>2, <3>1, <3>2 DEF ConnectFirst, NetType
    <3> QED BY <2>1, <2>2, <3>1, <3>2, <3>3 DEF NetType, Told
  <2> QED BY <2>2, <2>3, <2>4
<1>12. CASE LoopPing
  BY <1>12, SendTold DEF LoopPing, UpTypes, Past, session
<1>13. CASE LoopState
  BY <1>13, <1>a DEF LoopState, Past, session, net
<1>14. CASE Disconnect \/ Drop \/ Stall \/ TcpGiveUp \/ ApiWaitFails
  <2>1. NetType' /\ ConnectFirst' /\ link' \in {"closed", "dead"}
    BY <1>14, EndLinkTypes DEF Disconnect, Drop, Stall, TcpGiveUp, ApiWaitFails, Close
  <2>2. connected' /\ pc' = "idle" => link' = "closed"
    BY <1>14, EndLinkTypes DEF Disconnect, Drop, Stall, TcpGiveUp, ApiWaitFails, Close, session
  <2> QED BY <2>1, <2>2
<1>15. CASE App
  <2>1. /\ pc' # "idle" /\ (link' = "up" /\ Past' => link = "up" /\ Past)
        /\ wait = "CONNACK" => wait' = "CONNACK"
        /\ UNCHANGED up \/ Send("DATA")
    BY <1>15, <1>10 DEF App, session
  <2>2. NetType' /\ ConnectFirst' /\ (Told => Told')
    BY <1>15, <2>1, <1>a, SendTold DEF App, UpTypes
  <2> QED BY <2>1, <2>2
<1>16. CASE ApiCheck
  BY <1>16, <1>a DEF ApiCheck, session, net, Past
<1>17. CASE ApiPublish \/ Called
  <2>1. NetType' /\ ConnectFirst' /\ (Told => Told')
    BY <1>17, <1>a, SendTold, <1>0 DEF ApiPublish, Called, UpTypes
  <2> QED BY <1>17, <2>1 DEF ApiPublish, Called, session, Past
<1>24. CASE ApiAcknowledged \/ ApiDeliver
  <2>1. NetType' /\ ConnectFirst' /\ (Told => Told')
    BY <1>24, ReadKeeps DEF ApiAcknowledged, ApiDeliver
  <2> QED BY <1>24, <2>1 DEF ApiAcknowledged, ApiDeliver, session, Past
<1>18. CASE FireWill
  <2>1. broker' \in Broker /\ broker'.session = broker.session
    <3>1. broker.wills - 1 \in Nat
      BY <1>18 DEF FireWill, NetType, Broker
    <3> QED BY <1>18, <3>1 DEF FireWill, NetType, Broker
  <2>2. /\ down' \in Seq(DownTypes)
        /\ Holds(down', "CONNACK") => Holds(down, "CONNACK")
    BY <1>18, HoldsAppend DEF FireWill, NetType, DownTypes
  <2> QED BY <1>18, <2>1, <2>2 DEF FireWill, NetType, Told, Past, session, ConnectFirst
<1>19. CASE BrokerReceive
  <2>1. /\ Tail(up) \in Seq(UpTypes) /\ Head(up) \in UpTypes
        /\ Holds(up, "ONLINE") => Head(up) = "ONLINE" \/ Holds(Tail(up), "ONLINE")
    BY <1>19, HoldsTail DEF BrokerReceive, NetType
  <2>2. /\ Received(Head(up)) \in Broker
        /\ Head(up) = "ONLINE" => Received(Head(up)).session.announced
        /\ Head(up) # "CONNECT" /\ broker.session.announced
              => Received(Head(up)).session.announced
    BY DEF Received, NoSession, NetType, Broker
  <2>3. PICK a \in Answer(Head(up)) : down' = down \o a
    BY <1>19 DEF BrokerReceive
  <2>4. NetType'
    <3>1. a \in Seq(DownTypes)
      BY <2>1, AnswerTypes
    <3> QED BY <1>19, <2>1, <2>2, <2>3, <3>1 DEF BrokerReceive, NetType
  <2>5. ConnectFirst'
    <3>1. ASSUME NEW i \in DOMAIN Tail(up) PROVE Tail(up)[i] # "CONNECT"
      <4>1. i + 1 \in DOMAIN up /\ Tail(up)[i] = up[i + 1] /\ i + 1 # 1
        BY <1>19 DEF BrokerReceive, NetType
      <4> QED BY <4>1 DEF ConnectFirst
    <3> QED BY <1>19, <3>1 DEF BrokerReceive, ConnectFirst
  <2>6. ASSUME Past, link = "up" PROVE Told'
    <3>1. Head(up) # "CONNECT"
      <4>1. 1 \in DOMAIN up /\ up[1] = Head(up)
        BY <1>19 DEF BrokerReceive, NetType
      <4> QED BY <4>1, <2>6, <1>0 DEF ConnectFirst, Past
    <3> QED BY <1>19, <2>1, <2>2, <2>6, <3>1 DEF Told, BrokerReceive
  <2> QED BY <1>19, <2>4, <2>5, <2>6 DEF BrokerReceive, Past, session
<1>20. CASE BrokerDeny
  <2>1. /\ Tail(up) \in Seq(UpTypes)
        /\ Holds(up, "ONLINE") => Holds(Tail(up), "ONLINE")
    BY <1>20, HoldsTail DEF BrokerDeny, NetType
  <2>2. down' \in Seq(DownTypes)
    BY <1>20, HoldsAppend DEF BrokerDeny, NetType, DownTypes
  <2>3. ConnectFirst'
    <3>1. ASSUME NEW i \in DOMAIN Tail(up) PROVE Tail(up)[i] # "CONNECT"
      <4>1. i + 1 \in DOMAIN up /\ Tail(up)[i] = up[i + 1] /\ i + 1 # 1
        BY <1>20 DEF BrokerDeny, NetType
      <4> QED BY <4>1 DEF ConnectFirst
    <3> QED BY <1>20, <3>1 DEF BrokerDeny, ConnectFirst
  <2> QED BY <1>20, <2>1, <2>2, <2>3 DEF BrokerDeny, NetType, Told, Past, session
<1>21. CASE BrokerCommand
  <2>1. /\ down' \in Seq(DownTypes)
        /\ Holds(down', "CONNACK") => Holds(down, "CONNACK")
    BY <1>21, HoldsAppend DEF BrokerCommand, NetType, DownTypes
  <2> QED BY <1>21, <2>1 DEF BrokerCommand, NetType, ConnectFirst, Told, Past, session
<1>22. CASE TimePasses
  BY <1>22, <1>a DEF TimePasses, Past, session, net
<1>23. CASE UNCHANGED vars
  BY <1>23, <1>a DEF vars, state, Past, session, net
<1> QED
  BY <1>1, <1>2, <1>3, <1>4, <1>6, <1>7, <1>8, <1>9, <1>11, <1>12, <1>13, <1>14, <1>15,
     <1>16, <1>17, <1>18, <1>19, <1>20, <1>21, <1>22, <1>23, <1>24
     DEF Next, Establish, Await, Run, Environment, Application, Api

\* AnnouncedWhenConnected for every limit and bound: what keeps the board from
\* looking connected to itself and offline to its session's broker.
THEOREM MqttAnnounced == Spec => []AnnouncedWhenConnected
<1>1. Init => DeadlockInv /\ ToldInv
  BY InitDeadlockInv, InitToldInv
<1>2. DeadlockInv /\ ToldInv /\ [Next]_vars => (DeadlockInv /\ ToldInv)'
  BY NextDeadlockInv, NextToldInv
<1>3. DeadlockInv /\ ToldInv => AnnouncedWhenConnected
  BY DEF DeadlockInv, WaitInv, ConnInv, ToldInv, AnnouncedWhenConnected, Past, Told
<1> QED BY <1>1, <1>2, <1>3, PTL DEF Spec
----------------------------------------------------------------------------
\* Every flag is a Boolean.
Flags ==
    /\ connected \in BOOLEAN /\ needPubState \in BOOLEAN /\ reachedLimit \in BOOLEAN
    /\ failedConnect \in BOOLEAN /\ mqConnected \in BOOLEAN /\ due \in BOOLEAN
    /\ pongPending \in BOOLEAN /\ unacked \in BOOLEAN

\* The places of the main task, the wait, the api task and the link.
Places ==
    /\ pc \in Steps /\ wait \in Acks \cup {"none"} /\ api \in {"idle", "checked", "wait", "stuck"}
    /\ link \in {"closed", "up", "dead"} /\ fails \in 0..MaxFail

\* A series of attempts that goes on has not reached the limit.
Counted ==
    /\ connectCount \in 0..Limit
    /\ NonBlocking \/ pc \in {"connect", "backoff"} => connectCount < Limit

\* Every step keeps the flags Boolean.
LEMMA NextFlags ==
    ASSUME Flags, [Next]_vars
    PROVE  Flags'
<1> USE DEF Flags
<1>1. CASE Connect \/ LoopPongTimeout \/ LoopCollides \/ LoopLost
  BY <1>1 DEF Connect, LoopPongTimeout, LoopCollides, LoopLost, StartConnect, EndLink, net
<1>2. CASE Refused
  BY <1>2 DEF Refused, AttemptFailed, client, net
<1>3. CASE Open \/ Backoff \/ Settle
  BY <1>3 DEF Open, Backoff, Settle, session, client, net
<1>4. ASSUME NEW ok, Continue(ok)
      PROVE  /\ connected' \in BOOLEAN /\ needPubState' \in BOOLEAN
             /\ reachedLimit' \in BOOLEAN /\ failedConnect' \in BOOLEAN
  BY <1>4 DEF Continue, AttemptFailed
<1>5. ASSUME NEW p, Send(p)
      PROVE  due' \in BOOLEAN /\ unacked' \in BOOLEAN
  BY <1>5 DEF Send
<1>6. ASSUME NEW p, NEW ack, Request(p, ack)
      PROVE  Flags'
  BY <1>6, <1>4, <1>5 DEF Request, session
<1>7. CASE SubscribeTopics \/ PublishOnline \/ PublishAsk \/ SubscribeLWT \/ PublishState
  BY <1>6, <1>7 DEF SubscribeTopics, PublishOnline, PublishAsk, SubscribeLWT, PublishState
<1>8. CASE Acknowledged
  BY <1>8, <1>4 DEF Acknowledged
<1>9. CASE WaitFails
  BY <1>9, <1>4 DEF WaitFails, Close, EndLink
<1>11. CASE Deliver \/ LoopRead
  BY <1>11 DEF Deliver, LoopRead, Handle, PublishData, Send
<1>12. CASE LoopPing
  BY <1>12, <1>5 DEF LoopPing, session
<1>13. CASE LoopState \/ ApiCheck
  BY <1>13 DEF LoopState, ApiCheck, session, client, net
<1>14. CASE Disconnect \/ Drop \/ Stall \/ TcpGiveUp \/ ApiWaitFails
  BY <1>14 DEF Disconnect, Drop, Stall, TcpGiveUp, ApiWaitFails, Close, EndLink, session, client
<1>15. CASE App
  BY <1>15 DEF App, session, PublishData, Send
<1>16. CASE ApiPublish \/ Called
  BY <1>16, <1>5 DEF ApiPublish, Called, session
<1>19. CASE ApiAcknowledged \/ ApiDeliver
  BY <1>19 DEF ApiAcknowledged, ApiDeliver, session, client
<1>17. CASE FireWill \/ BrokerReceive \/ BrokerDeny \/ BrokerCommand \/ TimePasses
  BY <1>17 DEF FireWill, BrokerReceive, BrokerDeny, BrokerCommand, TimePasses, session, client, net
<1>18. CASE UNCHANGED vars
  BY <1>18 DEF vars, state, session, client, net
<1> QED
  BY <1>1, <1>2, <1>3, <1>7, <1>8, <1>9, <1>11, <1>12, <1>13, <1>14, <1>15, <1>16, <1>17, <1>18, <1>19
     DEF Next, Establish, Await, Run, Environment, Application, Api

\* Every step keeps the places in their ranges.
LEMMA NextPlaces ==
    ASSUME Places, [Next]_vars, wait \in {"none", "CONNACK", "SUBACK", "PUBACK"}
    PROVE  Places'
<1> USE DEF Places, Steps, Acks
<1>0. ASSUME Fail PROVE fails' \in 0..MaxFail
  BY <1>0, BoundAssumption DEF Fail
<1>1. CASE Connect \/ LoopPongTimeout \/ LoopCollides \/ LoopLost
  BY <1>1, <1>0 DEF Connect, LoopPongTimeout, LoopCollides, LoopLost, StartConnect, EndLink, net
<1>2. CASE Refused
  BY <1>2, <1>0 DEF Refused, AttemptFailed, client, net
<1>3. CASE Open \/ Backoff \/ Settle
  BY <1>3 DEF Open, Backoff, Settle, session, client, net
<1>4. ASSUME NEW ok, Continue(ok)
      PROVE  pc' \in Steps /\ wait' \in Acks \cup {"none"}
  BY <1>4 DEF Continue, AttemptFailed, Following
<1>6. ASSUME NEW p, NEW ack \in Acks, Request(p, ack)
      PROVE  Places'
  BY <1>6, <1>4 DEF Request, Send, session
<1>7. CASE SubscribeTopics \/ PublishOnline \/ PublishAsk \/ SubscribeLWT \/ PublishState
  BY <1>6, <1>7 DEF SubscribeTopics, PublishOnline, PublishAsk, SubscribeLWT, PublishState
<1>8. CASE Acknowledged
  BY <1>8, <1>4 DEF Acknowledged
<1>9. CASE WaitFails
  BY <1>9, <1>4, <1>0 DEF WaitFails, Astray, Close, EndLink
<1>11. CASE Deliver \/ LoopRead
  BY <1>11 DEF Deliver, LoopRead, Handle, PublishData
<1>12. CASE LoopPing
  BY <1>12 DEF LoopPing, session
<1>13. CASE LoopState \/ ApiCheck
  BY <1>13 DEF LoopState, ApiCheck, session, client, net
<1>14. CASE Disconnect \/ Drop \/ Stall \/ TcpGiveUp \/ ApiWaitFails
  BY <1>14, <1>0
     DEF Disconnect, Drop, Stall, TcpGiveUp, ApiWaitFails, Astray, Close, EndLink, session, client
<1>15. CASE App
  BY <1>15 DEF App, session, PublishData
<1>16. CASE ApiPublish \/ Called
  BY <1>16 DEF ApiPublish, Called, session
<1>19. CASE ApiAcknowledged \/ ApiDeliver
  BY <1>19 DEF ApiAcknowledged, ApiDeliver, session, client
<1>17. CASE FireWill \/ BrokerReceive \/ BrokerDeny \/ BrokerCommand \/ TimePasses
  BY <1>17, <1>0 DEF FireWill, BrokerReceive, BrokerDeny, BrokerCommand, TimePasses, session, client, net
<1>18. CASE UNCHANGED vars
  BY <1>18 DEF vars, state, session, client, net
<1> QED
  BY <1>1, <1>2, <1>3, <1>7, <1>8, <1>9, <1>11, <1>12, <1>13, <1>14, <1>15, <1>16, <1>17, <1>18, <1>19
     DEF Next, Establish, Await, Run, Environment, Application, Api

\* Every step keeps the number of attempts within its limit.
LEMMA NextCounted ==
    ASSUME Counted, DeadlockInv, [Next]_vars
    PROVE  Counted'
<1> USE LimitAssumption DEF Counted, DeadlockInv, WaitInv, ConnInv
<1>0. NonBlocking' = NonBlocking
  BY DEF Next, vars, NonBlocking
<1>1. CASE Connect \/ LoopPongTimeout \/ LoopCollides \/ LoopLost
  BY <1>1, <1>0 DEF Connect, LoopPongTimeout, LoopCollides, LoopLost, StartConnect
<1>2. CASE Refused
  BY <1>2, <1>0 DEF Refused, AttemptFailed
<1>3. CASE Open \/ Backoff \/ Settle
  BY <1>3, <1>0 DEF Open, Backoff, Settle, session
<1>4. ASSUME NEW ok, Continue(ok)
      PROVE  Counted'
  BY <1>4, <1>0 DEF Continue, AttemptFailed, Following
<1>6. ASSUME NEW p, NEW ack, Request(p, ack)
      PROVE  Counted'
  BY <1>6, <1>4, <1>0 DEF Request, session
<1>7. CASE SubscribeTopics \/ PublishOnline \/ PublishAsk \/ SubscribeLWT \/ PublishState
  BY <1>6, <1>7 DEF SubscribeTopics, PublishOnline, PublishAsk, SubscribeLWT, PublishState
<1>8. CASE Acknowledged \/ WaitFails
  BY <1>4, <1>8 DEF Acknowledged, WaitFails
<1>11. CASE Deliver \/ LoopRead
  BY <1>11, <1>0 DEF Deliver, LoopRead, Handle, PublishData
<1>12. CASE LoopPing \/ LoopState \/ Disconnect
  BY <1>12, <1>0 DEF LoopPing, LoopState, Disconnect, session
<1>15. CASE App
  BY <1>15, <1>0 DEF App, session, PublishData
<1>16. CASE Called
  BY <1>16, <1>0 DEF Called, session
<1>17. CASE Environment \/ ApiCheck \/ ApiPublish \/ ApiAcknowledged \/ ApiDeliver \/ ApiWaitFails
  <2>1. UNCHANGED <<pc, connectCount>>
    BY <1>17 DEF Environment, FireWill, BrokerReceive, BrokerDeny, BrokerCommand, Drop, Stall,
                 TcpGiveUp, TimePasses, ApiCheck, ApiPublish, ApiAcknowledged, ApiDeliver, ApiWaitFails,
                 session
  <2> QED BY <2>1, <1>0
<1>18. CASE UNCHANGED vars
  BY <1>18, <1>0 DEF vars, state, session
<1> QED
  BY <1>1, <1>2, <1>3, <1>7, <1>8, <1>11, <1>12, <1>15, <1>16, <1>17, <1>18
     DEF Next, Establish, Await, Run, Application, Api

\* TypeOK for every limit and bound.
THEOREM MqttTypeOK == Spec => []TypeOK
<1>1. Init => DeadlockInv /\ ToldInv /\ Flags /\ Places /\ Counted
  <2>1. Init => Flags
    BY DEF Init, Flags
  <2>2. Init => Places
    BY BoundAssumption DEF Init, Places, Steps, Acks
  <2>3. Init => Counted
    BY LimitAssumption DEF Init, Counted
  <2> QED BY <2>1, <2>2, <2>3, InitDeadlockInv, InitToldInv
<1>2. DeadlockInv /\ ToldInv /\ Flags /\ Places /\ Counted /\ [Next]_vars
        => (DeadlockInv /\ ToldInv /\ Flags /\ Places /\ Counted)'
  BY NextDeadlockInv, NextToldInv, NextFlags, NextPlaces, NextCounted DEF DeadlockInv, WaitInv
<1>3. DeadlockInv /\ ToldInv /\ Flags /\ Places /\ Counted => TypeOK
  BY DEF DeadlockInv, ToldInv, NetType, Broker, Flags, Places, Counted, TypeOK
<1> QED BY <1>1, <1>2, <1>3, PTL DEF Spec
----------------------------------------------------------------------------
\* A connection that is up is being opened or belongs to a session that has
\* ended its series of attempts: connect() never opens over another one.
LinkInv ==
    link = "up" => \/ wait = "CONNACK"
                   \/ mqConnected /\ connectCount = 0 /\ pc \notin {"connect", "backoff"}

\* No session outlives its connection, and none precedes its CONNECT.
FreshInv ==
    /\ link # "up" => ~broker.session.announced /\ up = <<>>
    /\ Holds(up, "CONNECT") => ~broker.session.announced

\* Data in front of the first "online".
StaleData(u) == {i \in DOMAIN u : u[i] = "DATA" /\ \A k \in 1..(i - 1) : u[k] # "ONLINE"}

\* As long as the session is not announced there is at most one stale packet,
\* and it was the one the api task had checked for.
StaleInv ==
    /\ ~broker.session.announced => \A i, j \in StaleData(up) : i = j
    /\ ~Told /\ StaleData(up) # {} => api # "checked"

LEMMA StaleEmpty == StaleData(<<>>) = {} /\ StaleData(<<"CONNECT">>) = {}
BY DEF StaleData

LEMMA StaleAppend ==
    ASSUME NEW u \in Seq(UpTypes), NEW p \in UpTypes
    PROVE  /\ StaleData(Append(u, p)) \subseteq StaleData(u) \cup {Len(u) + 1}
           /\ p # "DATA" \/ Holds(u, "ONLINE") => StaleData(Append(u, p)) = StaleData(u)
<1>1. /\ DOMAIN Append(u, p) = DOMAIN u \cup {Len(u) + 1}
      /\ \A i \in DOMAIN u : Append(u, p)[i] = u[i]
      /\ Append(u, p)[Len(u) + 1] = p
      /\ DOMAIN u = 1..Len(u) /\ Len(u) \in Nat
  OBVIOUS
<1>2. ASSUME NEW i \in DOMAIN u PROVE i \in StaleData(Append(u, p)) <=> i \in StaleData(u)
  <2>1. \A k \in 1..(i - 1) : k \in DOMAIN u /\ Append(u, p)[k] = u[k]
    BY <1>1, <1>2
  <2> QED BY <1>1, <1>2, <2>1 DEF StaleData
<1>3. StaleData(Append(u, p)) \subseteq DOMAIN u \cup {Len(u) + 1} /\ StaleData(u) \subseteq DOMAIN u
  BY <1>1 DEF StaleData
<1>4. CASE p # "DATA"
  <2>1. Len(u) + 1 \notin StaleData(Append(u, p))
    BY <1>1, <1>4 DEF StaleData
  <2> QED BY <1>2, <1>3, <2>1
<1>5. CASE Holds(u, "ONLINE")
  <2>1. PICK k \in DOMAIN u : u[k] = "ONLINE"
    BY <1>5 DEF Holds, Members
  <2>2. k \in 1..(Len(u) + 1 - 1) /\ Append(u, p)[k] = "ONLINE"
    BY <1>1, <2>1
  <2>3. Len(u) + 1 \notin StaleData(Append(u, p))
    BY <2>2 DEF StaleData
  <2> QED BY <1>2, <1>3, <2>3
<1> QED BY <1>2, <1>3, <1>4, <1>5

LEMMA StaleTail ==
    ASSUME NEW u \in Seq(UpTypes), u # <<>>, Head(u) # "ONLINE", NEW i \in StaleData(Tail(u))
    PROVE  i + 1 \in StaleData(u) /\ i \in Nat
<1>1. /\ i \in 1..(Len(u) - 1) /\ Tail(u)[i] = "DATA" /\ Len(u) \in Nat
      /\ \A k \in 1..(i - 1) : Tail(u)[k] # "ONLINE"
  BY DEF StaleData
<1>2. i + 1 \in DOMAIN u /\ u[i + 1] = "DATA"
  BY <1>1
<1>3. ASSUME NEW k \in 1..(i + 1 - 1) PROVE u[k] # "ONLINE"
  <2>1. CASE k = 1
    BY <2>1
  <2>2. CASE k # 1
    <3>1. k - 1 \in 1..(i - 1) /\ Tail(u)[k - 1] = u[k]
      BY <1>1, <2>2
    <3> QED BY <1>1, <3>1
  <2> QED BY <2>1, <2>2
<1> QED BY <1>1, <1>2, <1>3 DEF StaleData

StaleAll == LinkInv /\ FreshInv /\ StaleInv

\* A step that leaves the session and the packets to the broker alone.
LEMMA StaleStay ==
    ASSUME StaleAll, UNCHANGED <<up, link>>, broker'.session = broker.session,
           api' = api \/ api' # "checked", LinkInv'
    PROVE  StaleAll'
BY DEF StaleAll, FreshInv, StaleInv, Told

\* The end of a connection.
LEMMA StaleEnd ==
    ASSUME ToldInv, StaleAll, NEW l \in {"closed", "dead"}, NEW clean, EndLink(l, clean)
    PROVE  StaleAll'
<1>1. link' # "up" /\ up' = <<>>
  BY DEF EndLink
<1>2. ~broker'.session.announced
  <2>1. CASE link = "up"
    <3>1. PICK w : broker' = [broker EXCEPT !.session = NoSession, !.wills = @ + w]
      BY <2>1 DEF EndLink, Ended
    <3> QED BY <3>1 DEF ToldInv, NetType, Broker, NoSession
  <2>2. CASE link # "up"
    BY <2>2 DEF EndLink, StaleAll, FreshInv
  <2> QED BY <2>1, <2>2
<1> QED BY <1>1, <1>2, StaleEmpty DEF StaleAll, LinkInv, FreshInv, StaleInv, Holds, Members, Told

\* A packet other than CONNECT is sent; data only by a session that is told
\* to the broker, or as the one call of the api task.
LEMMA StaleSend ==
    ASSUME ToldInv, StaleAll, NEW p \in UpTypes, p # "CONNECT", Send(p), UNCHANGED <<link, broker>>,
           \/ p # "DATA" /\ api' = api
           \/ link = "up" /\ Told /\ api' = api
           \/ api = "checked" /\ api' # "checked"
           \/ link # "up" /\ api' = api,
           LinkInv'
    PROVE  StaleAll'
<1>1. CASE link # "up"
  <2>1. up' = up
    BY <1>1 DEF Send
  <2> QED BY <2>1, <1>1, StaleStay DEF StaleAll, FreshInv, StaleInv, Told
<1>2. CASE link = "up"
  <2>1. up' = Append(up, p) /\ up \in Seq(UpTypes)
    BY <1>2 DEF Send, ToldInv, NetType
  <2>2. /\ Holds(up', "CONNECT") <=> Holds(up, "CONNECT")
        /\ Holds(up, "ONLINE") => Holds(up', "ONLINE")
    <3>1. /\ DOMAIN Append(up, p) = DOMAIN up \cup {Len(up) + 1}
          /\ \A i \in DOMAIN up : Append(up, p)[i] = up[i]
          /\ Append(up, p)[Len(up) + 1] = p
      BY <2>1
    <3> QED BY <2>1, <3>1, Zenon DEF Holds, Members
  <2>3. FreshInv'
    BY <1>2, <2>2 DEF StaleAll, FreshInv
  <2>4. CASE p # "DATA" \/ Holds(up, "ONLINE")
    <3>1. StaleData(up') = StaleData(up)
      BY <2>1, <2>4, StaleAppend
    <3> QED BY <2>2, <2>3, <2>4, <3>1 DEF StaleAll, StaleInv, Told
  <2>5. CASE p = "DATA" /\ ~Holds(up, "ONLINE") /\ broker.session.announced
    BY <2>3, <2>5 DEF StaleAll, StaleInv, Told
  <2>6. CASE p = "DATA" /\ ~Told
    <3>1. api = "checked" /\ api' # "checked"
      BY <1>2, <2>6
    <3>2. StaleData(up) = {}
      BY <2>6, <3>1 DEF StaleAll, StaleInv
    <3>3. StaleData(up') \subseteq {Len(up) + 1}
      BY <2>1, <3>2, StaleAppend
    <3> QED BY <2>3, <3>1, <3>3 DEF StaleAll, StaleInv
  <2> QED BY <2>4, <2>5, <2>6 DEF Told
<1> QED BY <1>1, <1>2

\* A connection that is up is ended before another is opened.
LEMMA NextLinkInv ==
    ASSUME LinkInv, ToldInv, DeadlockInv, [Next]_vars
    PROVE  LinkInv'
<1> USE DEF LinkInv
<1>0. /\ wait = "CONNACK" => pc = "connect"
      /\ wait = "SUBACK" => pc \in {"sub1", "sub2", "sublwt"}
      /\ wait = "PUBACK" => pc \in {"online", "ask", "state", "app", "stuck"}
      /\ wait \in {"none", "CONNACK", "SUBACK", "PUBACK"}
      /\ connected => pc \in {"idle", "run", "state", "app", "call", "stuck"}
  BY DEF DeadlockInv, WaitInv, ConnInv
<1>1. CASE Connect \/ LoopPongTimeout \/ LoopCollides \/ LoopLost
  BY <1>1, <1>0 DEF Connect, LoopPongTimeout, LoopCollides, LoopLost, StartConnect, EndLink, net, Linked
<1>2. CASE Refused \/ Open \/ Backoff \/ Settle
  BY <1>2, <1>0 DEF Refused, AttemptFailed, Open, Backoff, Settle, session, client, net
<1>3. ASSUME NEW p, NEW ack, Request(p, ack), pc \in {"sub1", "sub2", "online", "ask", "sublwt", "state"}
      PROVE  LinkInv'
  BY <1>3, <1>0 DEF Request, Continue, Following, session
<1>4. CASE SubscribeTopics \/ PublishOnline \/ PublishAsk \/ SubscribeLWT \/ PublishState
  BY <1>3, <1>4 DEF SubscribeTopics, PublishOnline, PublishAsk, SubscribeLWT, PublishState
<1>5. CASE Acknowledged
  BY <1>5, <1>0 DEF Acknowledged, Continue, Following
<1>6. CASE Deliver \/ LoopRead
  BY <1>6, <1>0 DEF Deliver, LoopRead, Handle, PublishData
<1>7. CASE WaitFails \/ Disconnect \/ Drop \/ Stall \/ TcpGiveUp \/ ApiWaitFails
  BY <1>7 DEF WaitFails, ApiWaitFails, Close, Disconnect, Drop, Stall, TcpGiveUp, EndLink
<1>8. CASE App
  BY <1>8, <1>0 DEF App, PublishData, session
<1>10. CASE Called
  BY <1>10, <1>0 DEF Called, session
<1>9. CASE \/ LoopPing \/ LoopState \/ ApiCheck \/ ApiPublish \/ ApiAcknowledged \/ ApiDeliver
           \/ FireWill \/ BrokerReceive \/ BrokerDeny \/ BrokerCommand \/ TimePasses \/ UNCHANGED vars
  BY <1>9 DEF LoopPing, LoopState, ApiCheck, ApiPublish, ApiAcknowledged, ApiDeliver, FireWill, BrokerReceive, BrokerDeny,
              BrokerCommand, TimePasses, vars, state, session, client, net
<1> QED
  BY <1>1, <1>2, <1>4, <1>5, <1>6, <1>7, <1>8, <1>9, <1>10
     DEF Next, Establish, Await, Run, Environment, Application, Api

\* Every step keeps LinkInv, FreshInv and StaleInv.
LEMMA NextStaleAll ==
    ASSUME StaleAll, ToldInv, DeadlockInv, [Next]_vars
    PROVE  StaleAll'
<1>0. /\ wait = "CONNACK" => pc = "connect"
      /\ wait \in {"none", "CONNACK", "SUBACK", "PUBACK"}
      /\ connected => pc \in {"idle", "run", "state", "app", "call", "stuck"}
      /\ link = "up" /\ Past => Told
      /\ connected /\ pc = "idle" => link = "closed"
      /\ link # "up" => up = <<>>
  BY DEF DeadlockInv, WaitInv, ConnInv, ToldInv, StaleAll, FreshInv
<1>a. LinkInv'
  BY NextLinkInv DEF StaleAll
<1>1. CASE Connect \/ LoopPongTimeout \/ LoopCollides \/ LoopLost
  <2>1. PICK lost \in BOOLEAN : StartConnect(lost) /\ api' = api
    BY <1>1 DEF Connect, LoopPongTimeout, LoopCollides, LoopLost
  <2>2. CASE EndLink("closed", ~lost)
    BY <2>2, StaleEnd
  <2>3. CASE UNCHANGED <<net, broker>>
    BY <2>1, <2>3, <1>a, StaleStay DEF net
  <2> QED BY <2>1, <2>2, <2>3 DEF StartConnect
<1>2. CASE Refused \/ Backoff \/ Settle \/ LoopState \/ BrokerCommand \/ TimePasses \/ UNCHANGED vars
  <2>1. UNCHANGED <<up, link, broker, api>>
    BY <1>2 DEF Refused, Backoff, Settle, LoopState, BrokerCommand, TimePasses, vars, state, net
  <2> QED BY <2>1, <1>a, StaleStay
<1>3. CASE FireWill
  <2>1. broker'.session = broker.session /\ UNCHANGED <<up, link, api>>
    BY <1>3 DEF FireWill, ToldInv, NetType, Broker
  <2> QED BY <2>1, <1>a, StaleStay
<1>4. CASE Open
  <2>1. link # "up" /\ up' = <<"CONNECT">> /\ link' = "up" /\ UNCHANGED broker
    BY <1>4 DEF Open, StaleAll, LinkInv
  <2>2. ~broker.session.announced
    BY <2>1 DEF StaleAll, FreshInv
  <2> QED BY <2>1, <2>2, <1>a, StaleEmpty DEF StaleAll, FreshInv, StaleInv
<1>b. ASSUME NEW p \in UpTypes, p # "CONNECT", p # "DATA", UNCHANGED <<link, broker, api>>,
             Send(p) \/ UNCHANGED up
      PROVE  StaleAll'
  BY <1>b, <1>a, StaleSend, StaleStay
<1>5. CASE SubscribeTopics \/ PublishOnline \/ PublishAsk \/ SubscribeLWT \/ PublishState \/ LoopPing
  <2>1. PICK p \in {"SUB", "ONLINE", "ASK", "SUBLWT", "PINGREQ"} : Send(p) \/ UNCHANGED up
    BY <1>5 DEF SubscribeTopics, PublishOnline, PublishAsk, SubscribeLWT, PublishState, Request, LoopPing
  <2>2. UNCHANGED <<link, broker, api>>
    BY <1>5 DEF SubscribeTopics, PublishOnline, PublishAsk, SubscribeLWT, PublishState, Request, LoopPing
  <2> QED BY <2>1, <2>2, <1>b DEF UpTypes
<1>6. CASE Acknowledged
  BY <1>6, <1>a, StaleStay DEF Acknowledged
<1>c. ASSUME PublishData, UNCHANGED <<link, broker, api>>
      PROVE  StaleAll'
  <2>1. CASE UNCHANGED up
    BY <1>c, <2>1, <1>a, StaleStay
  <2>2. CASE Send("DATA") /\ connected
    <3>1. link = "up" => Told
      BY <2>2, <1>0 DEF Past
    <3> QED BY <1>c, <2>2, <3>1, <1>a, StaleSend DEF UpTypes
  <2> QED BY <1>c, <2>1, <2>2 DEF PublishData
<1>7. CASE Deliver \/ LoopRead
  <2>1. UNCHANGED <<link, broker, api>> /\ (PublishData \/ UNCHANGED up)
    BY <1>7 DEF Deliver, LoopRead, Handle
  <2> QED BY <2>1, <1>c, <1>a, StaleStay
<1>8. CASE App
  BY <1>8, <1>c DEF App
<1>13. CASE Called
  <2>1. UNCHANGED <<link, broker, api>> /\ (Send("DATA") \/ UNCHANGED up) /\ pc = "call"
    BY <1>13 DEF Called
  <2>2. link = "up" => Told
    BY <2>1, <1>0 DEF Past
  <2> QED BY <2>1, <2>2, <1>a, StaleSend, StaleStay DEF UpTypes
<1>14. CASE ApiAcknowledged \/ ApiDeliver
  <2>1. UNCHANGED <<up, link, broker>> /\ api' # "checked"
    BY <1>14 DEF ApiAcknowledged, ApiDeliver
  <2> QED BY <2>1, <1>a, StaleStay
<1>9. CASE WaitFails \/ Disconnect \/ Drop \/ Stall \/ TcpGiveUp \/ ApiWaitFails
  BY <1>9, StaleEnd DEF WaitFails, ApiWaitFails, Close, Disconnect, Drop, Stall, TcpGiveUp
<1>10. CASE ApiCheck
  <2>1. UNCHANGED <<up, link, broker>> /\ connected
    BY <1>10 DEF ApiCheck, net
  <2>2. link = "up" => Told
    BY <2>1, <1>0 DEF Past
  <2> QED BY <2>1, <2>2, <1>0, <1>a, StaleEmpty DEF StaleAll, FreshInv, StaleInv, Told
<1>11. CASE ApiPublish
  <2>1. api = "checked" /\ api' # "checked" /\ UNCHANGED <<link, broker>> /\ (Send("DATA") \/ UNCHANGED up)
    BY <1>11 DEF ApiPublish
  <2> QED BY <2>1, <1>a, StaleSend, StaleStay DEF UpTypes
<1>12. CASE BrokerReceive \/ BrokerDeny
  <2>1. /\ link = "up" /\ up # <<>> /\ up' = Tail(up) /\ UNCHANGED <<link, api>>
        /\ up \in Seq(UpTypes)
        /\ \/ broker' = Received(Head(up))
           \/ UNCHANGED broker /\ Head(up) = "CONNECT"
    BY <1>12 DEF BrokerReceive, BrokerDeny, ToldInv, NetType
  <2>2. ~Holds(up', "CONNECT")
    <3>1. ASSUME NEW i \in DOMAIN Tail(up) PROVE Tail(up)[i] # "CONNECT"
      <4>1. i + 1 \in DOMAIN up /\ Tail(up)[i] = up[i + 1] /\ i + 1 # 1
        BY <2>1
      <4> QED BY <4>1 DEF ToldInv, ConnectFirst
    <3> QED BY <2>1, <3>1 DEF Holds, Members
  <2>3. FreshInv'
    BY <2>1, <2>2 DEF FreshInv
  <2>4. CASE Head(up) = "ONLINE"
    <3>1. broker'.session.announced
      BY <2>1, <2>4 DEF Received, ToldInv, NetType, Broker
    <3> QED BY <3>1, <2>3, <1>a DEF StaleAll, StaleInv, Told
  <2>5. CASE Head(up) # "ONLINE"
    <3>1. Holds(up, "ONLINE") => Holds(up', "ONLINE")
      BY <2>1, <2>5, HoldsTail
    <3>2. Head(up) = "CONNECT" => Holds(up, "CONNECT")
      BY <2>1, HoldsTail
    <3>3. broker.session.announced <=> broker'.session.announced
      BY <2>1, <2>5, <3>2 DEF Received, NoSession, ToldInv, NetType, Broker, StaleAll, FreshInv
    <3>4. ASSUME NEW i \in StaleData(up') PROVE i + 1 \in StaleData(up) /\ i \in Nat
      BY <2>1, <2>5, StaleTail
    <3>5. ~broker'.session.announced => \A i, j \in StaleData(up') : i = j
      <4>1. ASSUME ~broker'.session.announced, NEW i \in StaleData(up'), NEW j \in StaleData(up')
            PROVE  i = j
        <5>1. i + 1 = j + 1
          BY <4>1, <3>3, <3>4 DEF StaleAll, StaleInv
        <5> QED BY <5>1, <3>4, <4>1
      <4> QED BY <4>1
    <3>6. ~Told' /\ StaleData(up') # {} => api' # "checked"
      BY <2>1, <3>1, <3>3, <3>4 DEF StaleAll, StaleInv, Told
    <3> QED BY <2>3, <1>a, <3>5, <3>6 DEF StaleAll, StaleInv
  <2> QED BY <2>4, <2>5
<1> QED
  BY <1>1, <1>2, <1>3, <1>4, <1>5, <1>6, <1>7, <1>8, <1>9, <1>10, <1>11, <1>12, <1>13,
     <1>14
     DEF Next, Establish, Await, Run, Environment, Application, Api

\* At most one packet of the api task gets into a session before "online".
LEMMA StaleUnique ==
    ASSUME StaleInv, up \in Seq(UpTypes)
    PROVE  AtMostOneStale
<1> SUFFICES ASSUME ~broker.session.announced, NEW i \in DOMAIN up, NEW j \in DOMAIN up,
                    i < j, up[i] = "DATA", up[j] = "DATA",
                    \A k \in 1..(j - 1) : up[k] # "ONLINE"
             PROVE  FALSE
  BY DEF AtMostOneStale
<1>1. i \in Nat /\ j \in Nat
  OBVIOUS
<1>2. \A k \in 1..(i - 1) : k \in 1..(j - 1)
  BY <1>1
<1>3. i \in StaleData(up) /\ j \in StaleData(up)
  BY <1>2 DEF StaleData
<1> QED BY <1>1, <1>3 DEF StaleInv

\* AtMostOneStale for every limit and bound: what keeps the data of an earlier
\* session out of the next one, but for the call that waited for the mutex.
THEOREM MqttAtMostOneStale == Spec => []AtMostOneStale
<1>1. Init => DeadlockInv /\ ToldInv /\ StaleAll
  <2>1. Init => LinkInv /\ FreshInv /\ StaleInv
    BY StaleEmpty DEF Init, LinkInv, FreshInv, StaleInv, NoSession, Holds, Members
  <2> QED BY <2>1, InitDeadlockInv, InitToldInv DEF StaleAll
<1>2. DeadlockInv /\ ToldInv /\ StaleAll /\ [Next]_vars => (DeadlockInv /\ ToldInv /\ StaleAll)'
  BY NextDeadlockInv, NextToldInv, NextStaleAll
<1>3. DeadlockInv /\ ToldInv /\ StaleAll => AtMostOneStale
  BY StaleUnique DEF ToldInv, NetType, StaleAll
<1> QED BY <1>1, <1>2, <1>3, PTL DEF Spec

----------------------------------------------------------------------------
(* A late "offline" is never missed.                                       *)

\* A sequence with no packet of R, and one with at most one.
Free(s, R) == \A i \in DOMAIN s : s[i] \notin R
Once(s, R) == \A i, j \in DOMAIN s : s[i] \in R /\ s[j] \in R => i = j

LEMMA OnceTail ==
    ASSUME NEW S, NEW s \in Seq(S), s # <<>>, NEW R
    PROVE  /\ Free(s, R) => Free(Tail(s), R) /\ Head(s) \notin R
           /\ Once(s, R) => Once(Tail(s), R)
           /\ Once(s, R) /\ Head(s) \in R => Free(Tail(s), R)
<1>1. /\ \A i \in DOMAIN Tail(s) : i + 1 \in DOMAIN s /\ Tail(s)[i] = s[i + 1] /\ i \in Nat
      /\ 1 \in DOMAIN s /\ Head(s) = s[1]
  OBVIOUS
<1>2. Free(s, R) => Free(Tail(s), R) /\ Head(s) \notin R
  BY <1>1 DEF Free
<1>3. ASSUME Once(s, R), NEW i \in DOMAIN Tail(s), NEW j \in DOMAIN Tail(s),
             Tail(s)[i] \in R, Tail(s)[j] \in R
      PROVE  i = j
  <2>1. i + 1 = j + 1
    BY <1>1, <1>3 DEF Once
  <2> QED BY <1>1, <2>1
<1>4. ASSUME Once(s, R), Head(s) \in R, NEW i \in DOMAIN Tail(s), Tail(s)[i] \in R
      PROVE  FALSE
  <2>1. i + 1 = 1
    BY <1>1, <1>4 DEF Once
  <2> QED BY <1>1, <2>1
<1> QED BY <1>2, <1>3, <1>4 DEF Once, Free

LEMMA OnceAppend ==
    ASSUME NEW S, NEW s \in Seq(S), NEW p \in S, NEW R
    PROVE  /\ Free(s, R) => Once(Append(s, p), R)
           /\ p \notin R /\ Free(s, R) => Free(Append(s, p), R)
           /\ p \notin R /\ Once(s, R) => Once(Append(s, p), R)
<1>1. /\ DOMAIN Append(s, p) = DOMAIN s \cup {Len(s) + 1}
      /\ \A i \in DOMAIN s : Append(s, p)[i] = s[i]
      /\ Append(s, p)[Len(s) + 1] = p
  OBVIOUS
<1> QED BY <1>1, Zenon DEF Free, Once

LEMMA OnceConcat ==
    ASSUME NEW S, NEW s \in Seq(S), NEW t \in Seq(S), NEW R
    PROVE  /\ Free(s, R) /\ Free(t, R) => Free(s \o t, R)
           /\ Free(s, R) /\ Once(t, R) => Once(s \o t, R)
           /\ Once(s, R) /\ Free(t, R) => Once(s \o t, R)
<1>1. \A i \in DOMAIN (s \o t) :
          /\ i \in Nat
          /\ \/ i \in DOMAIN s /\ (s \o t)[i] = s[i]
             \/ i - Len(s) \in DOMAIN t /\ (s \o t)[i] = t[i - Len(s)]
  OBVIOUS
<1>2. Len(s) \in Nat
  OBVIOUS
<1>3. Free(s, R) /\ Free(t, R) => Free(s \o t, R)
  BY <1>1 DEF Free
<1>4. ASSUME Free(s, R), Once(t, R), NEW i \in DOMAIN (s \o t), NEW j \in DOMAIN (s \o t),
             (s \o t)[i] \in R, (s \o t)[j] \in R
      PROVE  i = j
  <2>1. /\ i - Len(s) \in DOMAIN t /\ t[i - Len(s)] \in R
        /\ j - Len(s) \in DOMAIN t /\ t[j - Len(s)] \in R
    BY <1>1, <1>4 DEF Free
  <2>2. i - Len(s) = j - Len(s)
    BY <2>1, <1>4 DEF Once
  <2> QED BY <2>2, <1>1, <1>2
<1>5. ASSUME Once(s, R), Free(t, R), NEW i \in DOMAIN (s \o t), NEW j \in DOMAIN (s \o t),
             (s \o t)[i] \in R, (s \o t)[j] \in R
      PROVE  i = j
  <2>1. /\ i \in DOMAIN s /\ s[i] \in R
        /\ j \in DOMAIN s /\ s[j] \in R
    BY <1>1, <1>5 DEF Free
  <2> QED BY <2>1, <1>5 DEF Once
<1> QED BY <1>3, <1>4, <1>5 DEF Once

\* One of the packets Req is answered with ack, and the board waits for that
\* before it sends another: with u on the way to the broker, d on the way
\* back and w the packet the board waits for, no acknowledgement is mistaken
\* for that of an earlier packet.
Acked(Req, ack, u, d, w) ==
    /\ Once(u, Req) /\ Once(d, {ack})
    /\ Free(u, Req) \/ Free(d, {ack})
    /\ w # ack => Free(u, Req) /\ Free(d, {ack})

LEMMA AckedEmpty ==
    ASSUME NEW Req, NEW ack, NEW w
    PROVE  /\ Acked(Req, ack, <<>>, <<>>, w)
           /\ "CONNECT" \notin Req => Acked(Req, ack, <<"CONNECT">>, <<>>, w)
<1>1. /\ Once(<<>>, Req) /\ Once(<<>>, {ack}) /\ Free(<<>>, Req) /\ Free(<<>>, {ack})
  BY DEF Once, Free
<1>2. "CONNECT" \notin Req => Once(<<"CONNECT">>, Req) /\ Free(<<"CONNECT">>, Req)
  BY DEF Once, Free
<1> QED BY <1>1, <1>2 DEF Acked

\* The board sends p.
LEMMA AckedSend ==
    ASSUME NEW Req, NEW ack, NEW w, NEW v, NEW u \in Seq(UpTypes), NEW d, NEW p \in UpTypes,
           Acked(Req, ack, u, d, w), w = ack => v = ack,
           p \in Req => w # ack /\ v = ack
    PROVE  Acked(Req, ack, Append(u, p), d, v)
BY OnceAppend DEF Acked

\* The board reads a packet.
LEMMA AckedRead ==
    ASSUME NEW Req, NEW ack, NEW w, NEW v, NEW u, NEW d \in Seq(DownTypes), d # <<>>,
           Acked(Req, ack, u, d, w), w = ack => v = ack \/ Head(d) = ack
    PROVE  Acked(Req, ack, u, Tail(d), v)
<1>1. /\ Free(d, {ack}) => Free(Tail(d), {ack})
      /\ Once(d, {ack}) => Once(Tail(d), {ack})
      /\ Once(d, {ack}) /\ Head(d) = ack => Free(Tail(d), {ack})
      /\ Free(d, {ack}) => Head(d) # ack
  BY OnceTail
<1> QED BY <1>1 DEF Acked

\* The broker sends a packet that is no acknowledgement.
LEMMA AckedOther ==
    ASSUME NEW Req, NEW ack, NEW w, NEW u, NEW d \in Seq(DownTypes), NEW p \in DownTypes, p # ack,
           Acked(Req, ack, u, d, w)
    PROVE  Acked(Req, ack, u, Append(d, p), w)
<1>1. /\ Free(d, {ack}) => Free(Append(d, p), {ack})
      /\ Once(d, {ack}) => Once(Append(d, p), {ack})
  BY OnceAppend
<1> QED BY <1>1 DEF Acked

\* The broker takes a packet and answers a.
LEMMA AckedAnswer ==
    ASSUME NEW Req, NEW ack, NEW w, NEW u \in Seq(UpTypes), u # <<>>, NEW d \in Seq(DownTypes),
           NEW a \in Seq(DownTypes), Acked(Req, ack, u, d, w),
           Head(u) \in Req => Once(a, {ack}), Head(u) \notin Req => Free(a, {ack})
    PROVE  Acked(Req, ack, Tail(u), d \o a, w)
<1>1. /\ Free(u, Req) => Free(Tail(u), Req) /\ Head(u) \notin Req
      /\ Once(u, Req) => Once(Tail(u), Req)
      /\ Once(u, Req) /\ Head(u) \in Req => Free(Tail(u), Req)
  BY OnceTail
<1>2. /\ Free(d, {ack}) /\ Free(a, {ack}) => Free(d \o a, {ack})
      /\ Free(d, {ack}) /\ Once(a, {ack}) => Once(d \o a, {ack})
      /\ Once(d, {ack}) /\ Free(a, {ack}) => Once(d \o a, {ack})
  BY OnceConcat
<1> QED BY <1>1, <1>2 DEF Acked

Subs == {"SUB", "SUBLWT"}
Pubs == {"ONLINE", "ASK", "DATA"}

\* What the broker answers to a packet, as far as it matters here.
LEMMA AnswerAcks ==
    ASSUME NetType, NEW p \in UpTypes, NEW a \in Answer(p)
    PROVE  /\ Once(a, {"SUBACK"}) /\ Once(a, {"PUBACK"})
           /\ p \notin Subs => Free(a, {"SUBACK"})
           /\ p \notin Pubs => Free(a, {"PUBACK"})
           /\ p = "SUBLWT" /\ broker.retained = "OL0" => Holds(a, "OL0")
<1>1. CASE p \in {"CONNECT", "SUB", "PINGREQ"}
  BY <1>1 DEF Answer, Once, Free, Subs, Pubs
<1>2. CASE p = "SUBLWT"
  <2>1. broker.retained \in {"none", "OL0", "OL1"}
    BY DEF NetType, Broker
  <2>2. \/ a = <<"SUBACK">> /\ broker.retained = "none"
        \/ a = <<"SUBACK", broker.retained>>
        \/ a = <<broker.retained, "SUBACK">>
    BY <1>2 DEF Answer
  <2>3. broker.retained # "none" => Holds(a, broker.retained)
    BY <2>2 DEF Holds, Members
  <2> QED BY <1>2, <2>1, <2>2, <2>3 DEF Once, Free, Subs
<1>3. CASE p \in Pubs
  <2> DEFINE ack == IF SkipAck THEN <<>> ELSE <<"PUBACK">>
             own == IF p # "DATA" /\ broker.session.lwt THEN <<"OL1">> ELSE <<>>
  <2>1. a = ack \o own \/ a = own \o ack
    BY <1>3 DEF Answer, Pubs
  <2>2. /\ ack \in {<<>>, <<"PUBACK">>} /\ own \in {<<>>, <<"OL1">>}
    OBVIOUS
  <2>3. /\ Free(ack, {"SUBACK"}) /\ Once(ack, {"PUBACK"}) /\ ack \in Seq({"PUBACK", "OL1"})
        /\ Free(own, {"SUBACK"}) /\ Free(own, {"PUBACK"}) /\ own \in Seq({"PUBACK", "OL1"})
    <3>1. /\ <<>> \in Seq({"PUBACK", "OL1"}) /\ <<"PUBACK">> \in Seq({"PUBACK", "OL1"})
          /\ <<"OL1">> \in Seq({"PUBACK", "OL1"})
      OBVIOUS
    <3>2. /\ Free(<<>>, {"SUBACK"}) /\ Once(<<>>, {"PUBACK"}) /\ Free(<<>>, {"PUBACK"})
          /\ Free(<<"PUBACK">>, {"SUBACK"}) /\ Once(<<"PUBACK">>, {"PUBACK"})
          /\ Free(<<"OL1">>, {"SUBACK"}) /\ Free(<<"OL1">>, {"PUBACK"})
      BY DEF Free, Once
    <3> QED BY <2>2, <3>1, <3>2
  <2> HIDE DEF ack, own
  <2>4. /\ Free(ack \o own, {"SUBACK"}) /\ Once(ack \o own, {"PUBACK"})
        /\ Free(own \o ack, {"SUBACK"}) /\ Once(own \o ack, {"PUBACK"})
    BY <2>3, OnceConcat
  <2>5. Free(a, {"SUBACK"}) /\ Once(a, {"PUBACK"})
    BY <2>1, <2>4
  <2> QED BY <1>3, <2>5 DEF Once, Free, Pubs
<1> QED BY <1>1, <1>2, <1>3 DEF UpTypes, Pubs

\* The acknowledgement ack is waited for, by either task: that of the api task
\* is a PUBACK.
For(ack) == IF ack = "PUBACK" /\ ApiLocked THEN ack ELSE wait

\* Every step keeps requests and acknowledgements in order, for subscriptions
\* and, where publishes are acknowledged, for those of both tasks.
LEMMA NextAcked ==
    ASSUME ToldInv, DeadlockInv, [Next]_vars, NEW Req, NEW ack,
           Acked(Req, ack, up, down, For(ack)),
           \/ Req = Subs /\ ack = "SUBACK"
           \/ Req = Pubs /\ ack = "PUBACK" /\ ~SkipAck
    PROVE  Acked(Req, ack, up', down', For(ack)')
<1>0. /\ wait = "CONNACK" => pc = "connect"
      /\ wait = "SUBACK" => pc \in {"sub1", "sub2", "sublwt"}
      /\ wait = "PUBACK" => pc \in {"online", "ask", "state", "app", "stuck"}
      /\ wait \in {"none", "CONNACK", "SUBACK", "PUBACK"}
      /\ connected => pc \in {"idle", "run", "state", "app", "call", "stuck"}
      /\ up \in Seq(UpTypes) /\ down \in Seq(DownTypes)
      /\ ApiLocked => wait # "SUBACK" /\ wait # "PUBACK"
      /\ pc = "call" => wait = "none"
  BY DEF DeadlockInv, WaitInv, ConnInv, ToldInv, NetType, Locked
<1>f. /\ For(ack) = ack <=> wait = ack \/ (ack = "PUBACK" /\ ApiLocked)
      /\ For(ack)' = ack <=> wait' = ack \/ (ack = "PUBACK" /\ ApiLocked')
      /\ ApiLocked <=> api \in {"wait", "stuck"}
      /\ ApiLocked' <=> api' \in {"wait", "stuck"}
  BY DEF For, ApiLocked
<1>a. ASSUME UNCHANGED <<up, down>>, For(ack) = ack => For(ack)' = ack
      PROVE  Acked(Req, ack, up', down', For(ack)')
  BY <1>a DEF Acked
<1>b. ASSUME NEW l, NEW clean, EndLink(l, clean) PROVE Acked(Req, ack, up', down', For(ack)')
  BY <1>b, AckedEmpty DEF EndLink
<1>c. "CONNECT" \notin Req /\ "PINGREQ" \notin Req /\ ack \in {"SUBACK", "PUBACK"}
  BY DEF Subs, Pubs
<1>d. ASSUME NEW p \in UpTypes, Send(p), down' = down, For(ack) = ack => For(ack)' = ack,
             p \in Req => For(ack) # ack /\ For(ack)' = ack
      PROVE  Acked(Req, ack, up', down', For(ack)')
  <2>1. CASE up' = Append(up, p)
    BY <1>0, <1>d, <2>1, AckedSend
  <2>2. CASE up' = up
    BY <1>a, <1>d, <2>2
  <2> QED BY <1>d, <2>1, <2>2 DEF Send
<1>1. CASE Connect \/ LoopPongTimeout \/ LoopCollides \/ LoopLost
  BY <1>1, <1>a, <1>b, <1>f DEF Connect, LoopPongTimeout, LoopCollides, LoopLost, StartConnect, net
<1>2. CASE Refused
  BY <1>2, <1>a, <1>c, <1>f DEF Refused, net
<1>3. CASE Open
  BY <1>3, <1>c, AckedEmpty DEF Open
<1>4. CASE \/ Backoff \/ Settle \/ LoopState \/ ApiCheck \/ TimePasses \/ UNCHANGED vars
  BY <1>4, <1>a, <1>f DEF Backoff, Settle, LoopState, ApiCheck, TimePasses, vars, state, net
<1>5. ASSUME NEW p \in UpTypes, NEW k, Request(p, k), p \in Subs <=> k = "SUBACK",
             p \in Pubs <=> k = "PUBACK"
      PROVE  Acked(Req, ack, up', down', For(ack)')
  <2>1. CASE ~Linked
    <3>1. UNCHANGED <<up, down, api>> /\ wait = "none"
      BY <1>5, <2>1 DEF Request
    <3> QED BY <3>1, <1>a, <1>c, <1>f
  <2>2. CASE Linked
    <3>1. /\ Send(p) /\ down' = down /\ wait = "none" /\ ~ApiLocked
          /\ k # "PUBACK" \/ ~SkipAck => wait' = k
      BY <1>5, <2>2 DEF Request
    <3>2. p \in Req => wait' = ack
      BY <1>5, <3>1
    <3> QED BY <1>d, <1>c, <1>f, <3>1, <3>2
  <2> QED BY <2>1, <2>2
<1>6. CASE SubscribeTopics \/ PublishOnline \/ PublishAsk \/ SubscribeLWT \/ PublishState
  BY <1>5, <1>6
     DEF SubscribeTopics, PublishOnline, PublishAsk, SubscribeLWT, PublishState, UpTypes, Subs, Pubs
<1>8. CASE Acknowledged
  <2>1. down # <<>> /\ Head(down) = wait /\ down' = Tail(down) /\ up' = up /\ api' = api
    BY <1>8 DEF Acknowledged
  <2>2. For(ack) = ack => For(ack)' = ack \/ Head(down) = ack
    BY <2>1, <1>f
  <2> QED BY <2>1, <2>2, <1>0, AckedRead
<1>9. CASE WaitFails \/ Disconnect \/ Drop \/ Stall \/ TcpGiveUp \/ ApiWaitFails
  BY <1>9, <1>b DEF WaitFails, ApiWaitFails, Close, Disconnect, Drop, Stall, TcpGiveUp
<1>10. CASE Deliver
  <2>1. down # <<>> /\ down' = Tail(down) /\ api' = api
    BY <1>10 DEF Deliver
  <2>2. UNCHANGED <<wait, up>>
    BY <1>10, <1>0 DEF Deliver, Handle, PublishData, Locked
  <2>3. For(ack) = ack => For(ack)' = ack
    BY <2>1, <2>2, <1>f
  <2> QED BY <2>1, <2>2, <2>3, <1>0, AckedRead
<1>11. CASE LoopRead
  <2>1. down # <<>> /\ down' = Tail(down) /\ wait = "none" /\ api' = api
    BY <1>11, <1>0 DEF LoopRead
  <2>2. \/ UNCHANGED <<wait, up>>
        \/ ~ApiLocked /\ Send("DATA") /\ wait' = IF SkipAck THEN wait ELSE "PUBACK"
    BY <1>11, <2>1 DEF LoopRead, Handle, PublishData, Locked
  <2>3. Acked(Req, ack, up, Tail(down), For(ack))
    BY <2>1, <1>0, <1>c, AckedRead
  <2>4. CASE UNCHANGED <<wait, up>>
    BY <2>1, <2>3, <2>4, <1>f DEF Acked
  <2>5. CASE ~ApiLocked /\ up' = Append(up, "DATA") /\ wait' = IF SkipAck THEN wait ELSE "PUBACK"
    <3>1. "DATA" \in Req => For(ack) # ack /\ For(ack)' = ack
      BY <2>1, <2>5, <1>f DEF Subs
    <3>2. For(ack) # ack
      BY <2>1, <2>5, <1>c, <1>f
    <3> QED BY <1>0, <2>1, <2>3, <2>5, <3>1, <3>2, AckedSend DEF UpTypes
  <2>6. CASE ~ApiLocked /\ up' = up /\ wait' = IF SkipAck THEN wait ELSE "PUBACK"
    BY <1>c, <1>f, <2>1, <2>3, <2>6 DEF Acked
  <2> QED BY <2>2, <2>4, <2>5, <2>6 DEF Send
<1>12. CASE LoopPing
  BY <1>12, <1>c, <1>d, <1>f DEF LoopPing, UpTypes
<1>13. CASE App \/ Called
  <2>1. wait = "none" /\ api' = api
    BY <1>13, <1>0 DEF App, Called
  <2>2. \/ UNCHANGED <<wait, up>>
        \/ ~ApiLocked /\ Send("DATA") /\ wait' = IF SkipAck THEN wait ELSE "PUBACK"
    BY <1>13, <2>1, <1>0 DEF App, Called, Linked, PublishData, Locked
  <2>3. down' = down /\ ("DATA" \in Req => ~SkipAck /\ ack = "PUBACK")
    BY <1>13 DEF App, Called, Subs
  <2> QED BY <2>1, <2>2, <2>3, <1>a, <1>c, <1>d, <1>f DEF UpTypes
<1>14. CASE ApiPublish
  <2>1. /\ wait' = wait /\ down' = down /\ api = "checked" /\ (ack = "PUBACK" => wait # ack)
        /\ \/ UNCHANGED up
           \/ Send("DATA") /\ (~SkipAck => api' = "wait")
    BY <1>14 DEF ApiPublish, Locked
  <2>2. For(ack) = ack => For(ack)' = ack
    BY <2>1, <1>f
  <2>3. "DATA" \in Req => ~SkipAck /\ ack = "PUBACK"
    BY DEF Subs
  <2> QED BY <2>1, <2>2, <2>3, <1>a, <1>d, <1>f DEF UpTypes
<1>18. CASE ApiAcknowledged \/ ApiDeliver
  <2>1. /\ down # <<>> /\ down' = Tail(down) /\ UNCHANGED <<wait, up>> /\ api = "wait"
        /\ api' \in {"wait", "stuck"} \/ Head(down) = "PUBACK"
    BY <1>18 DEF ApiAcknowledged, ApiDeliver
  <2>2. For(ack) = ack => For(ack)' = ack \/ Head(down) = ack
    BY <2>1, <1>f
  <2> QED BY <2>1, <2>2, <1>0, AckedRead
<1>15. CASE FireWill \/ BrokerCommand
  <2>0. For(ack)' = For(ack)
    BY <1>15 DEF FireWill, BrokerCommand, For, ApiLocked
  <2>1. /\ UNCHANGED <<wait, up>>
        /\ \/ UNCHANGED down
           \/ \E p \in {"OL0", "CMD"} : down' = Append(down, p)
    BY <1>15 DEF FireWill, BrokerCommand
  <2>2. CASE UNCHANGED down
    BY <2>0, <2>1, <2>2, <1>a
  <2>3. ASSUME NEW p \in {"OL0", "CMD"}, down' = Append(down, p)
        PROVE  Acked(Req, ack, up', down', For(ack)')
    <3>1. p \in DownTypes /\ p # ack
      BY <1>c, <2>3 DEF DownTypes
    <3> QED BY <2>0, <2>1, <2>3, <3>1, <1>0, AckedOther
  <2> QED BY <2>1, <2>2, <2>3
<1>16. CASE BrokerReceive
  <2>1. PICK a \in Answer(Head(up)) : down' = down \o a
    BY <1>16 DEF BrokerReceive
  <2>2. up # <<>> /\ up' = Tail(up) /\ For(ack)' = For(ack) /\ Head(up) \in UpTypes
    BY <1>16, <1>0, HoldsTail DEF BrokerReceive, For, ApiLocked
  <2>3. /\ a \in Seq(DownTypes) /\ Once(a, {ack})
        /\ Head(up) \notin Req => Free(a, {ack})
    BY <2>1, <2>2, AnswerTypes, AnswerAcks DEF ToldInv
  <2> QED BY <2>1, <2>2, <2>3, <1>0, AckedAnswer
<1>17. CASE BrokerDeny
  <2>1. /\ up # <<>> /\ up' = Tail(up) /\ For(ack)' = For(ack) /\ down' = Append(down, "DENIED")
        /\ Head(up) \notin Req
    BY <1>17, <1>c DEF BrokerDeny, For, ApiLocked
  <2>2. down' = down \o <<"DENIED">> /\ <<"DENIED">> \in Seq(DownTypes)
    BY <2>1, <1>0 DEF DownTypes
  <2>3. Free(<<"DENIED">>, {ack})
    BY <1>c DEF Free
  <2> QED BY <2>1, <2>2, <2>3, <1>0, AckedAnswer
<1> QED
  BY <1>1, <1>2, <1>3, <1>4, <1>6, <1>8, <1>9, <1>10, <1>11, <1>12, <1>13, <1>14, <1>15, <1>16,
     <1>17, <1>18 DEF Next, Establish, Await, Run, Environment, Application, Api

AckInv ==
    /\ Acked(Subs, "SUBACK", up, down, wait)
    /\ ~SkipAck => Acked(Pubs, "PUBACK", up, down, For("PUBACK"))

\* Every step keeps AckInv.
LEMMA NextAckInv ==
    ASSUME AckInv, ToldInv, DeadlockInv, [Next]_vars
    PROVE  AckInv'
<1>1. For("SUBACK") = wait /\ For("SUBACK")' = wait'
  BY DEF For
<1>2. Acked(Subs, "SUBACK", up', down', wait')
  <2>1. Acked(Subs, "SUBACK", up, down, For("SUBACK"))
    BY <1>1 DEF AckInv
  <2>2. Acked(Subs, "SUBACK", up', down', For("SUBACK")')
    BY <2>1, NextAcked
  <2> QED BY <1>1, <2>2
<1>3. ~SkipAck => Acked(Pubs, "PUBACK", up', down', For("PUBACK")')
  BY NextAcked DEF AckInv
<1>4. SkipAck' = SkipAck
  BY ConfigKept
<1> QED BY <1>2, <1>3, <1>4 DEF AckInv

\* The correction of a late "offline" is on its way.
Corrected == Holds(up, "ONLINE") \/ Holds(down, "OL0") \/ needPubState

\* Only a session that is up watches its presence topic, and not before its
\* CONNECT is received; a session that runs does.
WatchInv ==
    /\ link # "up" => ~broker.session.lwt
    /\ Holds(up, "CONNECT") => ~broker.session.lwt
    /\ pc = "sublwt" /\ wait = "SUBACK" => ~Holds(up, "SUB")
    /\ pc = "sublwt" /\ Holds(down, "SUBACK") => broker.session.lwt
    /\ link = "up" /\ pc \in {"run", "state", "app", "call"} => broker.session.lwt

\* A will published after the broker took the correction reaches the board
\* behind its acknowledgement, which clears needPubState.
Late(d) == \E i, j \in DOMAIN d : i < j /\ d[i] = "PUBACK" /\ d[j] = "OL0"

\* A watched "offline" is being corrected.
OfflineInv ==
    /\ link = "up" /\ broker.session.lwt /\ broker.retained = "OL0" => Corrected
    /\ pc = "state" /\ wait = "PUBACK" => ~Holds(up, "ASK") /\ ~Holds(up, "DATA")
    /\ (link = "up" /\ pc = "state" /\ wait = "PUBACK" /\ broker.retained = "OL0"
            /\ Holds(down, "PUBACK")) => Late(down)

\* A packet waits, or none, in the words of Holds.
LEMMA FreeHolds == \A s, p : ~Holds(s, p) <=> Free(s, {p})
BY DEF Holds, Members, Free

\* What is held by the sequence to which an answer is appended.
LEMMA HoldsConcat ==
    ASSUME NEW S, NEW s \in Seq(S), NEW t \in Seq(S), NEW x
    PROVE  Holds(s \o t, x) <=> Holds(s, x) \/ Holds(t, x)
<1>1. /\ \A i \in DOMAIN s : i \in DOMAIN (s \o t) /\ (s \o t)[i] = s[i]
      /\ \A i \in DOMAIN t : i + Len(s) \in DOMAIN (s \o t) /\ (s \o t)[i + Len(s)] = t[i]
      /\ \A i \in DOMAIN (s \o t) :
            \/ i \in DOMAIN s /\ (s \o t)[i] = s[i]
            \/ i - Len(s) \in DOMAIN t /\ (s \o t)[i] = t[i - Len(s)]
  OBVIOUS
<1>2. ASSUME Holds(s \o t, x) PROVE Holds(s, x) \/ Holds(t, x)
  BY <1>1, <1>2 DEF Holds, Members
<1>3. ASSUME NEW i \in DOMAIN s, s[i] = x PROVE Holds(s \o t, x)
  <2>1. i \in DOMAIN (s \o t) /\ (s \o t)[i] = x
    BY <1>1, <1>3
  <2> QED BY <2>1 DEF Holds, Members
<1>4. ASSUME NEW i \in DOMAIN t, t[i] = x PROVE Holds(s \o t, x)
  <2>1. i + Len(s) \in DOMAIN (s \o t) /\ (s \o t)[i + Len(s)] = x
    BY <1>1, <1>4
  <2> QED BY <2>1 DEF Holds, Members
<1> QED BY <1>2, <1>3, <1>4 DEF Holds, Members

\* How a will behind an acknowledgement moves.
LEMMA LateMoves ==
    ASSUME NEW d \in Seq(DownTypes)
    PROVE  /\ d # <<>> /\ Late(d) /\ Head(d) # "PUBACK" => Late(Tail(d))
           /\ d # <<>> /\ Late(d) /\ Head(d) = "PUBACK" => Holds(Tail(d), "OL0")
           /\ \A p \in DownTypes : Late(d) => Late(Append(d, p))
           /\ Holds(d, "PUBACK") => Late(Append(d, "OL0"))
           /\ \A a \in Seq(DownTypes) : Late(d) => Late(d \o a)
<1>1. ASSUME NEW i \in DOMAIN d, NEW j \in DOMAIN d, i < j, d[i] = "PUBACK", d[j] = "OL0"
      PROVE  /\ Head(d) # "PUBACK" => Late(Tail(d))
             /\ Head(d) = "PUBACK" => Holds(Tail(d), "OL0")
             /\ \A p \in DownTypes : Late(Append(d, p))
             /\ \A a \in Seq(DownTypes) : Late(d \o a)
  <2>1. j - 1 \in DOMAIN Tail(d) /\ Tail(d)[j - 1] = "OL0" /\ d # <<>>
    BY <1>1
  <2>2. Holds(Tail(d), "OL0")
    BY <2>1 DEF Holds, Members
  <2>3. ASSUME Head(d) # "PUBACK" PROVE Late(Tail(d))
    <3>1. i # 1
      BY <1>1, <2>3
    <3>2. i - 1 \in DOMAIN Tail(d) /\ Tail(d)[i - 1] = "PUBACK" /\ i - 1 < j - 1
      BY <1>1, <3>1
    <3> QED BY <2>1, <3>2 DEF Late
  <2>4. ASSUME NEW p \in DownTypes PROVE Late(Append(d, p))
    <3>1. /\ i \in DOMAIN Append(d, p) /\ Append(d, p)[i] = d[i]
          /\ j \in DOMAIN Append(d, p) /\ Append(d, p)[j] = d[j]
      OBVIOUS
    <3> QED BY <1>1, <3>1 DEF Late
  <2>5. ASSUME NEW a \in Seq(DownTypes) PROVE Late(d \o a)
    <3>1. /\ i \in DOMAIN (d \o a) /\ (d \o a)[i] = d[i]
          /\ j \in DOMAIN (d \o a) /\ (d \o a)[j] = d[j]
      OBVIOUS
    <3> QED BY <1>1, <3>1 DEF Late
  <2> QED BY <2>2, <2>3, <2>4, <2>5
<1>2. ASSUME NEW i \in DOMAIN d, d[i] = "PUBACK" PROVE Late(Append(d, "OL0"))
  <2>1. "OL0" \in DownTypes
    BY DEF DownTypes
  <2>2. /\ i \in DOMAIN Append(d, "OL0") /\ Append(d, "OL0")[i] = "PUBACK"
        /\ Len(d) + 1 \in DOMAIN Append(d, "OL0") /\ Append(d, "OL0")[Len(d) + 1] = "OL0"
        /\ i < Len(d) + 1
    BY <1>2, <2>1
  <2> QED BY <2>2 DEF Late
<1> QED BY <1>1, <1>2 DEF Late, Holds, Members

\* A step that leaves the link and the session alone.
LEMMA WatchStay ==
    ASSUME WatchInv, link' = link, broker'.session = broker.session,
           Holds(up', "CONNECT") => Holds(up, "CONNECT"),
           pc' = "sublwt" /\ wait' = "SUBACK" /\ Holds(up', "SUB")
              => pc = "sublwt" /\ wait = "SUBACK" /\ Holds(up, "SUB"),
           pc' = "sublwt" /\ Holds(down', "SUBACK") => pc = "sublwt" /\ Holds(down, "SUBACK"),
           pc' \in {"run", "state", "app", "call"}
              => pc \in {"run", "state", "app", "call"} \/ link # "up" \/ broker.session.lwt
    PROVE  WatchInv'
BY DEF WatchInv

\* The end of a connection.
LEMMA WatchEnd ==
    ASSUME NetType, WatchInv, NEW l \in {"closed", "dead"}, NEW clean, EndLink(l, clean)
    PROVE  /\ WatchInv' /\ link' # "up" /\ up' = <<>>
           /\ ~broker'.session.lwt
<1>1. link' # "up" /\ up' = <<>> /\ down' = <<>>
  BY DEF EndLink
<1>2. ~broker'.session.lwt
  <2>1. CASE link = "up"
    <3>1. PICK w : broker' = [broker EXCEPT !.session = NoSession, !.wills = @ + w]
      BY <2>1 DEF EndLink, Ended
    <3> QED BY <3>1 DEF NetType, Broker, NoSession
  <2>2. CASE link # "up"
    BY <2>2 DEF EndLink, WatchInv
  <2> QED BY <2>1, <2>2
<1>3. \A x : ~Holds(<<>>, x)
  BY DEF Holds, Members
<1> QED BY <1>1, <1>2, <1>3 DEF WatchInv

\* Sending p.
LEMMA SendHolds ==
    ASSUME NetType, NEW p \in UpTypes, Send(p)
    PROVE  /\ \A x : Holds(up, x) => Holds(up', x)
           /\ \A x : Holds(up', x) => Holds(up, x) \/ x = p
           /\ link = "up" => Holds(up', p)
BY HoldsAppend DEF NetType, Send

\* Every step keeps WatchInv.
LEMMA NextWatchInv ==
    ASSUME WatchInv, AckInv, StaleAll, ToldInv, DeadlockInv, [Next]_vars
    PROVE  WatchInv'
<1>0. /\ wait = "CONNACK" => pc = "connect"
      /\ wait = "SUBACK" => pc \in {"sub1", "sub2", "sublwt"}
      /\ wait = "PUBACK" => ~SkipAck /\ pc \in {"online", "ask", "state", "app", "stuck"}
      /\ wait \in {"none", "CONNACK", "SUBACK", "PUBACK"}
      /\ connected => pc \in {"idle", "run", "state", "app", "call", "stuck"}
      /\ NetType /\ up \in Seq(UpTypes) /\ down \in Seq(DownTypes)
      /\ link = "up" /\ wait # "CONNACK" => Linked /\ pc \notin {"connect", "backoff"}
  BY DEF DeadlockInv, WaitInv, ConnInv, ToldInv, NetType, StaleAll, LinkInv, Linked
<1>a. wait # "SUBACK" => ~Holds(up, "SUB") /\ ~Holds(up, "SUBLWT") /\ ~Holds(down, "SUBACK")
  BY FreeHolds DEF AckInv, Acked, Free, Subs, Holds, Members
<1>b. ASSUME NEW l \in {"closed", "dead"}, NEW clean, EndLink(l, clean) PROVE WatchInv'
  BY <1>0, <1>b, WatchEnd
<1>1. CASE Connect \/ LoopPongTimeout \/ LoopCollides \/ LoopLost
  <2>1. PICK lost : StartConnect(lost)
    BY <1>1 DEF Connect, LoopPongTimeout, LoopCollides, LoopLost
  <2>2. CASE UNCHANGED <<net, broker>>
    BY <2>1, <2>2, WatchStay DEF StartConnect, net
  <2> QED BY <2>1, <2>2, <1>b DEF StartConnect
<1>2. CASE Refused
  BY <1>2, WatchStay DEF Refused, AttemptFailed, net
<1>3. CASE Open
  <2>1. link # "up" /\ ~broker.session.lwt /\ broker' = broker /\ pc' = "connect"
    BY <1>3, <1>0 DEF Open, WatchInv
  <2> QED BY <2>1 DEF WatchInv
<1>4. CASE Backoff \/ LoopState
  BY <1>4, WatchStay DEF Backoff, LoopState, net
<1>5. CASE ApiCheck \/ TimePasses \/ UNCHANGED vars
  BY <1>5, WatchStay DEF ApiCheck, TimePasses, vars, state, net
<1>6. CASE Settle
  <2>1. wait = "none"
    BY <1>6, <1>0 DEF Settle
  <2> QED BY <1>6, <2>1, <1>a, WatchStay DEF Settle, net
<1>7. ASSUME NEW p \in UpTypes, NEW k, Request(p, k), p # "CONNECT", p = "SUB" => pc # "sublwt",
             pc \in {"sub1", "sub2", "online", "ask", "sublwt", "state"},
             pc = "sublwt" => k = "SUBACK"
      PROVE  WatchInv'
  <2>0. wait = "none" /\ link' = link /\ down' = down /\ broker' = broker
    BY <1>7 DEF Request
  <2>1. CASE ~Linked
    <3>1. link # "up" /\ up' = up /\ wait' = "none"
      BY <1>7, <1>0, <2>0, <2>1 DEF Request, Continue, AttemptFailed
    <3> QED BY <2>0, <3>1, <1>a, WatchStay
  <2>2. CASE Linked
    <3>1. Send(p)
      BY <1>7, <2>2 DEF Request
    <3>2. \A x : Holds(up', x) => Holds(up, x) \/ x = p
      BY <3>1, <1>0, SendHolds
    <3>3. pc' = "sublwt" /\ p = "SUB" => wait' # "SUBACK"
      BY <1>7, <2>2 DEF Request, Continue, Following
    <3>4. pc' \in {"run", "state", "app", "call"} => pc = "state"
      BY <1>7, <2>2 DEF Request, Continue, Following
    <3> QED BY <1>7, <2>0, <3>2, <3>3, <3>4, <1>a, WatchStay
  <2> QED BY <2>1, <2>2
<1>8. CASE SubscribeTopics \/ PublishOnline \/ PublishAsk \/ SubscribeLWT \/ PublishState
  BY <1>7, <1>8
     DEF SubscribeTopics, PublishOnline, PublishAsk, SubscribeLWT, PublishState, UpTypes
<1>9. CASE Acknowledged
  <2>1. /\ down # <<>> /\ down' = Tail(down) /\ Head(down) = wait /\ wait # "none" /\ pc # "stuck"
        /\ UNCHANGED <<up, link, broker>> /\ wait' = "none"
    BY <1>9 DEF Acknowledged, Continue
  <2>2. /\ Holds(down, wait)
        /\ Holds(down', "SUBACK") => Holds(down, "SUBACK")
    BY <2>1, <1>0, HoldsTail
  <2>3. pc' = "sublwt" => wait # "SUBACK"
    BY <1>9, <1>0 DEF Acknowledged, Continue, Following
  <2>4. pc' \in {"run", "state", "app", "call"} => pc \in {"sublwt", "state", "app"}
    BY <1>9, <1>0, <2>1 DEF Acknowledged, Continue, Following
  <2>5. pc = "sublwt" => broker.session.lwt
    <3>1. pc = "sublwt" => wait = "SUBACK"
      BY <2>1, <1>0
    <3> QED BY <3>1, <2>2 DEF WatchInv
  <2> QED BY <2>1, <2>2, <2>3, <2>4, <2>5, <1>a, WatchStay
<1>10. CASE WaitFails \/ Disconnect \/ Drop \/ Stall \/ TcpGiveUp \/ ApiWaitFails
  BY <1>10, <1>b DEF WaitFails, ApiWaitFails, Close, Disconnect, Drop, Stall, TcpGiveUp
<1>11. CASE Deliver
  <2>1. down # <<>> /\ down' = Tail(down) /\ UNCHANGED <<link, broker>>
    BY <1>11 DEF Deliver
  <2>2. UNCHANGED <<wait, up>> /\ (pc' = pc \/ pc' = "stuck")
    BY <1>11, <1>0 DEF Deliver, Handle, PublishData, Locked
  <2>3. Holds(down', "SUBACK") => Holds(down, "SUBACK")
    BY <2>1, <1>0, HoldsTail
  <2> QED BY <2>1, <2>2, <2>3, WatchStay
<1>12. CASE LoopRead \/ App \/ Called
  <2>1. /\ UNCHANGED <<link, broker>> /\ pc' # "sublwt"
        /\ pc' \in {"run", "state", "app", "call"} => pc \in {"run", "call"}
        /\ Send("DATA") \/ up' = up
    BY <1>12, <1>0 DEF LoopRead, App, Called, Handle, PublishData
  <2>2. Holds(up', "CONNECT") => Holds(up, "CONNECT")
    BY <2>1, <1>0, SendHolds DEF UpTypes
  <2> QED BY <2>1, <2>2, WatchStay
<1>13. CASE LoopPing \/ ApiPublish
  <2>1. PICK p \in {"PINGREQ", "DATA"} : Send(p) \/ up' = up
    BY <1>13 DEF LoopPing, ApiPublish
  <2>2. UNCHANGED <<link, broker, down, pc, wait>>
    BY <1>13 DEF LoopPing, ApiPublish
  <2>3. \A x \in {"CONNECT", "SUB"} : Holds(up', x) => Holds(up, x)
    BY <2>1, <1>0, SendHolds DEF UpTypes
  <2> QED BY <2>2, <2>3, WatchStay
<1>17. CASE ApiAcknowledged \/ ApiDeliver
  <2>1. down # <<>> /\ down' = Tail(down) /\ UNCHANGED <<link, broker, pc, wait, up>>
    BY <1>17 DEF ApiAcknowledged, ApiDeliver
  <2>2. Holds(down', "SUBACK") => Holds(down, "SUBACK")
    BY <2>1, <1>0, HoldsTail
  <2> QED BY <2>1, <2>2, WatchStay
<1>14. CASE FireWill \/ BrokerCommand
  <2>1. /\ broker'.session = broker.session /\ UNCHANGED <<link, up, pc, wait>>
        /\ \/ down' = down
           \/ \E p \in {"OL0", "CMD"} : down' = Append(down, p)
    BY <1>14, <1>0 DEF FireWill, BrokerCommand, NetType, Broker
  <2>2. Holds(down', "SUBACK") => Holds(down, "SUBACK")
    <3>1. "OL0" \in DownTypes /\ "CMD" \in DownTypes
      BY DEF DownTypes
    <3>2. ASSUME NEW p \in {"OL0", "CMD"}, down' = Append(down, p)
          PROVE  Holds(down', "SUBACK") => Holds(down, "SUBACK")
      BY <3>1, <3>2, <1>0, HoldsAppend
    <3> QED BY <2>1, <3>2
  <2> QED BY <2>1, <2>2, WatchStay
<1>15. CASE BrokerDeny
  <2>1. /\ UNCHANGED <<broker, link, pc, wait>> /\ up # <<>> /\ up' = Tail(up)
        /\ down' = Append(down, "DENIED")
    BY <1>15 DEF BrokerDeny
  <2>2. /\ Holds(down', "SUBACK") => Holds(down, "SUBACK")
        /\ \A x \in {"CONNECT", "SUB"} : Holds(up', x) => Holds(up, x)
    BY <2>1, <1>0, HoldsTail, HoldsAppend DEF DownTypes
  <2> QED BY <2>1, <2>2, WatchStay
<1>16. CASE BrokerReceive
  <2>1. PICK a \in Answer(Head(up)) : down' = down \o a
    BY <1>16 DEF BrokerReceive
  <2>2. /\ up # <<>> /\ up' = Tail(up) /\ UNCHANGED <<link, pc, wait>> /\ Head(up) \in UpTypes
        /\ broker' = Received(Head(up)) /\ link = "up"
        /\ \A x : Holds(up, x) <=> Head(up) = x \/ Holds(up', x)
    BY <1>16, <1>0, HoldsTail DEF BrokerReceive
  <2>3. ~Holds(up', "CONNECT") /\ (Head(up) = "CONNECT" => wait = "CONNACK")
    <3>1. /\ \A i \in DOMAIN Tail(up) : i + 1 \in DOMAIN up /\ Tail(up)[i] = up[i + 1] /\ i + 1 # 1
          /\ 1 \in DOMAIN up /\ up[1] = Head(up)
      BY <2>2, <1>0
    <3> QED BY <2>2, <3>1 DEF ToldInv, ConnectFirst, Holds, Members
  <2>4. /\ Head(up) = "SUBLWT" => broker'.session.lwt
        /\ Head(up) # "CONNECT" /\ broker.session.lwt => broker'.session.lwt
    BY <2>2, <1>0 DEF Received, NetType, Broker
  <2>5. ASSUME pc = "sublwt", Holds(down', "SUBACK") PROVE broker'.session.lwt
    <3>1. a \in Seq(DownTypes) /\ (Head(up) \notin Subs => Free(a, {"SUBACK"}))
      BY <2>1, <2>2, <1>0, AnswerTypes, AnswerAcks
    <3>2. Holds(down, "SUBACK") \/ Holds(a, "SUBACK")
      BY <2>1, <2>5, <3>1, <1>0, HoldsConcat
    <3>3. Head(up) # "CONNECT"
      BY <2>3, <2>5, <1>0
    <3>4. CASE Holds(down, "SUBACK")
      BY <2>4, <2>5, <3>3, <3>4 DEF WatchInv
    <3>5. CASE Holds(a, "SUBACK")
      <4>1. Head(up) \in Subs
        BY <3>1, <3>5, FreeHolds
      <4>2. wait = "SUBACK"
        BY <2>2, <4>1, <1>a DEF Subs
      <4>3. Head(up) # "SUB"
        BY <2>2, <2>5, <4>2 DEF WatchInv
      <4> QED BY <2>4, <4>1, <4>3 DEF Subs
    <3> QED BY <3>2, <3>4, <3>5
  <2>6. ASSUME pc \in {"run", "state", "app", "call"} PROVE broker'.session.lwt
    BY <2>2, <2>3, <2>4, <2>6, <1>0 DEF WatchInv
  <2> QED BY <2>2, <2>3, <2>5, <2>6 DEF WatchInv
<1> QED
  BY <1>1, <1>2, <1>3, <1>4, <1>5, <1>6, <1>8, <1>9, <1>10, <1>11, <1>12, <1>13, <1>14, <1>15,
     <1>16, <1>17 DEF Next, Establish, Await, Run, Environment, Application, Api

\* A step that leaves the link alone, loses no correction and adds nothing to
\* what a repeated "online" waits for.
LEMMA OfflineStay ==
    ASSUME OfflineInv, link' = link,
           broker'.session.lwt => broker.session.lwt,
           broker'.retained = "OL0" => broker.retained = "OL0",
           Corrected => Corrected',
           pc' = "state" /\ wait' = "PUBACK" =>
              /\ pc = "state" /\ wait = "PUBACK"
              /\ Holds(up', "ASK") => Holds(up, "ASK")
              /\ Holds(up', "DATA") => Holds(up, "DATA")
              /\ Holds(down', "PUBACK") => Holds(down, "PUBACK")
              /\ Late(down) => Late(down')
    PROVE  OfflineInv'
BY DEF OfflineInv

\* The end of a connection.
LEMMA OfflineEnd ==
    ASSUME NetType, WatchInv, NEW l \in {"closed", "dead"}, NEW clean, EndLink(l, clean)
    PROVE  OfflineInv'
<1>1. link' # "up" /\ up' = <<>>
  BY WatchEnd
<1>2. \A x : ~Holds(<<>>, x)
  BY DEF Holds, Members
<1> QED BY <1>1, <1>2 DEF OfflineInv

\* A packet read by the board: an "offline" is noted, and nothing else is lost.
LEMMA OfflineRead ==
    ASSUME NetType, down # <<>>, down' = Tail(down),
           needPubState \/ Head(down) = "OL0" => needPubState',
           Holds(up, "ONLINE") => Holds(up', "ONLINE")
    PROVE  Corrected => Corrected'
<1>1. Holds(down, "OL0") <=> Head(down) = "OL0" \/ Holds(Tail(down), "OL0")
  BY HoldsTail DEF NetType
<1> QED BY <1>1 DEF Corrected

\* A request other than the repeated "online".
LEMMA OfflineRequest ==
    ASSUME OfflineInv, NetType, NEW p \in UpTypes, NEW k, Request(p, k),
           pc \in {"sub1", "sub2", "online", "ask", "sublwt"}
    PROVE  OfflineInv'
<1>1. UNCHANGED <<link, down, broker>> /\ (Send(p) \/ up' = up)
  BY DEF Request
<1>2. pc' # "state" /\ (needPubState' <=> needPubState)
  BY DEF Request, Continue, Following, session
<1>3. Holds(up, "ONLINE") => Holds(up', "ONLINE")
  BY <1>1, SendHolds
<1> QED BY <1>1, <1>2, <1>3, OfflineStay DEF Corrected

\* The repeated "online" is on its way, or the connection is lost.
LEMMA OfflineRepeat ==
    ASSUME OfflineInv, AckInv, NetType, PublishState, link = "up" => Linked
    PROVE  OfflineInv'
<1>1. /\ pc = "state" /\ wait = "none" /\ UNCHANGED <<link, down, broker>>
      /\ Request("ONLINE", "PUBACK")
  BY DEF PublishState, Request
<1>2. CASE ~Linked
  <2>1. pc' = "run" /\ link' # "up"
    BY <1>1, <1>2 DEF Request, Continue, Following
  <2> QED BY <2>1 DEF OfflineInv
<1>3. CASE Linked
  <2>1. Send("ONLINE") /\ "ONLINE" \in UpTypes
    BY <1>1, <1>3 DEF Request, UpTypes
  <2>2. /\ link = "up" => Holds(up', "ONLINE")
        /\ \A x : Holds(up', x) => Holds(up, x) \/ x = "ONLINE"
    BY <2>1, SendHolds
  <2>3. CASE SkipAck
    <3>1. pc' = "run"
      BY <1>1, <1>3, <2>3 DEF Request, Continue, Following
    <3> QED BY <1>1, <2>2, <3>1 DEF OfflineInv, Corrected
  <2>4. CASE ~SkipAck
    <3>1. Free(up, Pubs) /\ Free(down, {"PUBACK"})
      BY <1>1, <2>4 DEF AckInv, Acked, For, Request
    <3>2. ~Holds(up, "ASK") /\ ~Holds(up, "DATA") /\ ~Holds(down, "PUBACK")
      BY <3>1 DEF Free, Pubs, Holds, Members
    <3> QED BY <1>1, <2>2, <3>2 DEF OfflineInv, Corrected
  <2> QED BY <2>3, <2>4
<1> QED BY <1>2, <1>3

\* The wait of a call ends with its acknowledgement: that of the repeated
\* "online" clears needPubState, and a later will is behind it.
LEMMA OfflineAcknowledged ==
    ASSUME OfflineInv, NetType, Acknowledged,
           pc = "state" /\ wait # "none" => wait = "PUBACK", wait \in {"none"} \cup Acks
    PROVE  OfflineInv'
<1>1. /\ link = "up" /\ down # <<>> /\ Head(down) = wait /\ wait # "none" /\ down' = Tail(down)
      /\ UNCHANGED <<link, up, broker>> /\ Continue(TRUE) /\ wait' = "none"
  BY DEF Acknowledged, Continue
<1>2. CASE pc = "state"
  <2>1. pc' = "run" /\ Head(down) = "PUBACK"
    BY <1>1, <1>2 DEF Continue, Following
  <2>2. Holds(down, "PUBACK")
    BY <1>1, <2>1, HoldsTail DEF NetType
  <2>3. broker.retained = "OL0" => Late(down)
    BY <1>1, <1>2, <2>1, <2>2 DEF OfflineInv
  <2>4. broker.retained = "OL0" => Holds(down', "OL0")
    BY <1>1, <2>1, <2>3, LateMoves DEF NetType
  <2> QED BY <1>1, <2>1, <2>4 DEF OfflineInv, Corrected
<1>3. CASE pc # "state"
  <2>1. needPubState' <=> needPubState
    BY <1>1, <1>3 DEF Continue
  <2>2. Head(down) # "OL0"
    BY <1>1 DEF Acks
  <2>3. Corrected => Corrected'
    BY <1>1, <2>1, <2>2, OfflineRead
  <2> QED BY <1>1, <2>3, OfflineStay
<1> QED BY <1>2, <1>3

\* A will reaches a board that watches, behind everything on its way there.
LEMMA OfflineWill ==
    ASSUME OfflineInv, WatchInv, NetType, FireWill
    PROVE  OfflineInv'
<1>1. /\ broker'.session = broker.session /\ UNCHANGED <<pc, wait, link, up>>
      /\ down' = IF broker.session.lwt THEN Append(down, "OL0") ELSE down
  BY DEF FireWill, NetType, Broker
<1>2. "OL0" \in DownTypes
  BY DEF DownTypes
<1>3. broker.session.lwt => Holds(down', "OL0")
  BY <1>1, <1>2, HoldsAppend DEF NetType
<1>4. broker.session.lwt /\ Holds(down', "PUBACK") => Late(down')
  <2>1. Holds(Append(down, "OL0"), "PUBACK") => Holds(down, "PUBACK")
    BY <1>2, HoldsAppend DEF NetType
  <2>2. Holds(down, "PUBACK") => Late(Append(down, "OL0"))
    BY LateMoves DEF NetType
  <2> QED BY <1>1, <2>1, <2>2
<1> QED BY <1>1, <1>3, <1>4 DEF OfflineInv, WatchInv, Corrected

\* The broker takes a packet: "online" replaces the presence, a subscription
\* to the presence topic is answered with it.
LEMMA OfflineReceive ==
    ASSUME OfflineInv, NetType, BrokerReceive
    PROVE  OfflineInv'
<1>1. PICK a \in Answer(Head(up)) : down' = down \o a
  BY DEF BrokerReceive
<1>2. /\ up # <<>> /\ up' = Tail(up) /\ UNCHANGED <<link, pc, wait, needPubState>>
      /\ broker' = Received(Head(up)) /\ Head(up) \in UpTypes
  BY HoldsTail DEF BrokerReceive, NetType, session
<1>3. \A x : Holds(up, x) <=> Head(up) = x \/ Holds(up', x)
  BY <1>2, HoldsTail DEF NetType
<1>4. /\ a \in Seq(DownTypes)
      /\ Head(up) \notin Pubs => Free(a, {"PUBACK"})
      /\ Head(up) = "SUBLWT" /\ broker.retained = "OL0" => Holds(a, "OL0")
  BY <1>2, AnswerTypes, AnswerAcks
<1>5. \A x : Holds(down', x) <=> Holds(down, x) \/ Holds(a, x)
  BY <1>1, <1>4, HoldsConcat DEF NetType
<1>6. CASE Head(up) = "ONLINE"
  <2>1. broker'.retained = "OL1"
    BY <1>2, <1>6 DEF Received, NetType, Broker
  <2> QED BY <1>2, <1>3, <2>1 DEF OfflineInv
<1>7. CASE Head(up) # "ONLINE"
  <2>1. /\ broker'.retained = broker.retained
        /\ broker'.session.lwt => broker.session.lwt \/ Head(up) = "SUBLWT"
    BY <1>2, <1>7 DEF Received, NetType, Broker, NoSession
  <2>2. link' = "up" /\ broker'.session.lwt /\ broker'.retained = "OL0" => Corrected'
    BY <1>2, <1>3, <1>4, <1>5, <1>7, <2>1 DEF OfflineInv, Corrected
  <2>3. ASSUME pc = "state", wait = "PUBACK", link = "up", broker.retained = "OL0",
               Holds(down', "PUBACK")
        PROVE  Late(down')
    <3>1. ~Holds(a, "PUBACK")
      BY <1>3, <1>4, <1>7, <2>3, FreeHolds DEF OfflineInv, Pubs
    <3>2. Late(down)
      BY <1>5, <2>3, <3>1 DEF OfflineInv
    <3> QED BY <1>1, <1>4, <3>2, LateMoves DEF NetType
  <2> QED BY <1>2, <1>3, <2>1, <2>2, <2>3 DEF OfflineInv
<1> QED BY <1>6, <1>7

\* Every step keeps OfflineInv.
LEMMA NextOfflineInv ==
    ASSUME OfflineInv, WatchInv, AckInv, StaleAll, ToldInv, DeadlockInv, [Next]_vars
    PROVE  OfflineInv'
<1>0. /\ wait = "CONNACK" => pc = "connect"
      /\ wait = "SUBACK" => pc \in {"sub1", "sub2", "sublwt"}
      /\ wait = "PUBACK" => ~SkipAck /\ pc \in {"online", "ask", "state", "app", "stuck"}
      /\ wait \in {"none", "CONNACK", "SUBACK", "PUBACK"}
      /\ connected => pc \in {"idle", "run", "state", "app", "call", "stuck"}
      /\ NetType /\ up \in Seq(UpTypes) /\ down \in Seq(DownTypes)
      /\ link = "up" /\ wait # "CONNACK" => Linked /\ pc \notin {"connect", "backoff"}
  BY DEF DeadlockInv, WaitInv, ConnInv, ToldInv, NetType, StaleAll, LinkInv, Linked
<1>a. ASSUME UNCHANGED <<link, up, down, broker, needPubState>>,
             pc' = "state" /\ wait' = "PUBACK" => pc = "state" /\ wait = "PUBACK"
      PROVE  OfflineInv'
  BY <1>a, OfflineStay DEF Corrected
<1>b. ASSUME NEW l \in {"closed", "dead"}, NEW clean, EndLink(l, clean) PROVE OfflineInv'
  BY <1>0, <1>b, OfflineEnd
<1>1. CASE Connect \/ LoopPongTimeout \/ LoopCollides \/ LoopLost
  <2>1. PICK lost : StartConnect(lost)
    BY <1>1 DEF Connect, LoopPongTimeout, LoopCollides, LoopLost
  <2>2. CASE UNCHANGED <<net, broker>>
    BY <2>1, <2>2, <1>a DEF StartConnect, net
  <2> QED BY <2>1, <2>2, <1>b DEF StartConnect
<1>2. CASE Refused
  BY <1>2, <1>a DEF Refused, AttemptFailed, net
<1>3. CASE Open
  <2>1. ~broker.session.lwt /\ broker' = broker /\ pc' = "connect"
    BY <1>3, <1>0 DEF Open, WatchInv
  <2> QED BY <2>1 DEF OfflineInv
<1>4. CASE Backoff \/ Settle \/ LoopState
  BY <1>0, <1>4, <1>a DEF Backoff, Settle, LoopState, net, session
<1>5. CASE ApiCheck \/ TimePasses \/ UNCHANGED vars
  BY <1>5, <1>a DEF ApiCheck, TimePasses, vars, state, net, session
<1>6. CASE SubscribeTopics \/ PublishOnline \/ PublishAsk \/ SubscribeLWT
  BY <1>0, <1>6, OfflineRequest
     DEF SubscribeTopics, PublishOnline, PublishAsk, SubscribeLWT, UpTypes
<1>7. CASE PublishState
  BY <1>0, <1>7, OfflineRepeat DEF PublishState, Request
<1>8. CASE Acknowledged
  BY <1>0, <1>8, OfflineAcknowledged DEF Acks
<1>9. CASE WaitFails \/ Disconnect \/ Drop \/ Stall \/ TcpGiveUp \/ ApiWaitFails
  BY <1>9, <1>b DEF WaitFails, ApiWaitFails, Close, Disconnect, Drop, Stall, TcpGiveUp
<1>10. CASE Deliver
  <2>1. /\ down # <<>> /\ down' = Tail(down) /\ UNCHANGED <<link, broker>> /\ Head(down) # wait
        /\ needPubState \/ Head(down) = "OL0" => needPubState'
    BY <1>10 DEF Deliver, Handle
  <2>2. UNCHANGED <<wait, up>> /\ (pc' = pc \/ pc' = "stuck")
    BY <1>10, <1>0 DEF Deliver, Handle, PublishData, Locked
  <2>3. Corrected => Corrected'
    BY <2>1, <2>2, <1>0, OfflineRead
  <2>4. Holds(down', "PUBACK") => Holds(down, "PUBACK")
    BY <2>1, <1>0, HoldsTail
  <2>5. wait = "PUBACK" /\ Late(down) => Late(down')
    BY <2>1, <1>0, LateMoves
  <2> QED BY <2>1, <2>2, <2>3, <2>4, <2>5, OfflineStay
<1>11. CASE LoopRead
  <2>1. /\ down # <<>> /\ down' = Tail(down) /\ UNCHANGED <<link, broker>> /\ pc' # "state"
        /\ needPubState \/ Head(down) = "OL0" => needPubState'
        /\ Send("DATA") \/ up' = up
    BY <1>11 DEF LoopRead, Handle, PublishData
  <2>2. Holds(up, "ONLINE") => Holds(up', "ONLINE")
    BY <2>1, <1>0, SendHolds DEF UpTypes
  <2>3. Corrected => Corrected'
    BY <2>1, <2>2, <1>0, OfflineRead
  <2> QED BY <2>1, <2>3, OfflineStay
<1>16. CASE ApiAcknowledged \/ ApiDeliver
  <2>1. /\ down # <<>> /\ down' = Tail(down) /\ UNCHANGED <<link, broker, pc, wait, up>>
        /\ needPubState \/ Head(down) = "OL0" => needPubState'
        /\ api = "wait"
    <3>1. CASE ApiAcknowledged
      BY <3>1 DEF ApiAcknowledged, session
    <3>2. CASE ApiDeliver
      BY <3>2 DEF ApiDeliver
    <3> QED BY <1>16, <3>1, <3>2
  <2>2. wait # "PUBACK"
    BY <2>1 DEF DeadlockInv, WaitInv, ApiLocked, Locked
  <2>3. Corrected => Corrected'
    BY <2>1, <1>0, OfflineRead
  <2> QED BY <2>1, <2>2, <2>3, OfflineStay
<1>12. CASE App \/ LoopPing \/ ApiPublish \/ Called
  <2>1. PICK p \in {"PINGREQ", "DATA"} : Send(p) \/ up' = up
    BY <1>12 DEF App, PublishData, LoopPing, ApiPublish, Called
  <2>2. /\ UNCHANGED <<link, broker, down, needPubState>>
        /\ ~(pc' = "state" /\ wait' = "PUBACK")
    BY <1>12, <1>0 DEF App, PublishData, LoopPing, ApiPublish, Called, Locked, session
  <2>3. Holds(up, "ONLINE") => Holds(up', "ONLINE")
    BY <2>1, <1>0, SendHolds DEF UpTypes
  <2> QED BY <2>2, <2>3, OfflineStay DEF Corrected
<1>13. CASE FireWill
  BY <1>0, <1>13, OfflineWill
<1>14. CASE BrokerCommand \/ BrokerDeny
  <2>1. /\ UNCHANGED <<link, broker, pc, wait, needPubState>>
        /\ \/ up' = up
           \/ up # <<>> /\ up' = Tail(up) /\ Head(up) = "CONNECT"
    BY <1>14 DEF BrokerCommand, BrokerDeny, session
  <2>2. PICK p \in {"CMD", "DENIED"} : down' = Append(down, p)
    BY <1>14 DEF BrokerCommand, BrokerDeny
  <2>3. \A x \in {"ONLINE", "ASK", "DATA"} : Holds(up', x) <=> Holds(up, x)
    BY <2>1, <1>0, HoldsTail
  <2>4. p \in DownTypes
    BY DEF DownTypes
  <2>5. \A x : Holds(down', x) <=> Holds(down, x) \/ p = x
    BY <2>2, <2>4, <1>0, HoldsAppend
  <2>6. Late(down) => Late(down')
    BY <2>2, <2>4, <1>0, LateMoves
  <2> QED BY <2>1, <2>3, <2>5, <2>6, OfflineStay DEF Corrected
<1>15. CASE BrokerReceive
  BY <1>0, <1>15, OfflineReceive
<1> QED
  BY <1>1, <1>2, <1>3, <1>4, <1>5, <1>6, <1>7, <1>8, <1>9, <1>10, <1>11, <1>12, <1>13, <1>14,
     <1>15, <1>16 DEF Next, Establish, Await, Run, Environment, Application, Api

\* NoMissedOffline for every limit and bound, and whatever the broker, the
\* network and the application do: a running session whose broker shows the
\* board as offline is about to correct that.
THEOREM MqttNoMissedOffline == Spec => []NoMissedOffline
<1> DEFINE Inv == OfflineInv /\ WatchInv /\ AckInv /\ StaleAll /\ ToldInv /\ DeadlockInv
<1>1. Init => Inv
  <2> SUFFICES ASSUME Init PROVE Inv
    OBVIOUS
  <2>1. /\ link = "closed" /\ up = <<>> /\ down = <<>> /\ pc = "idle" /\ wait = "none"
        /\ api = "idle" /\ broker.session = NoSession /\ broker.retained = "none"
    BY DEF Init
  <2>2. LinkInv /\ FreshInv /\ StaleInv
    BY <2>1, StaleEmpty DEF LinkInv, FreshInv, StaleInv, NoSession, Holds, Members
  <2>3. AckInv
    BY <2>1, AckedEmpty DEF AckInv, For, ApiLocked
  <2>4. WatchInv /\ OfflineInv
    BY <2>1 DEF WatchInv, OfflineInv, NoSession, Holds, Members
  <2> QED BY <2>2, <2>3, <2>4, InitDeadlockInv, InitToldInv DEF StaleAll
<1>2. Inv /\ [Next]_vars => Inv'
  BY NextOfflineInv, NextWatchInv, NextAckInv, NextStaleAll, NextToldInv, NextDeadlockInv
<1>3. Inv => NoMissedOffline
  BY DEF OfflineInv, WatchInv, Corrected, NoMissedOffline
<1> HIDE DEF Inv
<1> QED BY <1>1, <1>2, <1>3, PTL DEF Spec
=============================================================================
