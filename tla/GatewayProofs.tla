---------------------------- MODULE GatewayProofs ----------------------------
(***************************************************************************)
(* discord/gateway.c: the safety properties of the connection (Gateway), of *)
(* the buffer its messages are put together in (Frames), of the parser of   *)
(* their texts (JsonParse) and of the fields that are handed on (Inbound),  *)
(* for every value of their constants.                                      *)
(***************************************************************************)
EXTENDS Gateway, Inbound, SequenceTheorems, WellFoundedInduction, TLAPS

(* What ReadyHeartbeats and SessionSeqAgree rest on: what Discord expects   *)
(* on a connection says which handlers ran on it.                           *)
PhaseInv ==
    /\ srv = "greet" => state # "READY"
    /\ srv # "greet" => hb_timer # "none"
    /\ srv = "resumed" => session_id
    /\ wsPc = "invalidWait" => srv # "greet"
    /\ ReadyHeartbeats
    /\ SessionSeqAgree

(* The IDENTIFY that follows the delay of INVALID_SESSION is already paid.  *)
BudgetInv ==
    /\ OvershootPaid
    /\ wsPc = "invalidWait" =>
          budget.count + 1 <= IDENTIFY_LIMIT + disruptions.invalids

(* What is behind HealthyNotCondemned: on an open connection past HELLO     *)
(* that owes nothing and is not being closed, the flags of the missed-ACK   *)
(* test are down.                                                           *)
HealthInv ==
    /\ ws # "live" => link = "dead"
    /\ gwPc = "clear" => ws # "live"
    /\ wsPc = "invalidWait" => srv # "greet"
    /\ link = "up" /\ hbPc # "close" => connected
    /\ link = "up" /\ srv # "greet" /\ owed = 0 /\ hbPc = "idle"
          => hb_ack_received \/ ~hb_sent

LEMMA TypeInit == Init => TypeOK
<1>. SUFFICES ASSUME Init PROVE TypeOK
  OBVIOUS
<1>1. /\ reconnect_count \in 0..(REFRESH_EVERY - 1)
      /\ backoff_ms \in Nat
  BY RefreshAssumption DEF Init
<1>2. /\ budget \in IdentifyRecord
      /\ disruptions \in [other : Nat, invalids : Nat]
  BY DEF Init, IdentifyRecord
<1>. QED BY <1>1, <1>2 DEF Init, TypeOK, GwPcs, Links, States, Phases

(* The operations on the counter keep its type, and the count they start    *)
(* from is never above the one stored.                                      *)
LEMMA CounterOps ==
    ASSUME NEW b \in IdentifyRecord, NEW t \in Nat
    PROVE  /\ Rolled(b, t) \in IdentifyRecord
           /\ Rolled(b, t).count <= b.count
           /\ Bumped(b, t) \in IdentifyRecord
           /\ Bumped(b, t).count = Rolled(b, t).count + 1
BY DEF IdentifyRecord, Rolled, Bumped

LEMMA TypeStep == TypeOK /\ [Next]_vars => TypeOK'
<1>. SUFFICES ASSUME TypeOK, [Next]_vars PROVE TypeOK'
  OBVIOUS
<1>. USE RefreshAssumption DEF TypeOK, GwPcs, Links, States, Phases, taskVars,
         linkVars, sessVars, hbVars, countVars
<1>c. /\ Rolled(budget, today) \in IdentifyRecord
      /\ Bumped(budget, today) \in IdentifyRecord
  BY CounterOps
<1>1. CASE GatewayTask
  <2>1. CASE FetchInitial BY <2>1 DEF FetchInitial
  <2>2. CASE ChooseUrl BY <2>2 DEF ChooseUrl
  <2>3. CASE DestroyClient BY <2>3 DEF DestroyClient
  <2>4. CASE ClearHandle BY <2>4 DEF ClearHandle
  <2>5. CASE StartClient BY <2>5 DEF StartClient
  <2>6. CASE WakeUp BY <2>6 DEF WakeUp
  <2>7. CASE BackoffElapsed BY <2>7 DEF BackoffElapsed, NextReconnect
  <2>. QED BY <1>1, <2>1, <2>2, <2>3, <2>4, <2>5, <2>6, <2>7 DEF GatewayTask
<1>2. CASE WsEvent
  <2>1. CASE WsConnected BY <2>1 DEF WsConnected
  <2>d. ASSUME WsDown
        PROVE  /\ evg' \in SUBSET {"DISCONNECTED", "STOP"}
               /\ link' \in Links /\ connected' \in BOOLEAN
               /\ UNCHANGED <<gwPc, url, backoff_ms, reconnect_count, ws, srv,
                    owed, state, resumable, session_id, seq, hb_ack_received,
                    hb_sent, hb_timer, hbPc, wsPc, budget, today>>
    <3>1. evg' \in SUBSET {"DISCONNECTED", "STOP"}
      BY <2>d DEF WsDown, SignalDown
    <3>. QED BY <2>d, <3>1 DEF WsDown
  <2>2. CASE WsDrops
    <3>1. disruptions' \in [other : Nat, invalids : Nat]
      BY <2>2 DEF WsDrops, Disrupt
    <3>. QED BY <2>2, <2>d, <3>1 DEF WsDrops
  <2>3. CASE WsReports BY <2>3, <2>d DEF WsReports
  <2>12. CASE WsCloses BY <2>12 DEF WsCloses, Disrupt
  <2>13. CASE WsFinishes BY <2>13 DEF WsFinishes
  <2>4. CASE Hello
    <3>1. /\ evg' \in SUBSET {"DISCONNECTED", "STOP"}
          /\ budget' \in IdentifyRecord
      BY <1>c, <2>4 DEF Hello, SendIdentify, SendResume
    <3>2. state' \in States /\ srv' \in Phases
      BY <2>4 DEF Hello, SendIdentify, SendResume
    <3>3. /\ hb_ack_received' \in BOOLEAN /\ hb_sent' \in BOOLEAN
          /\ hb_timer' \in {"none", "once", "spent", "periodic"}
      BY <2>4 DEF Hello, StartHeartbeat
    <3>4. UNCHANGED <<gwPc, url, backoff_ms, reconnect_count, ws, link, owed,
                      connected, resumable, session_id, seq, hbPc, wsPc,
                      today, disruptions>>
      BY <2>4 DEF Hello
    <3>. QED BY <3>1, <3>2, <3>3, <3>4
  <2>5. CASE Ready BY <2>5 DEF Ready, RestartPeriodic
  <2>6. CASE Resumed BY <2>6 DEF Resumed, RestartPeriodic
  <2>7. CASE HeartbeatRequest BY <2>7 DEF HeartbeatRequest, SendHeartbeat
  <2>8. CASE HeartbeatAck BY <2>8 DEF HeartbeatAck
  <2>9. CASE Reconnect BY <2>9 DEF Reconnect, Disrupt
  <2>10. CASE InvalidSession BY <2>10 DEF InvalidSession, ForgetSession, Disrupt
  <2>11. CASE InvalidResume BY <1>c, <2>11 DEF InvalidResume, SendIdentify
  <2>. QED BY <1>2, <2>1, <2>2, <2>3, <2>4, <2>5, <2>6, <2>7, <2>8, <2>9,
              <2>10, <2>11, <2>12, <2>13 DEF WsEvent, Message
<1>3. CASE HbTimer
  <2>1. CASE HbFire
    <3>1. /\ connected' \in BOOLEAN
          /\ hb_ack_received' \in BOOLEAN
          /\ hbPc' \in {"idle", "send", "close"}
          /\ disruptions' \in [other : Nat, invalids : Nat]
      <4>1. CASE ~connected BY <2>1, <4>1 DEF HbFire
      <4>2. CASE connected /\ ~hb_ack_received /\ hb_sent
        <5>1. disruptions' \in [other : Nat, invalids : Nat]
          BY <2>1, <4>2 DEF HbFire, Disrupt
        <5>. QED BY <2>1, <4>2, <5>1 DEF HbFire
      <4>3. CASE connected /\ ~(~hb_ack_received /\ hb_sent)
        BY <2>1, <4>3 DEF HbFire, ExpectAck
      <4>. QED BY <4>1, <4>2, <4>3
    <3>. QED BY <2>1, <3>1 DEF HbFire
  <2>2. CASE HbSend BY <2>2 DEF HbSend, SendHeartbeat
  <2>3. CASE HbClose BY <2>3 DEF HbClose
  <2>. QED BY <1>3, <2>1, <2>2, <2>3 DEF HbTimer
<1>4. CASE Environment
  <2>1. CASE GoesSilent BY <2>1 DEF GoesSilent, Disrupt
  <2>2. CASE WsAutoRetry BY <2>2 DEF WsAutoRetry
  <2>3. CASE DayPasses BY <2>3 DEF DayPasses
  <2>. QED BY <1>4, <2>1, <2>2, <2>3 DEF Environment
<1>5. CASE UNCHANGED vars BY <1>5 DEF vars
<1>. QED BY <1>1, <1>2, <1>3, <1>4, <1>5 DEF Next

(* Every variable keeps its type, whatever the limit, the refresh period,   *)
(* the client's retry delay and the bounds (all of gateway.c's handlers).   *)
THEOREM TypeCorrect == Spec => []TypeOK
BY TypeInit, TypeStep, PTL DEF Spec

-----------------------------------------------------------------------------
LEMMA PhaseInit == Init => PhaseInv
BY DEF Init, PhaseInv, ReadyHeartbeats, SessionSeqAgree

LEMMA PhaseStep == TypeOK /\ PhaseInv /\ [Next]_vars => PhaseInv'
<1>. SUFFICES ASSUME TypeOK, PhaseInv, [Next]_vars PROVE PhaseInv'
  OBVIOUS
<1>. USE DEF PhaseInv, ReadyHeartbeats, SessionSeqAgree, TypeOK, taskVars,
             linkVars, sessVars, hbVars, countVars
<1>1. CASE GatewayTask
  BY <1>1 DEF GatewayTask, FetchInitial, ChooseUrl, DestroyClient,
     ClearHandle, StartClient, WakeUp, BackoffElapsed
<1>2. CASE WsEvent
  <2>1. CASE WsConnected BY <2>1 DEF WsConnected, HandlerIdle
  <2>2. CASE WsDrops BY <2>2 DEF WsDrops, WsDown
  <2>3. CASE WsReports BY <2>3 DEF WsReports, WsDown
  <2>12. CASE WsCloses BY <2>12 DEF WsCloses
  <2>13. CASE WsFinishes BY <2>13 DEF WsFinishes
  <2>4. CASE Hello
    <3>1. CASE state = "RESUMING" /\ session_id
      BY <2>4, <3>1 DEF Hello, StartHeartbeat, SendResume
    <3>2. CASE ~(state = "RESUMING" /\ session_id)
      BY <2>4, <3>2 DEF Hello, StartHeartbeat, SendIdentify, MessageIn
    <3>. QED BY <3>1, <3>2
  <2>5. CASE Ready BY <2>5 DEF Ready, RestartPeriodic, MessageIn
  <2>6. CASE Resumed BY <2>6 DEF Resumed, RestartPeriodic, MessageIn
  <2>7. CASE HeartbeatRequest BY <2>7 DEF HeartbeatRequest
  <2>8. CASE HeartbeatAck BY <2>8 DEF HeartbeatAck
  <2>9. CASE Reconnect BY <2>9 DEF Reconnect
  <2>10. CASE InvalidSession
    BY <2>10 DEF InvalidSession, ForgetSession, MessageIn
  <2>11. CASE InvalidResume BY <2>11 DEF InvalidResume, SendIdentify
  <2>. QED BY <1>2, <2>1, <2>2, <2>3, <2>4, <2>5, <2>6, <2>7, <2>8, <2>9,
              <2>10, <2>11, <2>12, <2>13 DEF WsEvent, Message
<1>3. CASE HbTimer
  BY <1>3 DEF HbTimer, HbFire, HbSend, HbClose
<1>4. CASE Environment
  BY <1>4 DEF Environment, GoesSilent, WsAutoRetry, DayPasses
<1>5. CASE UNCHANGED vars BY <1>5 DEF vars
<1>. QED BY <1>1, <1>2, <1>3, <1>4, <1>5 DEF Next

(* The heartbeat timer of a READY session is periodic, whatever connections,*)
(* drops, RECONNECTs and INVALID_SESSIONs came before (parse_ready and      *)
(* RESUMED against start_heartbeat and the reconnect loop).                 *)
THEOREM ReadyAlwaysHeartbeats == Spec => []ReadyHeartbeats
<1>1. PhaseInv => ReadyHeartbeats BY DEF PhaseInv
<1>. QED BY TypeInit, TypeStep, PhaseInit, PhaseStep, <1>1, PTL DEF Spec

(* A sequence number is never kept without its session nor a session        *)
(* without one; RESUMED brings one only where a RESUME named the session    *)
(* (READY, RESUMED and INVALID_SESSION in gateway_process_message).         *)
THEOREM SessionAlwaysHasSeq == Spec => []SessionSeqAgree
<1>1. PhaseInv => SessionSeqAgree BY DEF PhaseInv
<1>. QED BY TypeInit, TypeStep, PhaseInit, PhaseStep, <1>1, PTL DEF Spec

-----------------------------------------------------------------------------
LEMMA WakeupStep == TypeOK /\ NoLostWakeup /\ [Next]_vars => NoLostWakeup'
<1>. SUFFICES ASSUME TypeOK, NoLostWakeup, [Next]_vars PROVE NoLostWakeup'
  OBVIOUS
<1>. USE DEF NoLostWakeup, taskVars, linkVars, hbVars, sessVars, countVars
<1>1. CASE GatewayTask
  BY <1>1 DEF GatewayTask, FetchInitial, ChooseUrl, DestroyClient,
     ClearHandle, StartClient, WakeUp, BackoffElapsed
<1>2. CASE WsEvent
  <2>1. CASE WsConnected BY <2>1 DEF WsConnected
  <2>2. CASE WsDrops \/ WsReports
    <3>1. "DISCONNECTED" \in evg'
      BY <2>2 DEF WsDrops, WsReports, WsDown, SignalDown
    <3>. QED BY <3>1
  <2>6. CASE WsCloses \/ WsFinishes BY <2>6 DEF WsCloses, WsFinishes
  <2>3. CASE Hello
    <3>1. link = "up" /\ link' = link
      BY <2>3 DEF Hello, MessageIn
    <3>. QED BY <3>1
  <2>4. CASE InvalidResume BY <2>4 DEF InvalidResume
  <2>5. CASE Ready \/ Resumed \/ HeartbeatRequest \/ HeartbeatAck
               \/ Reconnect \/ InvalidSession
    BY <2>5 DEF Ready, Resumed, HeartbeatRequest, HeartbeatAck, Reconnect,
       InvalidSession
  <2>. QED BY <1>2, <2>1, <2>2, <2>3, <2>4, <2>5, <2>6 DEF WsEvent, Message
<1>3. CASE HbTimer
  BY <1>3 DEF HbTimer, HbFire, HbSend, HbClose
<1>4. CASE Environment
  BY <1>4 DEF Environment, GoesSilent, WsAutoRetry, DayPasses
<1>5. CASE UNCHANGED vars BY <1>5 DEF vars
<1>. QED BY <1>1, <1>2, <1>3, <1>4, <1>5 DEF Next

(* The gateway task never waits for good on a connection already reported   *)
(* down, although two places clear the bits that wake it (gateway_task      *)
(* against ws_event_handler).                                               *)
THEOREM NoWakeupIsLost == Spec => []NoLostWakeup
<1>1. Init => NoLostWakeup BY DEF Init, NoLostWakeup
<1>. QED BY TypeInit, TypeStep, WakeupStep, <1>1, PTL DEF Spec

-----------------------------------------------------------------------------
LEMMA BudgetStep == TypeOK /\ BudgetInv /\ [Next]_vars => BudgetInv'
<1>. SUFFICES ASSUME TypeOK, BudgetInv, [Next]_vars PROVE BudgetInv'
  OBVIOUS
<1>. USE LimitAssumption DEF BudgetInv, OvershootPaid, TypeOK, taskVars,
             linkVars, hbVars, sessVars, countVars
<1>c. /\ Rolled(budget, today).count <= budget.count
      /\ Rolled(budget, today).count \in Nat
      /\ Bumped(budget, today).count = Rolled(budget, today).count + 1
      /\ budget.count \in Nat
  BY CounterOps DEF IdentifyRecord
<1>1. CASE GatewayTask
  BY <1>1 DEF GatewayTask, FetchInitial, ChooseUrl, DestroyClient,
     ClearHandle, StartClient, WakeUp, BackoffElapsed
<1>2. CASE WsEvent
  <2>1. CASE WsConnected BY <2>1 DEF WsConnected
  <2>2. CASE WsDrops
    <3>1. disruptions'.invalids = disruptions.invalids
      BY <2>2 DEF WsDrops, Disrupt
    <3>. QED BY <2>2, <3>1 DEF WsDrops, WsDown
  <2>3. CASE WsReports BY <2>3 DEF WsReports, WsDown
  <2>9. CASE WsCloses
    <3>1. disruptions'.invalids = disruptions.invalids
      BY <2>9 DEF WsCloses, Disrupt
    <3>. QED BY <2>9, <3>1 DEF WsCloses
  <2>4. CASE Hello
    <3>1. budget'.count <= IDENTIFY_LIMIT + disruptions.invalids
      BY <1>c, <2>4 DEF Hello, LimitReached, SendIdentify
    <3>2. wsPc = "idle" /\ UNCHANGED <<wsPc, disruptions>>
      BY <2>4 DEF Hello, MessageIn, HandlerIdle
    <3>. QED BY <3>1, <3>2
  <2>5. CASE Reconnect
    <3>1. disruptions'.invalids = disruptions.invalids
      BY <2>5 DEF Reconnect, Disrupt
    <3>. QED BY <2>5, <3>1 DEF Reconnect
  <2>6. CASE InvalidSession
    <3>1. disruptions'.invalids = disruptions.invalids + 1
      BY <2>6 DEF InvalidSession, Disrupt
    <3>2. UNCHANGED budget
      BY <2>6 DEF InvalidSession
    <3>. QED BY <1>c, <3>1, <3>2
  <2>7. CASE InvalidResume
    BY <1>c, <2>7 DEF InvalidResume, SendIdentify
  <2>8. CASE Ready \/ Resumed \/ HeartbeatRequest \/ HeartbeatAck
               \/ WsFinishes
    BY <2>8 DEF Ready, Resumed, HeartbeatRequest, HeartbeatAck, WsFinishes
  <2>. QED BY <1>2, <2>1, <2>2, <2>3, <2>4, <2>5, <2>6, <2>7, <2>8, <2>9
           DEF WsEvent, Message
<1>3. CASE HbTimer
  <2>1. CASE HbFire
    <3>1. disruptions'.invalids = disruptions.invalids
      BY <2>1 DEF HbFire, Disrupt
    <3>. QED BY <2>1, <3>1 DEF HbFire
  <2>2. CASE HbSend \/ HbClose
    BY <2>2 DEF HbSend, HbClose
  <2>. QED BY <1>3, <2>1, <2>2 DEF HbTimer
<1>4. CASE Environment
  <2>1. CASE GoesSilent
    <3>1. disruptions'.invalids = disruptions.invalids
      BY <2>1 DEF GoesSilent, Disrupt
    <3>. QED BY <2>1, <3>1 DEF GoesSilent
  <2>2. CASE WsAutoRetry \/ DayPasses
    BY <2>2 DEF WsAutoRetry, DayPasses
  <2>. QED BY <1>4, <2>1, <2>2 DEF Environment
<1>5. CASE UNCHANGED vars BY <1>5 DEF vars
<1>. QED BY <1>1, <1>2, <1>3, <1>4, <1>5 DEF Next

(* The daily limit is passed only by the IDENTIFYs of INVALID_SESSION, one  *)
(* each, for every limit (HELLO and INVALID_SESSION in                      *)
(* gateway_process_message, nvs_config_increment_identify).                 *)
THEOREM OvershootAlwaysPaid == Spec => []OvershootPaid
<1>1. Init => BudgetInv
  BY LimitAssumption DEF Init, BudgetInv, OvershootPaid
<1>2. BudgetInv => OvershootPaid BY DEF BudgetInv
<1>. QED BY TypeInit, TypeStep, BudgetStep, <1>1, <1>2, PTL DEF Spec

-----------------------------------------------------------------------------
LEMMA HealthStep ==
    ASSUME Timely = TRUE
    PROVE  TypeOK /\ HealthInv /\ [Next]_vars
              => /\ HealthInv'
                 /\ hbPc = "idle" /\ hbPc' = "close" /\ link = "up"
                       => srv = "greet" /\ owed = 0
<1>. SUFFICES ASSUME TypeOK, HealthInv, [Next]_vars
              PROVE  /\ HealthInv'
                     /\ hbPc = "idle" /\ hbPc' = "close" /\ link = "up"
                           => srv = "greet" /\ owed = 0
  OBVIOUS
<1>. USE DEF HealthInv, TypeOK, taskVars, linkVars, hbVars, sessVars,
             countVars
<1>1. CASE GatewayTask
  BY <1>1 DEF GatewayTask, FetchInitial, ChooseUrl, DestroyClient,
     ClearHandle, StartClient, WakeUp, BackoffElapsed
<1>2. CASE WsEvent
  <2>1. CASE WsConnected BY <2>1 DEF WsConnected, HandlerIdle
  <2>2. CASE WsDrops \/ WsReports
    BY <2>2 DEF WsDrops, WsReports, WsDown, HandlerIdle
  <2>8. CASE WsCloses \/ WsFinishes
    BY <2>8 DEF WsCloses, WsFinishes, HandlerIdle
  <2>3. CASE Hello
    <3>1. /\ UNCHANGED <<gwPc, ws, link, connected, hbPc, wsPc>>
          /\ hb_ack_received' /\ wsPc = "idle"
      BY <2>3 DEF Hello, StartHeartbeat, MessageIn, HandlerIdle
    <3>. QED BY <3>1
  <2>4. CASE HeartbeatRequest
    <3>1. link = "up" /\ ws = "live" /\ srv = "open"
      BY <2>4 DEF HeartbeatRequest, MessageIn, HandlerIdle
    <3>2. hbPc # "close" => owed' = owed + 1
      BY <2>4, <3>1 DEF HeartbeatRequest, SendHeartbeat
    <3>3. UNCHANGED <<gwPc, ws, link, srv, connected, hb_ack_received, hbPc,
                      wsPc>>
      BY <2>4 DEF HeartbeatRequest
    <3>. QED BY <3>1, <3>2, <3>3
  <2>5. CASE HeartbeatAck BY <2>5 DEF HeartbeatAck
  <2>6. CASE InvalidResume
    <3>1. /\ UNCHANGED <<gwPc, ws, link, owed, connected, hb_ack_received,
                         hb_sent, hbPc>>
          /\ wsPc' = "idle"
      BY <2>6 DEF InvalidResume
    <3>2. srv # "greet"
      BY <2>6 DEF InvalidResume
    <3>. QED BY <3>1, <3>2
  <2>7. CASE Ready \/ Resumed \/ Reconnect \/ InvalidSession
    BY <2>7 DEF Ready, Resumed, Reconnect, InvalidSession, MessageIn,
       HandlerIdle
  <2>. QED BY <1>2, <2>1, <2>2, <2>3, <2>4, <2>5, <2>6, <2>7, <2>8
           DEF WsEvent, Message
<1>3. CASE HbTimer
  <2>1. CASE HbFire
    <3>1. link = "up" => owed = 0 /\ connected
      BY <2>1 DEF HbFire, AnswerDue
    <3>2. link = "up" => \/ hbPc' = "send" /\ UNCHANGED connected
                         \/ hbPc' = "close" /\ ~hb_ack_received /\ hb_sent
      BY <2>1, <3>1 DEF HbFire
    <3>3. link = "up" /\ hbPc' = "close" => srv = "greet" /\ owed = 0
      BY <2>1, <3>1, <3>2 DEF HbFire
    <3>4. UNCHANGED <<gwPc, ws, link, srv, owed, wsPc>>
      BY <2>1 DEF HbFire
    <3>. QED BY <3>1, <3>2, <3>3, <3>4
  <2>2. CASE HbSend
    <3>1. link = "up" => owed' = owed + 1
      BY <2>2 DEF HbSend, SendHeartbeat
    <3>2. UNCHANGED <<gwPc, ws, link, srv, connected, wsPc>> /\ hbPc' = "idle"
      BY <2>2 DEF HbSend
    <3>3. hbPc = "send"
      BY <2>2 DEF HbSend
    <3>4. link = "up" => connected /\ owed' # 0
      BY <3>1, <3>3
    <3>. QED BY <3>2, <3>3, <3>4
  <2>3. CASE HbClose BY <2>3 DEF HbClose
  <2>. QED BY <1>3, <2>1, <2>2, <2>3 DEF HbTimer
<1>4. CASE Environment
  BY <1>4 DEF Environment, GoesSilent, WsAutoRetry, DayPasses
<1>5. CASE UNCHANGED vars BY <1>5 DEF vars
<1>. QED BY <1>1, <1>2, <1>3, <1>4, <1>5 DEF Next

(* When Discord's ACKs beat the heartbeat interval the missed-ACK test      *)
(* gives up no healthy connection that has had its HELLO, over any number   *)
(* of reconnects, heartbeats under way across them and heartbeats out of    *)
(* turn; and one before HELLO only for an ACK it does not owe itself        *)
(* (hb_timer_cb against the handlers of HELLO, HEARTBEAT and                *)
(* HEARTBEAT_ACK).                                                          *)
THEOREM HealthyNeverCondemned ==
    ASSUME Timely = TRUE
    PROVE  Spec => HealthyNotCondemned
<1>1. Init => HealthInv BY DEF Init, HealthInv
<1>2. TypeOK /\ HealthInv /\ [Next]_vars
         => HealthInv' /\ (hbPc = "idle" /\ hbPc' = "close" /\ link = "up"
                              => srv = "greet" /\ owed = 0)
  BY HealthStep
<1>. QED BY TypeInit, TypeStep, <1>1, <1>2, PTL DEF Spec, HealthyNotCondemned

-----------------------------------------------------------------------------
(* The pieces of a message. *)
AtMost(n, limit) == IF n < limit THEN n ELSE limit

SentFrames == [id : 0..MaxFrames, op : {"text", "more", "control"},
               fin : BOOLEAN, open : BOOLEAN, len : Nat, offset : Nat]

FramesShape ==
    /\ sent \in SentFrames
    /\ recv_buf \in Seq((0..MaxFrames) \X Nat)
    /\ Len(recv_buf) < RECV_BUF_SIZE
    /\ recv_total \in Lengths \cup {0}
    /\ handled \in Seq(0..MaxFrames) /\ whole \in Seq(1..MaxFrames)

(* A frame of text on its way: what came of it is in the buffer, from its    *)
(* first byte on and as far as there is room, and its length is known.      *)
PiecesInv ==
    /\ sent.offset <= sent.len
    /\ sent.offset < sent.len => sent.id \in 1..MaxFrames /\ sent.len \in Lengths
    /\ Accepted /\ sent.offset \in 1..(sent.len - 1) =>
          /\ recv_total = sent.len
          /\ Len(recv_buf) = AtMost(sent.offset, RECV_BUF_SIZE - 1)
          /\ \A i \in 1..Len(recv_buf) : recv_buf[i] = <<sent.id, i>>

FramesInv == FramesShape /\ PiecesInv /\ FramesWhole

LEMMA FrameLimits == /\ RECV_BUF_SIZE \in Nat /\ RECV_BUF_SIZE >= 1
                     /\ MaxFrames \in Nat /\ Lengths \subseteq Nat \ {0}
                     /\ Piece \in Nat
BY FramesAssumption

(* What the buffer holds before the next piece. *)
LEMMA KeptIs ==
    ASSUME FramesShape, PiecesInv, Accepted, sent.offset < sent.len
    PROVE  /\ Kept \in Seq((0..MaxFrames) \X Nat)
           /\ Len(Kept) = AtMost(sent.offset, RECV_BUF_SIZE - 1)
           /\ \A i \in 1..Len(Kept) : Kept[i] = <<sent.id, i>>
           /\ Total = sent.len
<1>1. sent.offset \in Nat /\ sent.len \in Nat
  BY DEF FramesShape, SentFrames
<1>2. CASE sent.offset = 0
  <2>1. Kept = <<>> /\ Len(<<>>) = 0 /\ Total = sent.len
    BY <1>2 DEF Kept, Total
  <2>2. AtMost(sent.offset, RECV_BUF_SIZE - 1) = 0
    BY <1>2, FrameLimits DEF AtMost
  <2>. QED BY <2>1, <2>2
<1>3. CASE sent.offset # 0
  <2>1. Kept = recv_buf /\ Total = recv_total
    BY <1>3 DEF Kept, Total
  <2>2. sent.offset \in 1..(sent.len - 1)
    BY <1>1, <1>3
  <2>. QED BY <2>1, <2>2 DEF FramesShape, PiecesInv
<1>. QED BY <1>2, <1>3

LEMMA FunIsSeq ==
    ASSUME NEW T, NEW n \in Nat, NEW f \in [1..n -> T]
    PROVE  f \in Seq(T) /\ Len(f) = n
<1>1. f \in Seq(T)
  BY SeqDef
<1>. QED BY <1>1, LenProperties

LEMMA Joined ==
    ASSUME NEW T, NEW p \in Seq(T), NEW q \in Seq(T), NEW r, r = p \o q
    PROVE  /\ r \in Seq(T) /\ Len(p) \in Nat /\ Len(r) = Len(p) + Len(q)
           /\ \A i \in 1..Len(r) : r[i] = IF i <= Len(p) THEN p[i]
                                        ELSE q[i - Len(p)]
BY ConcatProperties, LenProperties

(* A piece lengthens what is there. *)
LEMMA PieceAdded ==
    ASSUME NEW T, NEW kept \in Seq(T), NEW piece \in Seq(T), NEW id,
           \A i \in 1..Len(kept) : kept[i] = <<id, i>>,
           \A i \in 1..Len(piece) : piece[i] = <<id, Len(kept) + i>>,
           NEW buf, buf = kept \o piece
    PROVE  \A i \in 1..Len(buf) : buf[i] = <<id, i>>
<1>1. /\ Len(kept) \in Nat /\ Len(piece) \in Nat
      /\ Len(buf) = Len(kept) + Len(piece)
      /\ \A i \in 1..Len(buf) : buf[i] = IF i <= Len(kept) THEN kept[i]
                                         ELSE piece[i - Len(kept)]
  BY Joined, LenProperties
<1>2. ASSUME NEW i \in 1..Len(buf) PROVE buf[i] = <<id, i>>
  <2>1. CASE i <= Len(kept)
    BY <1>1, <2>1
  <2>2. CASE ~(i <= Len(kept))
    <3>1. i - Len(kept) \in 1..Len(piece) /\ Len(kept) + (i - Len(kept)) = i
      BY <1>1, <2>2
    <3>. QED BY <1>1, <2>2, <3>1
  <2>. QED BY <2>1, <2>2
<1>. QED BY <1>2

LEMMA ControlTaken ==
    ASSUME FramesInv, NEW n \in 1..Piece, Data(n), ~Accepted
    PROVE  FramesInv'
<1>1. /\ sent \in SentFrames /\ sent.id \in 0..MaxFrames
      /\ sent.len \in Nat /\ sent.offset \in Nat
      /\ n \in Nat /\ n >= 1 /\ sent.offset + n <= sent.len
  BY FrameLimits DEF FramesInv, FramesShape, SentFrames, Data
<1>2. sent.id \in 1..MaxFrames /\ sent.len \in Lengths
  <2>1. sent.offset < sent.len
    BY <1>1
  <2>. QED BY <2>1 DEF FramesInv, PiecesInv
<1>3. /\ sent' \in SentFrames /\ sent'.op = sent.op
      /\ sent'.id = sent.id /\ sent'.len = sent.len
      /\ sent'.offset = sent.offset + n
  <2>1. sent' = [sent EXCEPT !.offset = sent.offset + n]
    BY DEF Data
  <2>. QED BY <1>1, <2>1 DEF SentFrames
<1>4. UNCHANGED <<recv_buf, recv_total, handled, whole>>
  BY DEF Data, Arrives
<1>5. ~Accepted'
  BY <1>3 DEF Accepted
<1>6. FramesShape' /\ FramesWhole'
  BY <1>3, <1>4 DEF FramesInv, FramesShape, FramesWhole
<1>7. PiecesInv'
  BY <1>1, <1>2, <1>3, <1>5 DEF PiecesInv
<1>. QED BY <1>6, <1>7 DEF FramesInv

LEMMA TextTaken ==
    ASSUME FramesInv, NEW n \in 1..Piece, Data(n), Accepted
    PROVE  FramesInv'
<1>. DEFINE p == sent.offset
            T == (0..MaxFrames) \X Nat
            copy == AtMost(n, Space)
            piece == [i \in 1..copy |-> <<sent.id, p + i>>]
<1>1. /\ sent.id \in 0..MaxFrames /\ sent.len \in Nat /\ p \in Nat
      /\ p + n <= sent.len /\ n \in Nat /\ n >= 1 /\ p < sent.len
      /\ sent.id \in 1..MaxFrames /\ sent.len \in Lengths
  <2>1. sent.id \in 0..MaxFrames /\ sent.len \in Nat /\ p \in Nat
    BY DEF FramesInv, FramesShape, SentFrames
  <2>2. n \in Nat /\ n >= 1 /\ sent.offset + n <= sent.len
    BY FrameLimits DEF Data
  <2>3. sent.offset < sent.len
    BY <2>1, <2>2
  <2>4. sent.id \in 1..MaxFrames /\ sent.len \in Lengths
    BY <2>3 DEF FramesInv, PiecesInv
  <2>. QED BY <2>1, <2>2, <2>3, <2>4
<1>2. /\ sent' \in SentFrames
      /\ sent'.id = sent.id /\ sent'.len = sent.len /\ sent'.offset = p + n
  <2>1. sent' = [sent EXCEPT !.offset = p + n]
    BY DEF Data
  <2>2. p + n \in Nat
    BY <1>1
  <2>. HIDE DEF p
  <2>. QED BY <2>1, <2>2 DEF FramesInv, FramesShape, SentFrames
<1>3. /\ Kept \in Seq(T) /\ Len(Kept) = AtMost(p, RECV_BUF_SIZE - 1)
      /\ \A i \in 1..Len(Kept) : Kept[i] = <<sent.id, i>>
      /\ Total = sent.len
  BY <1>1, KeptIs DEF FramesInv
<1>4. /\ copy \in Nat
      /\ AtMost(p, RECV_BUF_SIZE - 1) + copy = AtMost(p + n, RECV_BUF_SIZE - 1)
      /\ copy > 0 => AtMost(p, RECV_BUF_SIZE - 1) = p
  <2>. DEFINE had == AtMost(p, RECV_BUF_SIZE - 1)
  <2>1. /\ RECV_BUF_SIZE \in Nat /\ RECV_BUF_SIZE >= 1
        /\ had = IF p < RECV_BUF_SIZE - 1 THEN p ELSE RECV_BUF_SIZE - 1
    BY FrameLimits DEF AtMost
  <2>2. Space = RECV_BUF_SIZE - had - 1
    BY <1>3 DEF Space
  <2>. HIDE DEF p, had
  <2>3. copy = IF n < RECV_BUF_SIZE - had - 1 THEN n ELSE RECV_BUF_SIZE - had - 1
    BY <2>2 DEF AtMost
  <2>. HIDE DEF copy
  <2>. QED BY <1>1, <2>1, <2>3 DEF AtMost, had
<1>. HIDE DEF copy
<1>5. /\ piece \in Seq(T) /\ Len(piece) = copy
      /\ \A i \in 1..Len(piece) : piece[i] = <<sent.id, p + i>>
  <2>1. piece \in [1..copy -> T]
    BY <1>1, <1>4
  <2>2. \A i \in 1..copy : piece[i] = <<sent.id, p + i>>
    OBVIOUS
  <2>. HIDE DEF piece, T
  <2>3. piece \in Seq(T) /\ Len(piece) = copy
    BY <1>4, <2>1, FunIsSeq
  <2>. QED BY <2>2, <2>3
<1>6. /\ recv_buf' = Kept \o piece
      /\ recv_total' = sent.len
  BY <1>3 DEF Data, copy, AtMost
<1>. HIDE DEF piece, T
<1>7. /\ recv_buf' \in Seq(T)
      /\ Len(recv_buf') = AtMost(p + n, RECV_BUF_SIZE - 1)
  <2>. PICK kept, add, buf : kept = Kept /\ add = piece /\ buf = recv_buf'
    OBVIOUS
  <2>1. kept \in Seq(T) /\ add \in Seq(T) /\ buf = kept \o add
    BY <1>3, <1>5, <1>6
  <2>2. buf \in Seq(T) /\ Len(buf) = Len(kept) + Len(add)
    BY <2>1, Joined
  <2>. QED BY <1>3, <1>4, <1>5, <2>2
<1>8. \A i \in 1..Len(recv_buf') : recv_buf'[i] = <<sent.id, i>>
  <2>1. \A i \in 1..Len(piece) : piece[i] = <<sent.id, Len(Kept) + i>>
    BY <1>1, <1>3, <1>4, <1>5
  <2>. PICK kept, add, buf : kept = Kept /\ add = piece /\ buf = recv_buf'
    OBVIOUS
  <2>2. /\ kept \in Seq(T) /\ add \in Seq(T) /\ buf = kept \o add
        /\ \A i \in 1..Len(kept) : kept[i] = <<sent.id, i>>
        /\ \A i \in 1..Len(add) : add[i] = <<sent.id, Len(kept) + i>>
    BY <1>3, <1>5, <1>6, <2>1
  <2>3. \A i \in 1..Len(buf) : buf[i] = <<sent.id, i>>
    BY <2>2, PieceAdded
  <2>. QED BY <2>3
<1>9. Len(recv_buf') < RECV_BUF_SIZE
  BY <1>1, <1>7, FrameLimits DEF AtMost
<1>10. Arrives <=> p + n = sent.len /\ sent.len < RECV_BUF_SIZE
  BY <1>1, <1>6, <1>7, FrameLimits DEF Arrives, AtMost
<1>11. ASSUME Arrives PROVE Complete(recv_buf')
  <2>1. Len(recv_buf') = sent.len
    BY <1>1, <1>7, <1>10, <1>11, FrameLimits DEF AtMost
  <2>2. recv_buf' = [i \in 1..sent.len |-> recv_buf'[i]]
    BY <1>7, <2>1, LenProperties
  <2>. QED BY <1>8, <2>1, <2>2 DEF Complete
<1>12. /\ whole' = IF Arrives THEN Append(whole, sent.id) ELSE whole
       /\ handled' = IF Arrives THEN Append(handled, sent.id) ELSE handled
  BY <1>10, <1>11 DEF Data
<1>13. /\ whole \in Seq(1..MaxFrames) /\ handled \in Seq(0..MaxFrames)
       /\ handled = whole
  BY DEF FramesInv, FramesShape, FramesWhole
<1>14. /\ whole' \in Seq(1..MaxFrames) /\ handled' \in Seq(0..MaxFrames)
       /\ handled' = whole'
  <2>1. CASE Arrives
    <3>1. whole' = Append(whole, sent.id) /\ handled' = Append(handled, sent.id)
      BY <1>12, <2>1
    <3>. QED BY <1>1, <1>13, <3>1
  <2>2. CASE ~Arrives
    BY <1>12, <1>13, <2>2
  <2>. QED BY <2>1, <2>2
<1>15. FramesShape'
  BY <1>1, <1>2, <1>6, <1>7, <1>9, <1>14 DEF FramesShape, T
<1>16. PiecesInv'
  BY <1>1, <1>2, <1>6, <1>7, <1>8 DEF PiecesInv
<1>. QED BY <1>14, <1>15, <1>16 DEF FramesInv, FramesWhole

LEMMA DataTaken ==
    ASSUME FramesInv, NEW n \in 1..Piece, Data(n)
    PROVE  FramesInv'
BY TextTaken, ControlTaken

LEMMA FramesNextSafe == FramesInv /\ [FramesNext]_frames => FramesInv'
<1>. SUFFICES ASSUME FramesInv, [FramesNext]_frames PROVE FramesInv'
  OBVIOUS
<1>0. sent.id \in 0..MaxFrames /\ sent.len \in Nat /\ sent.offset \in Nat
      /\ sent.offset <= sent.len /\ MaxFrames \in Nat
  BY FrameLimits DEF FramesInv, FramesShape, SentFrames, PiecesInv
<1>1. ASSUME NEW len \in Lengths, SendFrames(len) PROVE FramesInv'
  <2>1. PICK op \in {IF sent.open THEN "more" ELSE "text", "control"},
             fin \in BOOLEAN :
             sent' = [id |-> sent.id + 1, op |-> op, fin |-> fin,
                      open |-> IF op = "control" THEN sent.open ELSE ~fin,
                      len |-> len, offset |-> 0]
    BY <1>1 DEF SendFrames
  <2>2. /\ sent.open \in BOOLEAN /\ len \in Nat
        /\ sent.id + 1 \in 1..MaxFrames /\ sent.id + 1 \in 0..MaxFrames
        /\ UNCHANGED <<recv_buf, recv_total, handled, whole>>
    BY <1>0, <1>1, FrameLimits DEF SendFrames, FramesInv, FramesShape, SentFrames
  <2>3. /\ op \in {"text", "more", "control"}
        /\ (IF op = "control" THEN sent.open ELSE ~fin) \in BOOLEAN
    BY <2>2
  <2>4. /\ sent' \in SentFrames /\ sent'.id \in 1..MaxFrames
        /\ sent'.len = len /\ sent'.offset = 0
    BY <2>1, <2>2, <2>3 DEF SentFrames
  <2>. QED BY <2>2, <2>4 DEF FramesInv, FramesShape, PiecesInv, FramesWhole
<1>2. CASE DropFrames
  <2>1. /\ sent' \in SentFrames
        /\ sent'.len = sent.offset /\ sent'.offset = sent.offset
        /\ UNCHANGED <<recv_buf, recv_total, handled, whole>>
    BY <1>0, <1>2 DEF DropFrames, FramesInv, FramesShape, SentFrames
  <2>2. FramesShape' /\ FramesWhole'
    BY <2>1 DEF FramesInv, FramesShape, FramesWhole
  <2>3. PiecesInv'
    BY <1>0, <2>1 DEF PiecesInv
  <2>. QED BY <2>2, <2>3 DEF FramesInv
<1>3. ASSUME NEW n \in 1..Piece, Data(n) PROVE FramesInv'
  BY <1>3, DataTaken
<1>4. CASE UNCHANGED frames
  BY <1>4 DEF frames, FramesInv, FramesShape, PiecesInv, FramesWhole, Accepted
<1>. QED BY <1>1, <1>2, <1>3, <1>4 DEF FramesNext

LEMMA FramesBegin == FramesInit => FramesInv
<1>. SUFFICES ASSUME FramesInit PROVE FramesInv
  OBVIOUS
<1>1. sent = [id |-> 0, op |-> "control", fin |-> TRUE, open |-> FALSE,
              len |-> 0, offset |-> 0]
      /\ recv_buf = <<>> /\ recv_total = 0 /\ handled = <<>> /\ whole = <<>>
  BY DEF FramesInit
<1>2. Len(<<>>) = 0 /\ 0 < RECV_BUF_SIZE
  BY FrameLimits
<1>3. sent \in SentFrames /\ sent.offset = sent.len
  BY <1>1, FrameLimits DEF SentFrames
<1>. QED BY <1>1, <1>2, <1>3, FrameLimits
     DEF FramesInv, FramesShape, PiecesInv, FramesWhole

(* Exactly the frames of text that came to their end and fit the buffer are  *)
(* processed, each once, in order and unmixed, for every size of the buffer *)
(* and of the pieces, however messages are made of frames, whatever control *)
(* frames come in between and connections break (ws_event_handler).         *)
THEOREM WholeAndUnmixed == FramesSpec => []FramesWhole
<1>1. FramesInv => FramesWhole
  BY DEF FramesInv
<1>. QED BY <1>1, FramesBegin, FramesNextSafe, PTL DEF FramesSpec

(* The buffer never overflows, and keeps a place for its terminating zero    *)
(* (ws_event_handler).                                                      *)
THEOREM FramesTypeCorrect == FramesSpec => []FramesTypeOK
<1>1. FramesInv => FramesTypeOK
  <2>. SUFFICES ASSUME FramesInv PROVE FramesTypeOK
    OBVIOUS
  <2>1. /\ sent.id \in 0..MaxFrames /\ sent.offset \in 0..sent.len
        /\ sent.op \in {"text", "more", "control"}
        /\ sent.fin \in BOOLEAN /\ sent.open \in BOOLEAN
    BY DEF FramesInv, FramesShape, SentFrames, PiecesInv
  <2>. QED BY <2>1 DEF FramesInv, FramesShape, FramesTypeOK
<1>. QED BY <1>1, FramesBegin, FramesNextSafe, PTL DEF FramesSpec


-----------------------------------------------------------------------------
(* Module Inbound. *)

(* What is put together is put together the same way, whatever it says.     *)
LEMMA InboundStepIsFrames == [InboundNext]_inbound => [FramesNext]_frames
BY DEF InboundNext, inbound, FramesNext

LEMMA InboundInitIsFrames == InboundInit => FramesInit
BY DEF InboundInit

(* Inbound implements Frames: what a document says never changes how the    *)
(* pieces of a message are put together (ws_event_handler hands the buffer  *)
(* to gateway_process_message and takes nothing back).                      *)
THEOREM InboundImplementsFrames == InboundSpec => FramesSpec
BY InboundInitIsFrames, InboundStepIsFrames, PTL DEF InboundSpec, FramesSpec

(* Every frame of text that comes whole and fits is processed once, in order *)
(* and unmixed, with any documents and any bounds of the parsers             *)
(* (ws_event_handler).                                                       *)
THEOREM InboundWholeAndUnmixed == InboundSpec => []FramesWhole
BY InboundImplementsFrames, WholeAndUnmixed, PTL

LEMMA AtoIBounded == ASSUME NEW text PROVE AtoI(text) \in 0..99
<1>1. CASE \E n \in 0..99 : ToString(n) = text
  <2> DEFINE m == CHOOSE n \in 0..99 : ToString(n) = text
  <2>1. m \in 0..99
    BY <1>1
  <2>2. AtoI(text) = m
    BY <1>1 DEF AtoI
  <2>. QED BY <2>1, <2>2
<1>2. CASE ~\E n \in 0..99 : ToString(n) = text
  <2>1. AtoI(text) = 0
    BY <1>2 DEF AtoI
  <2>. QED BY <2>1
<1>. QED BY <1>1, <1>2

LEMMA JpIntBounded ==
    ASSUME NEW toks, NEW obj, NEW key
    PROVE  JpInt(toks, obj, key, 0) \in 0..99
<1>1. JpInt(toks, obj, key, 0) = 0
      \/ \E text : JpInt(toks, obj, key, 0) = AtoI(text)
  BY DEF JpInt
<1>. QED BY <1>1, AtoIBounded

LEMMA EventKinds ==
    ASSUME NEW toks
    PROVE  EventOf(toks).kind \in {"none", "message", "interaction"}
<1>1. NoEvent.kind = "none"
  BY DEF NoEvent
<1>2. ASSUME NEW d PROVE MessageCreate(toks, d).kind = "message"
  BY DEF MessageCreate
<1>3. ASSUME NEW d
      PROVE  InteractionCreate(toks, d).kind \in {"none", "interaction"}
  BY <1>1 DEF InteractionCreate
<1>4. \/ EventOf(toks) = NoEvent
      \/ \E d : EventOf(toks) = MessageCreate(toks, d)
      \/ \E d : EventOf(toks) = InteractionCreate(toks, d)
  BY DEF EventOf
<1>. QED BY <1>1, <1>2, <1>3, <1>4

LEMMA ProcessTypes ==
    ASSUME NEW buf, s_seq \in 0..99, Process(buf)
    PROVE  /\ s_seq' \in 0..99
           /\ event'.kind \in {"none", "message", "interaction"}
<1> DEFINE toks == IF OneFrame /\ Complete(buf) THEN Tokenize(Lexemes(document))
                   ELSE <<>>
<1>1. \/ event' = NoEvent /\ s_seq' = s_seq
      \/ event' = EventOf(toks) /\ s_seq' = NextSeq(toks)
  BY DEF Process
<1>2. NextSeq(toks) \in 0..99
  BY JpIntBounded DEF NextSeq
<1>3. NoEvent.kind = "none"
  BY DEF NoEvent
<1>4. EventOf(toks).kind \in {"none", "message", "interaction"}
  BY EventKinds
<1>. HIDE DEF toks
<1>. QED BY <1>1, <1>2, <1>3, <1>4

InboundRest ==
    /\ document.type \in {"object", "primitive"}
    /\ s_seq \in 0..99
    /\ event.kind \in {"none", "message", "interaction"}

LEMMA InboundRestInit == InboundInit => InboundRest
BY DEF InboundInit, InboundRest, NoDocument, Leaf, NoEvent

LEMMA InboundRestStep ==
    FramesTypeOK /\ InboundRest /\ [InboundNext]_inbound => InboundRest'
<1>. SUFFICES ASSUME FramesTypeOK, InboundRest, [InboundNext]_inbound
              PROVE  InboundRest'
  OBVIOUS
<1>1. ASSUME NEW len \in Lengths, SendFrames(len),
             IF sent'.op = "text" THEN document' \in Documents[sent.id + 1]
             ELSE UNCHANGED document,
             UNCHANGED <<s_seq, event>>
      PROVE  InboundRest'
  <2>1. sent.id \in 0..MaxFrames /\ MaxFrames \in Nat
        /\ sent.id < MaxFrames
    BY <1>1, FramesAssumption DEF FramesTypeOK, SendFrames
  <2>2. sent.id + 1 \in 1..MaxFrames
    BY <2>1
  <2>3. document'.type \in {"object", "primitive"}
    <3>1. CASE document' \in Documents[sent.id + 1]
      BY <2>2, <3>1, InboundAssumption
    <3>2. CASE UNCHANGED document
      BY <3>2 DEF InboundRest
    <3>. QED BY <1>1, <3>1, <3>2
  <2>. QED BY <1>1, <2>3 DEF InboundRest
<1>2. CASE UNCHANGED <<document, s_seq, event>>
  BY <1>2 DEF InboundRest
<1>3. ASSUME UNCHANGED document,
             IF Arrives THEN Process(recv_buf') ELSE UNCHANGED <<s_seq, event>>
      PROVE  InboundRest'
  <2>1. CASE Arrives
    <3>1. PICK buf : buf = recv_buf'
      OBVIOUS
    <3>2. Process(buf)
      BY <1>3, <2>1, <3>1
    <3>3. s_seq' \in 0..99 /\ event'.kind \in {"none", "message", "interaction"}
      BY <3>2, ProcessTypes DEF InboundRest
    <3>. QED BY <1>3, <3>3 DEF InboundRest
  <2>2. CASE ~Arrives
    BY <1>2, <1>3, <2>2
  <2>. QED BY <2>1, <2>2
<1>. QED BY <1>1, <1>2, <1>3 DEF InboundNext, inbound

(* The buffer never overflows, a sequence number is never negative, and     *)
(* only messages and commands are handed on (gateway_process_message).      *)
THEOREM InboundTypeCorrect == InboundSpec => []InboundTypeOK
<1>1. InboundSpec => []FramesTypeOK
  BY InboundImplementsFrames, FramesTypeCorrect, PTL
<1>2. InboundSpec => []InboundRest
  BY <1>1, InboundRestInit, InboundRestStep, PTL DEF InboundSpec
<1>3. FramesTypeOK /\ InboundRest => InboundTypeOK
  BY DEF InboundRest, InboundTypeOK
<1>. QED BY <1>1, <1>2, <1>3, PTL

-----------------------------------------------------------------------------
(* Induction on numbers, through the least element of a set: what the       *)
(* library has for it takes an operator.                                    *)
LEMMA LeastOf ==
    ASSUME NEW S \in SUBSET Nat, S # {}
    PROVE  \E m \in S : \A i \in S : m <= i
<1>. DEFINE R == {ss \in Nat \X Nat : ss[1] < ss[2]}
<1>1. IsWellFoundedOn(R, Nat)
  BY NatLessThanWellFounded, Zenon DEF OpToRel
<1>2. PICK m \in S : \A i \in S : ~(<<i, m>> \in R)
  <2>. HIDE DEF R
  <2>. QED BY <1>1, WFMin, Zenon
<1>3. ASSUME NEW i \in S PROVE m <= i
  <2>1. m \in Nat /\ i \in Nat /\ <<i, m>> \notin R
    BY <1>2
  <2>. QED BY <2>1
<1>. QED BY <1>3

LEMMA Upwards ==
    ASSUME NEW n \in Nat, NEW S, 0 \in S,
           \A i \in 0..n : i < n /\ i \in S => i + 1 \in S
    PROVE  \A i \in 0..n : i \in S
<1>. DEFINE B == {i \in 0..n : i \notin S}
<1>1. SUFFICES B = {}
  OBVIOUS
<1>2. SUFFICES ASSUME B # {} PROVE FALSE
  OBVIOUS
<1>3. PICK m \in B : \A i \in B : m <= i
  <2>1. B \in SUBSET Nat
    OBVIOUS
  <2>. HIDE DEF B
  <2>. QED BY <1>2, <2>1, LeastOf
<1>4. m \in 0..n /\ m \notin S /\ m # 0
  OBVIOUS
<1>5. PICK k \in 0..n : m = k + 1
  BY <1>4
<1>6. k \notin B
  BY <1>3, <1>4, <1>5
<1>. QED BY <1>4, <1>5, <1>6

LEMMA GreatestOf ==
    ASSUME NEW n \in Nat, NEW S \in SUBSET (1..n), S # {}
    PROVE  \E m \in S : \A i \in S : i <= m
<1>. DEFINE B == {n - i : i \in S}
<1>1. PICK b \in B : \A c \in B : b <= c
  <2>1. B \in SUBSET Nat /\ B # {}
    <3>1. \A i \in S : n - i \in Nat
      OBVIOUS
    <3>. QED BY <3>1
  <2>. HIDE DEF B
  <2>. QED BY <2>1, LeastOf
<1>2. PICK m \in S : b = n - m
  OBVIOUS
<1>3. ASSUME NEW i \in S PROVE i <= m
  <2>1. PICK c \in B : c = n - i
    OBVIOUS
  <2>2. n - m <= n - i
    BY <1>1, <1>2, <2>1
  <2>3. i \in Nat /\ m \in Nat
    OBVIOUS
  <2>. HIDE DEF B
  <2>. QED BY <2>2, <2>3
<1>. QED BY <1>3

(* A recursive function on 0..n, from its first value and its step. *)
Iterates(A, a, n, g, f) ==
    /\ f \in [0..n -> A] /\ f[0] = a
    /\ \A i \in 1..n : f[i] = g[<<i, f[i - 1]>>]

LEMMA Iterated ==
    ASSUME NEW A, NEW a \in A, NEW n \in Nat, NEW g \in [(1..n) \X A -> A]
    PROVE  \E f : Iterates(A, a, n, g, f)
<1>. DEFINE Begins(f, m) == /\ f \in [0..m -> A] /\ f[0] = a
                            /\ \A i \in 1..m : f[i] = g[<<i, f[i - 1]>>]
            S == {m \in 0..n : \E f : Begins(f, m)}
<1>1. 0 \in S
  <2>. DEFINE z == [i \in 0..0 |-> a]
  <2>1. Begins(z, 0)
    OBVIOUS
  <2>. HIDE DEF z, Begins
  <2>. QED BY <2>1
<1>2. ASSUME NEW m \in 0..n, m < n, m \in S PROVE m + 1 \in S
  <2>1. PICK f : Begins(f, m)
    BY <1>2
  <2>2. m \in Nat /\ m + 1 \in 1..n /\ f[m] \in A
    BY <1>2, <2>1
  <2>3. PICK x \in A : x = g[<<m + 1, f[m]>>]
    <3>1. <<m + 1, f[m]>> \in (1..n) \X A
      BY <2>2
    <3>. QED BY <3>1, Zenon
  <2>. DEFINE h == [i \in 0..(m + 1) |-> IF i = m + 1 THEN x ELSE f[i]]
  <2>4. h \in [0..(m + 1) -> A] /\ h[0] = a
    BY <2>1, <2>2
  <2>5. ASSUME NEW i \in 1..(m + 1) PROVE h[i] = g[<<i, h[i - 1]>>]
    <3>1. i - 1 \in 0..m /\ h[i - 1] = f[i - 1]
      BY <2>2
    <3>2. CASE i = m + 1
      <4>1. h[i] = x /\ i - 1 = m
        BY <2>2, <3>2
      <4>. HIDE DEF h
      <4>. QED BY <2>3, <3>1, <3>2, <4>1
    <3>3. CASE i # m + 1
      <4>1. i \in 1..m /\ h[i] = f[i]
        BY <2>2, <3>3
      <4>. HIDE DEF h
      <4>. QED BY <2>1, <3>1, <4>1
    <3>. QED BY <3>2, <3>3
  <2>6. Begins(h, m + 1)
    <3>. HIDE DEF h
    <3>. QED BY <2>4, <2>5
  <2>7. m + 1 \in 0..n
    BY <2>2
  <2>. HIDE DEF h, Begins
  <2>. QED BY <2>6, <2>7
<1>3. n \in S
  <2>. HIDE DEF S
  <2>. QED BY <1>1, <1>2, Upwards
<1>. QED BY <1>3 DEF Iterates

-----------------------------------------------------------------------------
(* Tokens and parsers over a set of texts. *)
Types == {"object", "array", "string", "primitive"}

TokensOver(W) == [type : Types, start : Nat, end : Nat \cup {-1}, size : Nat,
                  text : W]

ParsersOver(W) == {p \in [toks : Seq(TokensOver(W)), toksuper : Nat, pos : Nat,
                          err : {"none", "nomem", "inval"}] :
                      /\ p.toksuper <= Len(p.toks)
                      /\ Len(p.toks) <= JP_MAX_TOKENS}

(* U is T with the token s counted and tok behind the others.               *)
Grown(T, U, s, tok) ==
    /\ Len(U) = Len(T) + 1 /\ U[Len(T) + 1] = tok
    /\ \A i \in 1..Len(T) :
          /\ U[i].type = T[i].type /\ U[i].text = T[i].text
          /\ U[i].start = T[i].start /\ U[i].end = T[i].end
          /\ U[i].size = IF i = s THEN T[i].size + 1 ELSE T[i].size

LEMMA Appends ==
    ASSUME NEW S, NEW s \in Seq(S), NEW x \in S
    PROVE  /\ Append(s, x) \in Seq(S) /\ Len(s) \in Nat
           /\ Len(Append(s, x)) = Len(s) + 1
           /\ \A i \in 1..Len(s) : Append(s, x)[i] = s[i]
           /\ Append(s, x)[Len(s) + 1] = x
BY LenProperties

LEMMA Updates ==
    ASSUME NEW S, NEW s \in Seq(S), NEW k \in 1..Len(s), NEW x \in S
    PROVE  /\ [s EXCEPT ![k] = x] \in Seq(S)
           /\ Len([s EXCEPT ![k] = x]) = Len(s)
           /\ \A i \in 1..Len(s) :
                 [s EXCEPT ![k] = x][i] = IF i = k THEN x ELSE s[i]
BY ExceptSeq

(* jsmn_alloc_token(): no room, or one more token; nothing else changes.    *)
LEMMA AllocIs ==
    ASSUME NEW W, NEW p \in ParsersOver(W), NEW type \in Types,
           NEW start \in Nat, NEW end \in Nat \cup {-1}, NEW text \in W
    PROVE  LET q == Alloc(p, type, start, end, text)
           IN  /\ q \in ParsersOver(W)
               /\ q.toksuper = p.toksuper /\ q.pos = p.pos
               /\ \/ q.err = "nomem" /\ q.toks = p.toks
                  \/ /\ q.err = p.err
                     /\ Grown(p.toks, q.toks, p.toksuper,
                              [type |-> type, start |-> start, end |-> end,
                               size |-> 0, text |-> text])
<1>. DEFINE tok == [type |-> type, start |-> start, end |-> end, size |-> 0,
                    text |-> text]
            q == Alloc(p, type, start, end, text)
            s == p.toksuper
            T == p.toks
<1>1. /\ T \in Seq(TokensOver(W)) /\ Len(T) \in Nat /\ s \in 0..Len(T)
      /\ Len(T) <= JP_MAX_TOKENS /\ JP_MAX_TOKENS \in Nat
      /\ p = [toks |-> T, toksuper |-> s, pos |-> p.pos, err |-> p.err]
      /\ p.pos \in Nat /\ p.err \in {"none", "nomem", "inval"}
      /\ tok \in TokensOver(W)
  BY LenProperties, TokensAssumption DEF ParsersOver, TokensOver
<1>. HIDE DEF tok, T, s
<1>2. CASE Len(T) = JP_MAX_TOKENS
  <2>1. q = [p EXCEPT !.err = "nomem"]
    BY <1>2 DEF Alloc, T
  <2>2. q.toks = T /\ q.toksuper = s /\ q.pos = p.pos /\ q.err = "nomem"
    BY <1>1, <2>1
  <2>3. q \in ParsersOver(W)
    BY <1>1, <2>1 DEF ParsersOver
  <2>. QED BY <2>2, <2>3 DEF T, s
<1>3. CASE Len(T) # JP_MAX_TOKENS
  <2>. DEFINE C == IF s = 0 THEN T ELSE [T EXCEPT ![s].size = @ + 1]
  <2>1. q = [p EXCEPT !.toks = Append(C, tok)]
    BY <1>3 DEF Alloc, T, s, tok
  <2>2. /\ C \in Seq(TokensOver(W)) /\ Len(C) = Len(T)
        /\ \A i \in 1..Len(T) :
              /\ C[i].type = T[i].type /\ C[i].text = T[i].text
              /\ C[i].start = T[i].start /\ C[i].end = T[i].end
              /\ C[i].size = IF i = s THEN T[i].size + 1 ELSE T[i].size
    <3>1. CASE s = 0
      <4>1. C = T
        BY <3>1
      <4>. HIDE DEF C
      <4>. QED BY <1>1, <3>1, <4>1
    <3>2. CASE s # 0
      <4>. DEFINE x == [T[s] EXCEPT !.size = @ + 1]
      <4>1. s \in 1..Len(T) /\ T[s] \in TokensOver(W)
        BY <1>1, <3>2, ElementOfSeq
      <4>2. /\ x \in TokensOver(W)
            /\ x.type = T[s].type /\ x.text = T[s].text
            /\ x.start = T[s].start /\ x.end = T[s].end
            /\ x.size = T[s].size + 1
        BY <4>1 DEF TokensOver
      <4>3. C = [T EXCEPT ![s] = x]
        BY <3>2
      <4>. HIDE DEF x, C
      <4>4. /\ C \in Seq(TokensOver(W)) /\ Len(C) = Len(T)
            /\ \A i \in 1..Len(T) : C[i] = IF i = s THEN x ELSE T[i]
        BY <1>1, <4>1, <4>2, <4>3, Updates
      <4>. QED BY <4>2, <4>4
    <3>. QED BY <3>1, <3>2
  <2>. HIDE DEF C
  <2>3. /\ Append(C, tok) \in Seq(TokensOver(W))
        /\ Len(Append(C, tok)) = Len(T) + 1
        /\ \A i \in 1..Len(T) : Append(C, tok)[i] = C[i]
        /\ Append(C, tok)[Len(T) + 1] = tok
    BY <1>1, <2>2, Appends
  <2>4. Grown(T, Append(C, tok), s, tok)
    BY <2>2, <2>3 DEF Grown
  <2>5. /\ q.toks = Append(C, tok) /\ q.toksuper = s
        /\ q.pos = p.pos /\ q.err = p.err
        /\ q \in [toks : Seq(TokensOver(W)), toksuper : Nat, pos : Nat,
                  err : {"none", "nomem", "inval"}]
    <3>1. p \in [toks : Seq(TokensOver(W)), toksuper : Nat, pos : Nat,
                 err : {"none", "nomem", "inval"}]
      BY DEF ParsersOver
    <3>. DEFINE U == Append(C, tok)
    <3>. HIDE DEF q, U
    <3>2. U \in Seq(TokensOver(W)) /\ q = [p EXCEPT !.toks = U]
      BY <2>1, <2>3 DEF U
    <3>3. /\ q.toks = U /\ q.toksuper = p.toksuper /\ q.pos = p.pos
          /\ q.err = p.err
          /\ q \in [toks : Seq(TokensOver(W)), toksuper : Nat, pos : Nat,
                    err : {"none", "nomem", "inval"}]
      BY <3>1, <3>2
    <3>. QED BY <3>3 DEF U, s
  <2>6. q \in ParsersOver(W)
    <3>. HIDE DEF q
    <3>. QED BY <1>1, <1>3, <2>3, <2>5 DEF ParsersOver
  <2>. QED BY <2>4, <2>5, <2>6 DEF T, s, tok
<1>. QED BY <1>2, <1>3

LEMMA TokenIs ==
    ASSUME NEW W, NEW T \in Seq(TokensOver(W)), NEW i \in 1..Len(T)
    PROVE  /\ T[i] \in TokensOver(W)
           /\ T[i].type \in Types /\ T[i].text \in W /\ T[i].size \in Nat
           /\ T[i].start \in Nat /\ T[i].end \in Nat \cup {-1}
<1>1. T[i] \in TokensOver(W)
  BY ElementOfSeq
<1>2. \A t \in TokensOver(W) :
         /\ t.type \in Types /\ t.text \in W /\ t.size \in Nat
         /\ t.start \in Nat /\ t.end \in Nat \cup {-1}
  BY DEF TokensOver
<1>. QED BY <1>1, <1>2

LEMMA NewestIs ==
    ASSUME NEW n \in Nat, NEW S \in SUBSET (1..n)
    PROVE  /\ S = {} => Newest(S) = 0
           /\ S # {} => Newest(S) \in S /\ \A i \in S : i <= Newest(S)
<1>1. CASE S = {}
  BY <1>1 DEF Newest
<1>2. CASE S # {}
  <2>1. PICK m \in S : \A i \in S : i <= m
    BY <1>2, GreatestOf
  <2>2. Newest(S) = CHOOSE x \in S : \A y \in S : x >= y
    BY <1>2 DEF Newest, Max
  <2>3. \A y \in S : m >= y
    BY <2>1
  <2>4. Newest(S) \in S /\ \A y \in S : Newest(S) >= y
    BY <2>1, <2>2, <2>3
  <2>. QED BY <1>2, <2>4
<1>. QED BY <1>1, <1>2

LEMMA OpenIs ==
    ASSUME NEW W, NEW T \in Seq(TokensOver(W))
    PROVE  /\ Len(T) \in Nat /\ Open(T) \in SUBSET (1..Len(T))
           /\ \A i \in 1..Len(T) : i \in Open(T) <=> T[i].end = -1
           /\ Newest(Open(T)) \in 0..Len(T)
           /\ \A i : Newest(Open(T) \ {i}) \in 0..Len(T)
<1>1. Len(T) \in Nat /\ DOMAIN T = 1..Len(T)
  BY LenProperties
<1>2. Open(T) \in SUBSET (1..Len(T))
  BY <1>1 DEF Open
<1>3. ASSUME NEW S \in SUBSET (1..Len(T)) PROVE Newest(S) \in 0..Len(T)
  <2>1. CASE S = {}
    BY <1>1, <2>1, NewestIs
  <2>2. CASE S # {}
    <3>1. Newest(S) \in S
      BY <1>1, <2>2, NewestIs
    <3>2. Newest(S) \in 1..Len(T)
      BY <3>1
    <3>. QED BY <1>1, <3>2
  <2>. QED BY <2>1, <2>2
<1>4. \A i : Open(T) \ {i} \in SUBSET (1..Len(T))
  BY <1>2
<1>. QED BY <1>1, <1>2, <1>3, <1>4 DEF Open

(* U is T with the token k ended. *)
Ended(T, U, k, end) ==
    /\ Len(U) = Len(T)
    /\ \A i \in 1..Len(T) :
          /\ U[i].type = T[i].type /\ U[i].text = T[i].text
          /\ U[i].start = T[i].start /\ U[i].size = T[i].size
          /\ U[i].end = IF i = k THEN end ELSE T[i].end

(* A closing bracket ends the newest open token, if it is of its kind.      *)
LEMMA CloseIs ==
    ASSUME NEW W, NEW p \in ParsersOver(W), NEW type
    PROVE  LET q == CloseContainer(p, type)
               k == Newest(Open(p.toks))
           IN  /\ q \in ParsersOver(W) /\ q.pos = p.pos
               /\ \/ k = 0 /\ q = p
                  \/ k # 0 /\ p.toks[k].type # type /\ q.err = "inval"
                  \/ /\ k \in 1..Len(p.toks) /\ p.toks[k].type = type
                     /\ Ended(p.toks, q.toks, k, p.pos + 1)
                     /\ q.toksuper = Enclosing(p, k) /\ q.err = p.err
<1>. DEFINE q == CloseContainer(p, type)
            T == p.toks
            k == Newest(Open(T))
            R == [toks : Seq(TokensOver(W)), toksuper : Nat, pos : Nat,
                  err : {"none", "nomem", "inval"}]
<1>1. /\ T \in Seq(TokensOver(W)) /\ Len(T) \in Nat
      /\ p \in R /\ Len(T) <= JP_MAX_TOKENS /\ p.toksuper <= Len(T)
      /\ JP_MAX_TOKENS \in Nat /\ p.pos \in Nat
  BY LenProperties, TokensAssumption DEF ParsersOver
<1>2. /\ k \in 0..Len(T) /\ Enclosing(p, k) \in 0..Len(T)
  BY <1>1, OpenIs DEF Enclosing
<1>. HIDE DEF k
<1>3. CASE k = 0
  BY <1>3 DEF CloseContainer, k
<1>4. CASE k # 0 /\ T[k].type # type
  <2>1. q = [p EXCEPT !.err = "inval"]
    BY <1>4 DEF CloseContainer, k
  <2>. HIDE DEF q
  <2>. QED BY <1>1, <1>4, <2>1 DEF ParsersOver, k, q
<1>5. CASE k # 0 /\ T[k].type = type
  <2>. DEFINE x == [T[k] EXCEPT !.end = p.pos + 1]
              U == [T EXCEPT ![k] = x]
              s == Enclosing(p, k)
  <2>1. k \in 1..Len(T) /\ T[k] \in TokensOver(W)
    BY <1>1, <1>2, <1>5, TokenIs
  <2>2. /\ x \in TokensOver(W) /\ x.end = p.pos + 1
        /\ x.type = T[k].type /\ x.text = T[k].text
        /\ x.start = T[k].start /\ x.size = T[k].size
    <3>1. ASSUME NEW t \in TokensOver(W), NEW e \in Nat
          PROVE  LET u == [t EXCEPT !.end = e]
                 IN  /\ u \in TokensOver(W) /\ u.end = e
                     /\ u.type = t.type /\ u.text = t.text
                     /\ u.start = t.start /\ u.size = t.size
      BY DEF TokensOver
    <3>2. p.pos + 1 \in Nat
      BY <1>1
    <3>. QED BY <2>1, <3>1, <3>2
  <2>3. q = [p EXCEPT !.toks[k].end = p.pos + 1, !.toksuper = s]
    BY <1>5 DEF CloseContainer, k
  <2>4. U = [T EXCEPT ![k].end = p.pos + 1]
    OBVIOUS
  <2>. HIDE DEF x, s
  <2>5. /\ U \in Seq(TokensOver(W)) /\ Len(U) = Len(T)
        /\ \A i \in 1..Len(T) : U[i] = IF i = k THEN x ELSE T[i]
    BY <1>1, <2>1, <2>2, Updates
  <2>6. s \in Nat /\ s <= Len(T)
    BY <1>1, <1>2 DEF s
  <2>7. q = [p EXCEPT !.toks = U, !.toksuper = s]
    BY <1>1, <2>3, <2>4
  <2>. HIDE DEF U, q
  <2>8. q \in R /\ q.toks = U /\ q.toksuper = s /\ q.pos = p.pos
        /\ q.err = p.err
    BY <1>1, <2>5, <2>6, <2>7
  <2>9. q \in ParsersOver(W)
    BY <1>1, <2>5, <2>6, <2>8 DEF ParsersOver
  <2>10. Ended(T, U, k, p.pos + 1)
    BY <2>2, <2>5 DEF Ended
  <2>. QED BY <1>5, <2>1, <2>8, <2>9, <2>10 DEF k, q, s
<1>. QED BY <1>3, <1>4, <1>5

(* The other marks move toksuper, and nothing else. *)
LEMMA MarksMove ==
    ASSUME NEW W, NEW p \in ParsersOver(W)
    PROVE  /\ \A s \in 0..Len(p.toks) :
                 LET q == [p EXCEPT !.toksuper = s]
                 IN  /\ q \in ParsersOver(W) /\ q.toks = p.toks
                     /\ q.toksuper = s /\ q.pos = p.pos /\ q.err = p.err
           /\ LET q == Comma(p)
                  moves == /\ p.toksuper # 0 /\ Open(p.toks) # {}
                           /\ ~Container(p.toks[p.toksuper].type)
              IN  /\ q \in ParsersOver(W) /\ q.toks = p.toks
                  /\ q.pos = p.pos /\ q.err = p.err
                  /\ q.toksuper = IF moves THEN Newest(Open(p.toks))
                                           ELSE p.toksuper
<1>1. /\ p.toks \in Seq(TokensOver(W)) /\ Len(p.toks) \in Nat
      /\ p.toksuper \in 0..Len(p.toks)
  BY LenProperties DEF ParsersOver
<1>2. ASSUME NEW s \in 0..Len(p.toks)
      PROVE  LET q == [p EXCEPT !.toksuper = s]
             IN  /\ q \in ParsersOver(W) /\ q.toks = p.toks
                 /\ q.toksuper = s /\ q.pos = p.pos /\ q.err = p.err
  BY <1>1 DEF ParsersOver
<1>3. Newest(Open(p.toks)) \in 0..Len(p.toks)
  BY <1>1, OpenIs
<1>. QED BY <1>1, <1>2, <1>3 DEF Comma

-----------------------------------------------------------------------------
(* The spans of tokens up to a place in the text: in the order of their     *)
(* starts, and of two that are closed one is inside the other or behind it. *)
SpansTo(T, at) ==
    /\ \A i \in 1..Len(T) :
          /\ T[i].start <= at
          /\ T[i].end = -1 => Container(T[i].type)
          /\ T[i].end # -1 => T[i].start <= T[i].end /\ T[i].end <= at
    /\ \A i, j \in 1..Len(T) : i < j =>
          /\ T[i].start <= T[j].start
          /\ T[i].end # -1 => \/ T[i].end <= T[j].start
                              \/ T[j].end # -1 /\ T[j].end <= T[i].end

LEMMA SpansGrow ==
    ASSUME NEW W, NEW T \in Seq(TokensOver(W)), NEW U, NEW s, NEW tok,
           NEW at \in Nat, NEW to \in Nat, at <= to,
           SpansTo(T, at), Grown(T, U, s, tok),
           tok.start \in Nat, tok.end \in Nat \cup {-1},
           at <= tok.start, tok.start <= to,
           tok.end = -1 => Container(tok.type),
           tok.end # -1 => tok.start <= tok.end /\ tok.end <= to
    PROVE  SpansTo(U, to)
<1>1. /\ Len(T) \in Nat /\ Len(U) = Len(T) + 1 /\ U[Len(T) + 1] = tok
      /\ \A i \in 1..Len(U) : i \in 1..Len(T) \/ i = Len(T) + 1
  BY LenProperties DEF Grown
<1>2. \A i \in 1..Len(T) :
         /\ U[i].type = T[i].type
         /\ U[i].start = T[i].start /\ U[i].end = T[i].end
         /\ T[i].start \in Nat /\ T[i].end \in Nat \cup {-1}
  BY TokenIs DEF Grown
<1>3. ASSUME NEW i \in 1..Len(U)
      PROVE  /\ U[i].start <= to
             /\ U[i].end = -1 => Container(U[i].type)
             /\ U[i].end # -1 => U[i].start <= U[i].end /\ U[i].end <= to
  <2>1. CASE i \in 1..Len(T)
    BY <1>2, <2>1 DEF SpansTo
  <2>2. CASE i = Len(T) + 1
    BY <1>1, <2>2
  <2>. QED BY <1>1, <2>1, <2>2
<1>4. ASSUME NEW i \in 1..Len(U), NEW j \in 1..Len(U), i < j
      PROVE  /\ U[i].start <= U[j].start
             /\ U[i].end # -1 => \/ U[i].end <= U[j].start
                                 \/ U[j].end # -1 /\ U[j].end <= U[i].end
  <2>0. i \in 1..Len(T)
    BY <1>1, <1>4
  <2>1. CASE j \in 1..Len(T)
    BY <1>2, <1>4, <2>0, <2>1 DEF SpansTo
  <2>2. CASE j = Len(T) + 1
    <3>1. /\ T[i].start <= at /\ (T[i].end # -1 => T[i].end <= at)
          /\ T[i].start \in Nat /\ T[i].end \in Nat \cup {-1}
      BY <1>2, <2>0 DEF SpansTo
    <3>2. U[i].start = T[i].start /\ U[i].end = T[i].end /\ U[j] = tok
      BY <1>1, <1>2, <2>0, <2>2
    <3>3. PICK b \in Nat : b = T[i].start /\ b <= at
      BY <3>1
    <3>4. b <= tok.start
      BY <3>3
    <3>5. ASSUME T[i].end # -1 PROVE T[i].end <= tok.start
      <4>1. PICK e \in Nat : e = T[i].end /\ e <= at
        BY <3>1, <3>5
      <4>. QED BY <4>1
    <3>. QED BY <3>2, <3>3, <3>4, <3>5
  <2>. QED BY <1>1, <2>1, <2>2
<1>. QED BY <1>3, <1>4 DEF SpansTo

LEMMA SpansEnd ==
    ASSUME NEW W, NEW T \in Seq(TokensOver(W)), NEW U,
           NEW k \in 1..Len(T), NEW at \in Nat,
           SpansTo(T, at), Ended(T, U, k, at + 1),
           T[k].end = -1, \A i \in 1..Len(T) : T[i].end = -1 => i <= k
    PROVE  SpansTo(U, at + 1)
<1>1. /\ Len(T) \in Nat /\ Len(U) = Len(T)
      /\ \A i \in 1..Len(T) :
            /\ U[i].type = T[i].type /\ U[i].start = T[i].start
            /\ U[i].end = IF i = k THEN at + 1 ELSE T[i].end
            /\ T[i].start \in Nat /\ T[i].end \in Nat \cup {-1}
  BY LenProperties, TokenIs DEF Ended
<1>2. ASSUME NEW i \in 1..Len(T)
      PROVE  /\ U[i].start <= at + 1
             /\ U[i].end = -1 => Container(U[i].type)
             /\ U[i].end # -1 => U[i].start <= U[i].end /\ U[i].end <= at + 1
  BY <1>1 DEF SpansTo
<1>3. ASSUME NEW i \in 1..Len(T), NEW j \in 1..Len(T), i < j
      PROVE  /\ U[i].start <= U[j].start
             /\ U[i].end # -1 => \/ U[i].end <= U[j].start
                                 \/ U[j].end # -1 /\ U[j].end <= U[i].end
  <2>0. T[i].start <= T[j].start
    BY <1>3 DEF SpansTo
  <2>1. CASE i = k
    <3>1. j # k /\ T[j].end # -1
      BY <1>3, <2>1
    <3>2. T[j].end <= at
      BY <3>1 DEF SpansTo
    <3>. QED BY <1>1, <2>0, <2>1, <3>1, <3>2
  <2>2. CASE j = k
    <3>1. T[i].end # -1 => T[i].end <= T[j].start
      BY <1>3, <2>2 DEF SpansTo
    <3>. QED BY <1>1, <1>3, <2>0, <2>2, <3>1
  <2>3. CASE i # k /\ j # k
    <3>1. T[i].end # -1 => \/ T[i].end <= T[j].start
                           \/ T[j].end # -1 /\ T[j].end <= T[i].end
      BY <1>3 DEF SpansTo
    <3>. QED BY <1>1, <2>0, <2>3, <3>1
  <2>. QED BY <2>1, <2>2, <2>3
<1>. QED BY <1>1, <1>2, <1>3 DEF SpansTo

LEMMA SpansLater ==
    ASSUME NEW W, NEW T \in Seq(TokensOver(W)), NEW at \in Nat, NEW to \in Nat,
           at <= to, SpansTo(T, at)
    PROVE  SpansTo(T, to)
<1>1. \A i \in 1..Len(T) : T[i].start \in Nat /\ T[i].end \in Nat \cup {-1}
  BY TokenIs
<1>. QED BY <1>1 DEF SpansTo

-----------------------------------------------------------------------------
(* One lexeme. *)
LEMMA WidthIs ==
    ASSUME NEW W, Texts(W), NEW lex \in LexemesOver(W)
    PROVE  /\ Width(lex) \in Nat /\ Len(lex.text) \in Nat /\ lex.text \in W
           /\ lex.c \in {"{", "[", "}", "]", ":", ","} => Width(lex) = 1
           /\ lex.c = "string" => Width(lex) = Len(lex.text) + 2
           /\ lex.c = "primitive" => Width(lex) = Len(lex.text)
<1>1. /\ lex.c \in {"{", "}", "[", "]", ":", ",", "string", "primitive"}
      /\ lex.text \in W /\ Len(lex.text) \in Nat
  BY DEF LexemesOver, Texts
<1>2. CASE lex.c = "string"
  BY <1>1, <1>2 DEF Width
<1>3. CASE lex.c = "primitive"
  BY <1>1, <1>3 DEF Width
<1>4. CASE lex.c \notin {"string", "primitive"}
  BY <1>1, <1>4 DEF Width
<1>. QED BY <1>1, <1>2, <1>3, <1>4

LEMMA OpenContainerIs ==
    ASSUME NEW W, Texts(W), NEW p \in ParsersOver(W), p.err = "none",
           NEW type \in {"object", "array"}
    PROVE  LET q == OpenContainer(p, type)
           IN  /\ q \in ParsersOver(W) /\ q.pos = p.pos
               /\ \/ q.err = "nomem"
                  \/ /\ q.err = "none" /\ q.toksuper = Len(q.toks)
                     /\ Grown(p.toks, q.toks, p.toksuper,
                              [type |-> type, start |-> p.pos, end |-> -1,
                               size |-> 0, text |-> ""])
<1>. DEFINE q == Alloc(p, type, p.pos, -1, "")
            tok == [type |-> type, start |-> p.pos, end |-> -1, size |-> 0,
                    text |-> ""]
<1>1. /\ type \in Types /\ p.pos \in Nat /\ -1 \in Nat \cup {-1} /\ "" \in W
  BY DEF Types, ParsersOver, Texts
<1>2. /\ q \in ParsersOver(W) /\ q.pos = p.pos
      /\ \/ q.err = "nomem"
         \/ q.err = "none" /\ Grown(p.toks, q.toks, p.toksuper, tok)
  <2>0. PICK e \in Nat \cup {-1}, text \in W : e = -1 /\ text = ""
    BY <1>1, Zenon
  <2>. DEFINE x == [type |-> type, start |-> p.pos, end |-> e, size |-> 0,
                    text |-> text]
  <2>2. q = Alloc(p, type, p.pos, e, text) /\ x = tok
    BY <2>0, Zenon
  <2>t. type \in Types /\ p.pos \in Nat
    BY <1>1
  <2>. HIDE DEF q, tok
  <2>3. /\ q \in ParsersOver(W) /\ q.pos = p.pos
        /\ \/ q.err = "nomem"
           \/ q.err = p.err /\ Grown(p.toks, q.toks, p.toksuper, x)
    BY <2>2, <2>t, AllocIs
  <2>1. /\ q \in ParsersOver(W) /\ q.pos = p.pos
        /\ \/ q.err = "nomem"
           \/ q.err = p.err /\ Grown(p.toks, q.toks, p.toksuper, tok)
    BY <2>2, <2>3, Zenon
  <2>. QED BY <2>1
<1>3. OpenContainer(p, type) = IF q.err = "none"
                               THEN [q EXCEPT !.toksuper = Len(q.toks)] ELSE q
  BY DEF OpenContainer
<1>. HIDE DEF q, tok
<1>4. CASE q.err = "nomem"
  BY <1>2, <1>3, <1>4
<1>5. CASE q.err = "none"
  <2>1. Len(q.toks) \in 0..Len(q.toks)
    BY <1>2, LenProperties DEF ParsersOver
  <2>2. LET r == [q EXCEPT !.toksuper = Len(q.toks)]
        IN  /\ r \in ParsersOver(W) /\ r.toks = q.toks
            /\ r.toksuper = Len(q.toks) /\ r.pos = q.pos /\ r.err = q.err
    BY <1>2, <2>1, MarksMove
  <2>. QED BY <1>2, <1>3, <1>5, <2>2 DEF tok
<1>. QED BY <1>2, <1>4, <1>5

(* Scan, kind by kind. *)
LEMMA ScanIs ==
    ASSUME NEW W, NEW p \in ParsersOver(W), NEW lex \in LexemesOver(W)
    PROVE  LET q == Scan(p, lex)
           IN  /\ lex.c = "{" => q = OpenContainer(p, "object")
               /\ lex.c = "[" => q = OpenContainer(p, "array")
               /\ lex.c = "}" => q = CloseContainer(p, "object")
               /\ lex.c = "]" => q = CloseContainer(p, "array")
               /\ lex.c = ":" => q = [p EXCEPT !.toksuper = Len(p.toks)]
               /\ lex.c = "," => q = Comma(p)
               /\ lex.c = "string" =>
                     q = Alloc(p, "string", p.pos + 1,
                               p.pos + 1 + Len(lex.text), lex.text)
               /\ lex.c = "primitive" =>
                     q = Alloc(p, "primitive", p.pos, p.pos + Len(lex.text),
                               lex.text)
BY DEF Scan

LEMMA OpensIs ==
    ASSUME NEW W, NEW p \in ParsersOver(W), NEW lex \in LexemesOver(W),
           lex.c \in {"{", "["}
    PROVE  \E type \in {"object", "array"} : Scan(p, lex) = OpenContainer(p, type)
<1>1. CASE lex.c = "{"
  BY <1>1, ScanIs
<1>2. CASE lex.c = "["
  BY <1>2, ScanIs
<1>. QED BY <1>1, <1>2

LEMMA ClosesIs ==
    ASSUME NEW W, NEW p \in ParsersOver(W), NEW lex \in LexemesOver(W),
           lex.c \in {"}", "]"}
    PROVE  \E type \in {"object", "array"} :
              Scan(p, lex) = CloseContainer(p, type)
<1>1. CASE lex.c = "}"
  BY <1>1, ScanIs
<1>2. CASE lex.c = "]"
  BY <1>2, ScanIs
<1>. QED BY <1>1, <1>2

LEMMA StringIs ==
    ASSUME NEW W, NEW p \in ParsersOver(W), NEW lex \in LexemesOver(W),
           lex.c = "string"
    PROVE  Scan(p, lex) = Alloc(p, "string", p.pos + 1,
                                p.pos + 1 + Len(lex.text), lex.text)
BY DEF Scan

LEMMA PrimitiveIs ==
    ASSUME NEW W, NEW p \in ParsersOver(W), NEW lex \in LexemesOver(W),
           lex.c = "primitive"
    PROVE  Scan(p, lex) = Alloc(p, "primitive", p.pos, p.pos + Len(lex.text),
                                lex.text)
BY DEF Scan

LEMMA ColonIs ==
    ASSUME NEW W, NEW p \in ParsersOver(W), NEW lex \in LexemesOver(W),
           lex.c = ":"
    PROVE  Scan(p, lex) = [p EXCEPT !.toksuper = Len(p.toks)]
BY ScanIs

LEMMA CommaIs ==
    ASSUME NEW W, NEW p \in ParsersOver(W), NEW lex \in LexemesOver(W),
           lex.c = ","
    PROVE  Scan(p, lex) = Comma(p)
BY ScanIs

(* A lexeme keeps the tokens within their number and their spans in order.  *)
LEMMA ScanKeeps ==
    ASSUME NEW W, Texts(W), NEW p \in ParsersOver(W), NEW lex \in LexemesOver(W),
           p.err = "none", SpansTo(p.toks, p.pos)
    PROVE  LET q == Scan(p, lex)
           IN  /\ q \in ParsersOver(W) /\ q.pos = p.pos
               /\ q.err = "none" => SpansTo(q.toks, p.pos + Width(lex))
<1>. DEFINE q == Scan(p, lex)
            w == Width(lex)
            T == p.toks
<1>1. /\ T \in Seq(TokensOver(W)) /\ Len(T) \in Nat /\ p.pos \in Nat
      /\ w \in Nat /\ p.pos + w \in Nat /\ p.pos <= p.pos + w
      /\ lex.text \in W /\ Len(lex.text) \in Nat
  <2>1. w \in Nat /\ lex.text \in W /\ Len(lex.text) \in Nat
    BY WidthIs, Zenon
  <2>2. T \in Seq(TokensOver(W)) /\ p.pos \in Nat
    BY DEF ParsersOver
  <2>. HIDE DEF w, T
  <2>. QED BY <2>1, <2>2, LenProperties
<1>2. CASE lex.c \in {"{", "["}
  <2>1. PICK type \in {"object", "array"} : q = OpenContainer(p, type)
    BY <1>2, OpensIs, Zenon
  <2>2. w = 1
    BY <1>2, WidthIs
  <2>. DEFINE tok == [type |-> type, start |-> p.pos, end |-> -1, size |-> 0,
                      text |-> ""]
  <2>. HIDE DEF q, w
  <2>3. /\ q \in ParsersOver(W) /\ q.pos = p.pos
        /\ q.err = "none" => Grown(T, q.toks, p.toksuper, tok)
    BY <2>1, OpenContainerIs
  <2>4. /\ tok.start = p.pos /\ tok.end = -1 /\ Container(tok.type)
        /\ tok.start \in Nat /\ tok.end \in Nat \cup {-1}
        /\ p.pos <= tok.start /\ tok.start <= p.pos + w
        /\ (tok.end = -1 => Container(tok.type))
        /\ (tok.end # -1 => tok.start <= tok.end /\ tok.end <= p.pos + w)
    BY <1>1 DEF Container
  <2>. HIDE DEF tok, T
  <2>5. Grown(T, q.toks, p.toksuper, tok) => SpansTo(q.toks, p.pos + w)
    BY <1>1, <2>4, SpansGrow, Zenon DEF T
  <2>. QED BY <2>3, <2>5 DEF q, w
<1>3. CASE lex.c \in {"}", "]"}
  <2>1. PICK type \in {"object", "array"} : q = CloseContainer(p, type)
    BY <1>3, ClosesIs, Zenon
  <2>2. w = 1
    BY <1>3, WidthIs
  <2>. DEFINE k == Newest(Open(T))
  <2>3. /\ q \in ParsersOver(W) /\ q.pos = p.pos
        /\ \/ q = p \/ q.err = "inval"
           \/ k \in 1..Len(T) /\ Ended(T, q.toks, k, p.pos + 1)
    BY <2>1, CloseIs
  <2>4. CASE q = p
    BY <1>1, <2>4, SpansLater
  <2>5. CASE k \in 1..Len(T) /\ Ended(T, q.toks, k, p.pos + 1)
    <3>1. Open(T) \in SUBSET (1..Len(T)) /\ Open(T) # {}
      <4>1. Open(T) = {} => k = 0
        BY <1>1, OpenIs, NewestIs
      <4>. QED BY <1>1, <2>5, <4>1, OpenIs
    <3>2. k \in Open(T) /\ \A i \in Open(T) : i <= k
      BY <1>1, <3>1, NewestIs
    <3>3. T[k].end = -1 /\ \A i \in 1..Len(T) : T[i].end = -1 => i <= k
      BY <1>1, <2>5, <3>2, OpenIs
    <3>. HIDE DEF k, q, w
    <3>4. SpansTo(q.toks, p.pos + 1)
      BY <1>1, <2>5, <3>3, SpansEnd
    <3>. QED BY <2>2, <2>3, <3>4 DEF q, w
  <2>. QED BY <2>3, <2>4, <2>5
<1>4. CASE lex.c \in {":", ","}
  <2>1. Len(T) \in 0..Len(T)
    BY <1>1
  <2>2. q \in ParsersOver(W) /\ q.toks = T /\ q.pos = p.pos
    <3>1. CASE lex.c = ":"
      <4>1. q = [p EXCEPT !.toksuper = Len(T)]
        BY <3>1, ColonIs, Zenon
      <4>. HIDE DEF q
      <4>. QED BY <2>1, <4>1, MarksMove
    <3>2. CASE lex.c = ","
      <4>1. q = Comma(p)
        BY <3>2, CommaIs, Zenon
      <4>. HIDE DEF q
      <4>. QED BY <4>1, MarksMove
    <3>. QED BY <1>4, <3>1, <3>2
  <2>. QED BY <1>1, <2>2, SpansLater
<1>5. CASE lex.c = "string"
  <2>. DEFINE b == p.pos + 1
              e == p.pos + 1 + Len(lex.text)
              tok == [type |-> "string", start |-> b, end |-> e, size |-> 0,
                      text |-> lex.text]
  <2>a. q = Alloc(p, "string", b, e, lex.text)
    BY <1>5 DEF Scan
  <2>b. w = Len(lex.text) + 2
    BY <1>5, WidthIs, Zenon
  <2>1. q = Alloc(p, "string", b, e, lex.text) /\ w = Len(lex.text) + 2
    BY <2>a, <2>b
  <2>2. /\ b \in Nat /\ e \in Nat /\ b <= e /\ e <= p.pos + w
        /\ p.pos <= b /\ b <= p.pos + w /\ "string" \in Types /\ e # -1
    BY <1>1, <2>1 DEF Types
  <2>. HIDE DEF b, e, q, w
  <2>3. /\ q \in ParsersOver(W) /\ q.pos = p.pos
        /\ q.err = "none" => Grown(T, q.toks, p.toksuper, tok)
    BY <1>1, <2>1, <2>2, AllocIs
  <2>4. /\ tok.start \in Nat /\ tok.end \in Nat \cup {-1}
        /\ p.pos <= tok.start /\ tok.start <= p.pos + w
        /\ (tok.end = -1 => Container(tok.type))
        /\ (tok.end # -1 => tok.start <= tok.end /\ tok.end <= p.pos + w)
    BY <2>2
  <2>. HIDE DEF tok, T
  <2>5. Grown(T, q.toks, p.toksuper, tok) => SpansTo(q.toks, p.pos + w)
    BY <1>1, <2>4, SpansGrow, Zenon DEF T
  <2>. QED BY <2>3, <2>5 DEF q, w
<1>6. CASE lex.c = "primitive"
  <2>. DEFINE b == p.pos
              e == p.pos + Len(lex.text)
              tok == [type |-> "primitive", start |-> b, end |-> e, size |-> 0,
                      text |-> lex.text]
  <2>a. q = Alloc(p, "primitive", b, e, lex.text)
    BY <1>6 DEF Scan
  <2>b. w = Len(lex.text)
    BY <1>6, WidthIs, Zenon
  <2>1. q = Alloc(p, "primitive", b, e, lex.text) /\ w = Len(lex.text)
    BY <2>a, <2>b
  <2>2. /\ b \in Nat /\ e \in Nat /\ b <= e /\ e <= p.pos + w
        /\ p.pos <= b /\ b <= p.pos + w /\ "primitive" \in Types /\ e # -1
    BY <1>1, <2>1 DEF Types
  <2>. HIDE DEF b, e, q, w
  <2>3. /\ q \in ParsersOver(W) /\ q.pos = p.pos
        /\ q.err = "none" => Grown(T, q.toks, p.toksuper, tok)
    BY <1>1, <2>1, <2>2, AllocIs
  <2>4. /\ tok.start \in Nat /\ tok.end \in Nat \cup {-1}
        /\ p.pos <= tok.start /\ tok.start <= p.pos + w
        /\ (tok.end = -1 => Container(tok.type))
        /\ (tok.end # -1 => tok.start <= tok.end /\ tok.end <= p.pos + w)
    BY <2>2
  <2>. HIDE DEF tok, T
  <2>5. Grown(T, q.toks, p.toksuper, tok) => SpansTo(q.toks, p.pos + w)
    BY <1>1, <2>4, SpansGrow, Zenon DEF T
  <2>. QED BY <2>3, <2>5 DEF q, w
<1>. QED BY <1>2, <1>3, <1>4, <1>5, <1>6 DEF LexemesOver

SoundParsers(W) ==
    {p \in ParsersOver(W) : p.err = "none" => SpansTo(p.toks, p.pos)}

LEMMA StepIs ==
    ASSUME NEW W, Texts(W), NEW p \in SoundParsers(W), NEW lex \in LexemesOver(W)
    PROVE  LET q == Step(p, lex)
           IN  /\ q \in SoundParsers(W)
               /\ p.err # "none" => q = p
               /\ p.err = "none" =>
                     LET r == Scan(p, lex)
                     IN  /\ r \in ParsersOver(W)
                         /\ q.toks = r.toks /\ q.toksuper = r.toksuper
                         /\ q.err = r.err /\ q.pos = p.pos + Width(lex)
<1>1. CASE p.err # "none"
  BY <1>1 DEF Step
<1>2. CASE p.err = "none"
  <2>. DEFINE r == Scan(p, lex)
              q == Step(p, lex)
  <2>1. p \in ParsersOver(W) /\ SpansTo(p.toks, p.pos)
    BY <1>2 DEF SoundParsers
  <2>2. /\ r \in ParsersOver(W) /\ r.pos = p.pos
        /\ r.err = "none" => SpansTo(r.toks, p.pos + Width(lex))
    BY <1>2, <2>1, ScanKeeps
  <2>3. Width(lex) \in Nat /\ p.pos \in Nat
    BY <2>1, WidthIs DEF ParsersOver
  <2>4. q = [r EXCEPT !.pos = @ + Width(lex)]
    BY <1>2 DEF Step
  <2>. HIDE DEF q, r
  <2>5. PICK at \in Nat : at = p.pos + Width(lex)
    BY <2>3
  <2>6. q = [r EXCEPT !.pos = at]
    BY <2>2, <2>4, <2>5
  <2>7. /\ q \in ParsersOver(W) /\ q.toks = r.toks /\ q.toksuper = r.toksuper
        /\ q.err = r.err /\ q.pos = at
    BY <2>2, <2>6 DEF ParsersOver
  <2>. QED BY <1>2, <2>2, <2>5, <2>7 DEF SoundParsers, q, r
<1>. QED BY <1>1, <1>2

LEMMA InitIsSound ==
    ASSUME NEW W
    PROVE  /\ ParserInit \in SoundParsers(W) /\ ParserInit.err = "none"
           /\ Len(ParserInit.toks) = 0 /\ ParserInit.toksuper = 0
<1>1. <<>> \in Seq(TokensOver(W)) /\ Len(<<>>) = 0 /\ 0 <= JP_MAX_TOKENS
  BY EmptySeq, TokensAssumption
<1>2. PICK T \in Seq(TokensOver(W)) : T = <<>> /\ Len(T) = 0
  BY <1>1
<1>3. ParserInit = [toks |-> T, toksuper |-> 0, pos |-> 0, err |-> "none"]
  BY <1>2 DEF ParserInit, Parser
<1>4. SpansTo(T, 0)
  BY <1>2 DEF SpansTo
<1>. QED BY <1>1, <1>2, <1>3, <1>4 DEF SoundParsers, ParsersOver

(* The parser after each lexeme. *)
LEMMA ParsedIs ==
    ASSUME NEW W, Texts(W), NEW text \in Seq(LexemesOver(W))
    PROVE  \E f \in [0..Len(text) -> SoundParsers(W)] :
              /\ f[0] = ParserInit /\ Parsed(text) = f[Len(text)]
              /\ \A i \in 1..Len(text) : f[i] = Step(f[i - 1], text[i])
<1>. DEFINE n == Len(text)
            A == SoundParsers(W)
            Eq(f) == f = [i \in 0..n |-> IF i = 0 THEN ParserInit
                                         ELSE Step(f[i - 1], text[i])]
            h == CHOOSE f : Eq(f)
            g == [x \in (1..n) \X A |-> Step(x[2], text[x[1]])]
<1>1. n \in Nat /\ \A i \in 1..n : text[i] \in LexemesOver(W)
  BY LenProperties, ElementOfSeq
<1>2. ParserInit \in A
  BY InitIsSound
<1>3. \A p \in A : \A i \in 1..n : Step(p, text[i]) \in A
  BY <1>1, StepIs
<1>4. g \in [(1..n) \X A -> A]
  BY <1>3
<1>5. \A i \in 1..n, p \in A : g[<<i, p>>] = Step(p, text[i])
  OBVIOUS
<1>. HIDE DEF A, n, g
<1>6. PICK f : /\ f \in [0..n -> A] /\ f[0] = ParserInit
               /\ \A i \in 1..n : f[i] = g[<<i, f[i - 1]>>]
  <2>1. \E f : Iterates(A, ParserInit, n, g, f)
    BY <1>1, <1>2, <1>4, Iterated
  <2>. QED BY <2>1 DEF Iterates
<1>7. \A i \in 1..n : f[i - 1] \in A /\ f[i] = Step(f[i - 1], text[i])
  <2>. TAKE i \in 1..n
  <2>1. i - 1 \in 0..n
    BY <1>1
  <2>. QED BY <1>5, <1>6, <2>1
<1>8. Eq(f)
  <2>1. \A i \in 0..n : i = 0 \/ i \in 1..n
    BY <1>1
  <2>. QED BY <1>6, <1>7, <2>1
<1>9. Eq(h)
  BY <1>8
<1>10. Parsed(text) = h[n]
  BY DEF Parsed, n
<1>. HIDE DEF h
<1>11. h = f
  <2>. DEFINE S == {i \in 0..n : h[i] = f[i]}
  <2>1. 0 \in S
    BY <1>1, <1>6, <1>9
  <2>2. ASSUME NEW i \in 0..n, i < n, i \in S PROVE i + 1 \in S
    <3>1. i + 1 \in 1..n /\ (i + 1) - 1 = i
      BY <1>1, <2>2
    <3>2. h[i + 1] = Step(h[i], text[i + 1])
      BY <1>1, <1>9, <3>1
    <3>3. f[i + 1] = Step(f[i], text[i + 1])
      BY <1>7, <3>1
    <3>. QED BY <2>2, <3>1, <3>2, <3>3
  <2>3. \A i \in 0..n : i \in S
    <3>. HIDE DEF S
    <3>. QED BY <1>1, <2>1, <2>2, Upwards
  <2>4. h = [i \in 0..n |-> h[i]]
    BY <1>9
  <2>5. f = [i \in 0..n |-> f[i]]
    BY <1>6
  <2>. QED BY <2>3, <2>4, <2>5
<1>. QED BY <1>6, <1>7, <1>10, <1>11 DEF A, n

-----------------------------------------------------------------------------
(* What jsmn leaves behind: the tokens nest. *)
Nested(T) ==
    /\ \A i \in 1..Len(T) : T[i].start <= T[i].end
    /\ \A i, j \in 1..Len(T) : i < j =>
          /\ T[i].start <= T[j].start
          /\ T[i].end <= T[j].start \/ T[j].end <= T[i].end

LEMMA TokenizedIs ==
    ASSUME NEW W, Texts(W), NEW text \in Seq(LexemesOver(W))
    PROVE  LET T == Tokenize(text)
               p == Parsed(text)
           IN  /\ p \in SoundParsers(W)
               /\ \/ T = <<>>
                  \/ /\ p.err = "none" /\ T = p.toks
                     /\ \A i \in 1..Len(T) : T[i].end # -1
<1>1. Parsed(text) \in SoundParsers(W)
  <2>1. PICK f \in [0..Len(text) -> SoundParsers(W)] :
           Parsed(text) = f[Len(text)]
    BY ParsedIs
  <2>2. Len(text) \in 0..Len(text)
    BY LenProperties
  <2>. QED BY <2>1, <2>2
<1>. DEFINE p == Parsed(text)
<1>2. p.toks \in Seq(TokensOver(W))
  BY <1>1 DEF SoundParsers, ParsersOver
<1>3. Tokenize(text) = IF p.err # "none" \/ CutShort(p, text) THEN <<>>
                       ELSE p.toks
  BY DEF Tokenize
<1>. HIDE DEF p
<1>4. ~CutShort(p, text) => \A i \in 1..Len(p.toks) : p.toks[i].end # -1
  BY <1>2, OpenIs DEF CutShort
<1>. QED BY <1>1, <1>3, <1>4 DEF p

(* Whatever the text, the tokens fit their table and nest: they come in the *)
(* order of their starts, and of two of them the later one is inside the    *)
(* other or behind it; on this jp_skip() rests (jsmn_parse).                *)
THEOREM TokensNest ==
    ASSUME NEW W, Texts(W), NEW text \in Seq(LexemesOver(W))
    PROVE  /\ Tokenize(text) \in Seq(TokensOver(W))
           /\ Len(Tokenize(text)) <= JP_MAX_TOKENS
           /\ Nested(Tokenize(text))
<1>. DEFINE T == Tokenize(text)
<1>1. CASE T = <<>>
  <2>1. PICK U \in Seq(TokensOver(W)) : U = <<>> /\ Len(U) = 0
    BY EmptySeq
  <2>. HIDE DEF T
  <2>2. Nested(U)
    BY <2>1 DEF Nested
  <2>. QED BY <1>1, <2>1, <2>2, TokensAssumption DEF T
<1>2. CASE T # <<>>
  <2>. DEFINE p == Parsed(text)
  <2>1. /\ p \in SoundParsers(W) /\ p.err = "none" /\ T = p.toks
        /\ \A i \in 1..Len(T) : T[i].end # -1
    BY <1>2, TokenizedIs
  <2>. HIDE DEF T, p
  <2>2. /\ T \in Seq(TokensOver(W)) /\ Len(T) <= JP_MAX_TOKENS
        /\ SpansTo(T, p.pos)
    BY <2>1 DEF SoundParsers, ParsersOver
  <2>3. Nested(T)
    BY <2>1, <2>2 DEF SpansTo, Nested
  <2>. QED BY <2>2, <2>3 DEF T
<1>. QED BY <1>1, <1>2

-----------------------------------------------------------------------------
(* jp_skip() stops at the first token that starts behind the end. *)
StopsAt(T, i, j) ==
    /\ j \in (i + 1)..(Len(T) + 1)
    /\ \A k \in (i + 1)..(j - 1) : T[k].start < T[i].end
    /\ j <= Len(T) => T[i].end <= T[j].start

LEMMA SkipStops ==
    ASSUME NEW W, NEW T \in Seq(TokensOver(W)), NEW i \in 1..Len(T)
    PROVE  StopsAt(T, i, JpSkip(T, i))
<1>. DEFINE n == Len(T)
            S == {j \in (i + 1)..n : T[j].start >= T[i].end} \cup {n + 1}
<1>1. /\ n \in Nat /\ i \in Nat /\ i <= n /\ T[i].end \in Int
      /\ \A k \in 1..n : T[k].start \in Nat
  BY LenProperties, TokenIs
<1>2. JpSkip(T, i) = Min(S)
  BY <1>1 DEF JpSkip
<1>3. S \in SUBSET Nat /\ S # {}
  BY <1>1
<1>4. PICK m \in S : \A j \in S : m <= j
  <2>. HIDE DEF S
  <2>. QED BY <1>3, LeastOf
<1>5. Min(S) \in S /\ \A j \in S : Min(S) <= j
  <2>. HIDE DEF S
  <2>. QED BY <1>4 DEF Min
<1>6. PICK j \in S : j = Min(S) /\ \A k \in S : j <= k
  <2>. HIDE DEF S
  <2>. QED BY <1>5
<1>7. j \in (i + 1)..(n + 1) /\ j \in Nat
  BY <1>1
<1>8. ASSUME NEW k \in (i + 1)..(j - 1) PROVE T[k].start < T[i].end
  <2>1. k \in (i + 1)..n /\ k \in 1..n /\ k < j
    BY <1>1, <1>7
  <2>2. k \notin S
    <3>. HIDE DEF S
    <3>. QED BY <1>6, <1>7, <2>1
  <2>. QED BY <1>1, <2>1, <2>2
<1>9. j <= n => T[i].end <= T[j].start
  BY <1>1, <1>7
<1>. HIDE DEF S
<1>. QED BY <1>2, <1>6, <1>7, <1>8, <1>9 DEF StopsAt

LEMMA StopsOnce ==
    ASSUME NEW W, NEW T \in Seq(TokensOver(W)), NEW i \in 1..Len(T),
           NEW j, StopsAt(T, i, j)
    PROVE  JpSkip(T, i) = j
<1>1. PICK l : l = JpSkip(T, i) /\ StopsAt(T, i, l)
  BY SkipStops
<1>2. /\ Len(T) \in Nat /\ T[i].end \in Int
      /\ \A k \in 1..Len(T) : T[k].start \in Nat
  BY LenProperties, TokenIs
<1>3. j \in (i + 1)..(Len(T) + 1) /\ l \in (i + 1)..(Len(T) + 1)
  BY <1>1 DEF StopsAt
<1>4. ~(j < l)
  <2>. SUFFICES ASSUME j < l PROVE FALSE
    OBVIOUS
  <2>1. j \in (i + 1)..(l - 1) /\ j <= Len(T) /\ j \in 1..Len(T)
    BY <1>2, <1>3
  <2>2. T[j].start < T[i].end /\ T[i].end <= T[j].start
    BY <1>1, <2>1 DEF StopsAt
  <2>. QED BY <1>2, <2>1, <2>2
<1>5. ~(l < j)
  <2>. SUFFICES ASSUME l < j PROVE FALSE
    OBVIOUS
  <2>1. l \in (i + 1)..(j - 1) /\ l <= Len(T) /\ l \in 1..Len(T)
    BY <1>2, <1>3
  <2>2. T[l].start < T[i].end /\ T[i].end <= T[l].start
    BY <1>1, <2>1 DEF StopsAt
  <2>. QED BY <1>2, <2>1, <2>2
<1>. QED BY <1>1, <1>2, <1>3, <1>4, <1>5

(* In what Tokenize leaves behind, jp_skip() passes over a token with all   *)
(* that is inside it, and over nothing else (jp_skip).                      *)
THEOREM SkipIsExact ==
    ASSUME NEW W, Texts(W), NEW text \in Seq(LexemesOver(W)),
           NEW i \in 1..Len(Tokenize(text))
    PROVE  LET T == Tokenize(text)
               j == JpSkip(T, i)
           IN  /\ j \in (i + 1)..(Len(T) + 1)
               /\ \A k \in (i + 1)..(j - 1) :
                     T[i].start <= T[k].start /\ T[k].end <= T[i].end
               /\ \A k \in j..Len(T) : T[i].end <= T[k].start
<1>. DEFINE T == Tokenize(text)
<1>1. T \in Seq(TokensOver(W)) /\ Nested(T)
  BY TokensNest
<1>. HIDE DEF T
<1>2. PICK j : j = JpSkip(T, i) /\ StopsAt(T, i, j)
  BY <1>1, SkipStops DEF T
<1>3. /\ Len(T) \in Nat /\ i \in 1..Len(T)
      /\ \A k \in 1..Len(T) : /\ T[k].start \in Nat
                              /\ T[k].end \in Nat \cup {-1}
  BY <1>1, LenProperties, TokenIs DEF T
<1>4. j \in (i + 1)..(Len(T) + 1)
  BY <1>2 DEF StopsAt
<1>5. ASSUME NEW k \in (i + 1)..(j - 1)
      PROVE  T[i].start <= T[k].start /\ T[k].end <= T[i].end
  <2>1. k \in 1..Len(T) /\ i < k
    BY <1>3, <1>4
  <2>2. T[k].start < T[i].end
    BY <1>2 DEF StopsAt
  <2>3. /\ T[i].start <= T[k].start
        /\ T[i].end <= T[k].start \/ T[k].end <= T[i].end
    BY <1>1, <1>3, <2>1 DEF Nested
  <2>. QED BY <1>3, <2>1, <2>2, <2>3
<1>6. ASSUME NEW k \in j..Len(T) PROVE T[i].end <= T[k].start
  <2>1. j \in 1..Len(T) /\ k \in 1..Len(T) /\ j <= k /\ j <= Len(T)
    BY <1>3, <1>4
  <2>2. T[i].end <= T[j].start
    BY <1>2, <2>1 DEF StopsAt
  <2>3. T[j].start <= T[k].start
    <3>1. CASE j = k
      BY <1>3, <2>1, <3>1
    <3>2. CASE j < k
      BY <1>1, <2>1, <3>2 DEF Nested
    <3>. QED BY <2>1, <3>1, <3>2
  <2>. QED BY <1>3, <2>1, <2>2, <2>3
<1>. QED BY <1>2, <1>4, <1>5, <1>6 DEF T

(* While the text is scanned, what jp_skip() passes over stays the same. *)
LEMMA SkipGrown ==
    ASSUME NEW W, NEW T \in Seq(TokensOver(W)), NEW U \in Seq(TokensOver(W)),
           NEW s, NEW tok, NEW at \in Nat, SpansTo(T, at), Grown(T, U, s, tok),
           tok.start \in Nat, at <= tok.start,
           NEW m \in 1..Len(T), T[m].end # -1
    PROVE  JpSkip(U, m) = JpSkip(T, m)
<1>1. PICK j : j = JpSkip(T, m) /\ StopsAt(T, m, j)
  BY SkipStops
<1>2. /\ Len(T) \in Nat /\ Len(U) = Len(T) + 1 /\ U[Len(T) + 1] = tok
      /\ \A k \in 1..Len(T) : U[k].start = T[k].start /\ U[k].end = T[k].end
      /\ T[m].end \in Nat /\ T[m].end <= at /\ m \in 1..Len(U)
  BY LenProperties, TokenIs DEF Grown, SpansTo
<1>3. j \in (m + 1)..(Len(T) + 1)
  BY <1>1 DEF StopsAt
<1>4. j \in (m + 1)..(Len(U) + 1)
  BY <1>2, <1>3
<1>5. ASSUME NEW k \in (m + 1)..(j - 1) PROVE U[k].start < U[m].end
  <2>1. k \in 1..Len(T)
    BY <1>2, <1>3
  <2>. QED BY <1>1, <1>2, <2>1 DEF StopsAt
<1>6. U[m].end <= U[j].start
  <2>1. CASE j \in 1..Len(T)
    BY <1>1, <1>2, <2>1 DEF StopsAt
  <2>2. CASE j = Len(T) + 1
    <3>1. U[j] = tok
      BY <1>2, <2>2, Zenon
    <3>2. PICK e \in Nat, b \in Nat : e = U[m].end /\ b = tok.start /\ e <= at
      BY <1>2
    <3>3. e <= b
      BY <3>2
    <3>. QED BY <3>1, <3>2, <3>3
  <2>3. j \in 1..Len(T) \/ j = Len(T) + 1
    <3>1. PICK n \in Nat : n = Len(T)
      BY <1>2
    <3>2. m \in 1..n /\ j \in (m + 1)..(n + 1)
      BY <1>3, <3>1
    <3>3. j \in 1..n \/ j = n + 1
      BY <3>2
    <3>. QED BY <3>1, <3>3
  <2>. QED BY <2>1, <2>2, <2>3
<1>7. StopsAt(U, m, j)
  BY <1>4, <1>5, <1>6 DEF StopsAt
<1>. QED BY <1>1, <1>2, <1>7, StopsOnce

LEMMA SkipEnded ==
    ASSUME NEW W, NEW T \in Seq(TokensOver(W)), NEW U \in Seq(TokensOver(W)),
           NEW e, NEW i, Ended(T, U, e, i),
           NEW m \in 1..Len(T), m # e
    PROVE  JpSkip(U, m) = JpSkip(T, m)
<1>1. PICK j : j = JpSkip(T, m) /\ StopsAt(T, m, j)
  BY SkipStops
<1>2. /\ Len(T) \in Nat /\ Len(U) = Len(T) /\ m \in 1..Len(U)
      /\ \A k \in 1..Len(T) : U[k].start = T[k].start
      /\ U[m].end = T[m].end
  BY LenProperties DEF Ended
<1>3. j \in (m + 1)..(Len(T) + 1)
  BY <1>1 DEF StopsAt
<1>4. /\ \A k \in (m + 1)..(j - 1) : k \in 1..Len(T)
      /\ j <= Len(T) => j \in 1..Len(T)
  BY <1>2, <1>3
<1>5. StopsAt(U, m, j)
  BY <1>1, <1>2, <1>3, <1>4 DEF StopsAt
<1>. QED BY <1>1, <1>2, <1>5, StopsOnce

LEMMA SkipToTheEnd ==
    ASSUME NEW W, NEW T \in Seq(TokensOver(W)), NEW i \in 1..Len(T),
           \A k \in (i + 1)..Len(T) : T[k].start < T[i].end
    PROVE  JpSkip(T, i) = Len(T) + 1
<1>1. Len(T) \in Nat
  BY LenProperties
<1>2. StopsAt(T, i, Len(T) + 1)
  BY <1>1 DEF StopsAt
<1>. QED BY <1>2, StopsOnce

-----------------------------------------------------------------------------
(* Trees and readers over a set of texts. *)
NodesOver(W) == [type : Types, text : W, kids : Seq(Nat)]

ReadersOver(W) ==
    {r \in [tree : Seq(NodesOver(W)), stack : Seq(Nat),
            mode : {"first", "next", "colon", "rest", "bad"}] :
        \A d \in 1..Len(r.stack) : r.stack[d] \in 1..Len(r.tree)}

LEMMA NodeIs ==
    ASSUME NEW W, NEW F \in Seq(NodesOver(W)), NEW i \in 1..Len(F)
    PROVE  /\ F[i] \in NodesOver(W) /\ F[i].type \in Types /\ F[i].text \in W
           /\ F[i].kids \in Seq(Nat) /\ Len(F[i].kids) \in Nat
           /\ \A k \in 1..Len(F[i].kids) : F[i].kids[k] \in Nat
<1>1. F[i] \in NodesOver(W)
  BY ElementOfSeq
<1>2. \A f \in NodesOver(W) :
         f.type \in Types /\ f.text \in W /\ f.kids \in Seq(Nat)
  BY DEF NodesOver
<1>3. F[i].kids \in Seq(Nat)
  BY <1>1, <1>2
<1>4. \A k \in 1..Len(F[i].kids) : F[i].kids[k] \in Nat
  BY <1>3, ElementOfSeq
<1>. QED BY <1>1, <1>2, <1>3, <1>4, LenProperties

(* G is F with one more node, a kid of t if that is not 0. *)
GrownTree(F, G, t, type, text) ==
    /\ Len(G) = Len(F) + 1
    /\ G[Len(F) + 1].type = type /\ G[Len(F) + 1].text = text
    /\ Len(G[Len(F) + 1].kids) = 0
    /\ \A i \in 1..Len(F) :
          /\ G[i].type = F[i].type /\ G[i].text = F[i].text
          /\ i # t => G[i].kids = F[i].kids
          /\ i = t => /\ Len(G[i].kids) = Len(F[i].kids) + 1
                      /\ \A k \in 1..Len(F[i].kids) :
                            G[i].kids[k] = F[i].kids[k]
                      /\ G[i].kids[Len(F[i].kids) + 1] = Len(F) + 1

LEMMA TopIs ==
    ASSUME NEW W, NEW r \in ReadersOver(W)
    PROVE  /\ r.stack = <<>> => Top(r) = 0 /\ Len(r.stack) = 0
           /\ r.stack # <<>> => /\ Len(r.stack) \in Nat /\ Len(r.stack) > 0
                                /\ Top(r) = r.stack[Len(r.stack)]
                                /\ Top(r) \in 1..Len(r.tree)
           /\ Len(r.tree) \in Nat /\ Top(r) \in 0..Len(r.tree)
<1>1. /\ r.stack \in Seq(Nat) /\ Len(r.stack) \in Nat /\ Len(r.tree) \in Nat
      /\ \A d \in 1..Len(r.stack) : r.stack[d] \in 1..Len(r.tree)
  BY LenProperties DEF ReadersOver
<1>2. CASE r.stack = <<>>
  BY <1>1, <1>2 DEF Top
<1>3. CASE r.stack # <<>>
  <2>1. Len(r.stack) > 0
    BY <1>1, <1>3, EmptySeq
  <2>2. Top(r) = r.stack[Len(r.stack)] /\ Len(r.stack) \in 1..Len(r.stack)
    BY <1>1, <1>3, <2>1 DEF Top
  <2>. QED BY <1>1, <1>3, <2>1, <2>2
<1>. QED BY <1>2, <1>3

LEMMA WithNodeIs ==
    ASSUME NEW W, NEW r \in ReadersOver(W), NEW type \in Types, NEW text \in W
    PROVE  /\ WithNode(r, type, text) \in Seq(NodesOver(W))
           /\ GrownTree(r.tree, WithNode(r, type, text), Top(r), type, text)
<1>. DEFINE F == r.tree
            t == Top(r)
            n == Len(F)
            node == TreeNode(type, text)
            H == IF t = 0 THEN F
                 ELSE [F EXCEPT ![t].kids = Append(@, Len(F) + 1)]
<1>1. F \in Seq(NodesOver(W)) /\ n \in Nat /\ t \in 0..n
  BY TopIs DEF ReadersOver
<1>2. /\ node \in NodesOver(W) /\ node.type = type /\ node.text = text
      /\ Len(node.kids) = 0
  <2>1. PICK e \in Seq(Nat) : e = <<>> /\ Len(e) = 0
    BY EmptySeq
  <2>2. node = [type |-> type, text |-> text, kids |-> e]
    BY <2>1 DEF TreeNode
  <2>. HIDE DEF node
  <2>. QED BY <2>1, <2>2 DEF NodesOver
<1>3. /\ H \in Seq(NodesOver(W)) /\ Len(H) = n
      /\ \A i \in 1..n :
            /\ H[i].type = F[i].type /\ H[i].text = F[i].text
            /\ i # t => H[i].kids = F[i].kids
            /\ i = t => /\ Len(H[i].kids) = Len(F[i].kids) + 1
                        /\ \A k \in 1..Len(F[i].kids) :
                              H[i].kids[k] = F[i].kids[k]
                        /\ H[i].kids[Len(F[i].kids) + 1] = n + 1
  <2>1. CASE t = 0
    <3>1. H = F
      BY <2>1
    <3>. HIDE DEF H, F, t
    <3>. QED BY <1>1, <2>1, <3>1
  <2>2. CASE t # 0
    <3>. DEFINE K == Append(F[t].kids, n + 1)
                x == [F[t] EXCEPT !.kids = K]
    <3>1. t \in 1..n /\ n + 1 \in Nat
      BY <1>1, <2>2
    <3>2. F[t] \in NodesOver(W) /\ F[t].kids \in Seq(Nat)
      BY <1>1, <3>1, NodeIs
    <3>3. /\ K \in Seq(Nat) /\ Len(K) = Len(F[t].kids) + 1
          /\ \A k \in 1..Len(F[t].kids) : K[k] = F[t].kids[k]
          /\ K[Len(F[t].kids) + 1] = n + 1
      <4>. HIDE DEF F, n, t
      <4>. QED BY <3>1, <3>2, Appends
    <3>4. H = [F EXCEPT ![t] = x]
      BY <2>2
    <3>. HIDE DEF K
    <3>5. /\ x \in NodesOver(W) /\ x.type = F[t].type /\ x.text = F[t].text
          /\ x.kids = K
      <4>. HIDE DEF F, t
      <4>. QED BY <3>2, <3>3 DEF NodesOver
    <3>. HIDE DEF x, H, F, t, n
    <3>6. /\ H \in Seq(NodesOver(W)) /\ Len(H) = Len(F)
          /\ \A i \in 1..Len(F) : H[i] = IF i = t THEN x ELSE F[i]
      BY <1>1, <3>1, <3>4, <3>5, Updates DEF n
    <3>. QED BY <3>3, <3>5, <3>6 DEF n
  <2>. QED BY <2>1, <2>2
<1>4. WithNode(r, type, text) = Append(H, node)
  BY DEF WithNode
<1>. HIDE DEF H, node, F, t, n
<1>5. /\ Append(H, node) \in Seq(NodesOver(W))
      /\ Len(Append(H, node)) = n + 1
      /\ \A i \in 1..n : Append(H, node)[i] = H[i]
      /\ Append(H, node)[n + 1] = node
  BY <1>1, <1>2, <1>3, Appends
<1>6. GrownTree(F, Append(H, node), t, type, text)
  BY <1>2, <1>3, <1>5 DEF GrownTree, n
<1>. QED BY <1>4, <1>5, <1>6 DEF F, t

-----------------------------------------------------------------------------
(* The tokens T are those of the tree F, of which the nodes B are open.     *)

(* Where jp_skip() is taken to from a kid: behind its value, if it is a key. *)
Past(F, T, m) == IF F[m].type = "string" /\ Len(F[m].kids) # 0
                 THEN JpSkip(T, m + 1) ELSE JpSkip(T, m)

KidIs(F, T, B, m, k) ==
    LET q == F[m].kids[k]
    IN  /\ q \in 1..Len(T)
        /\ k = 1 => q = m + 1
        /\ m \notin B => q \notin B
        /\ F[m].type = "object" =>
              F[q].type = "string" /\ (q \notin B => Len(F[q].kids) # 0)
        /\ k < Len(F[m].kids) =>
              q \notin B /\ F[m].kids[k + 1] = Past(F, T, q)

TokenOf(F, T, B, m) ==
    /\ F[m].type = T[m].type /\ F[m].text = T[m].text
    /\ T[m].size = Len(F[m].kids)
    /\ (T[m].end = -1) <=> (Container(F[m].type) /\ m \in B)
    /\ F[m].type = "string" => Len(F[m].kids) <= 1

TreeInv(F, T, B) ==
    /\ Len(F) = Len(T)
    /\ \A m \in 1..Len(T) : TokenOf(F, T, B, m)
    /\ \A m \in 1..Len(T) : \A k \in 1..Len(F[m].kids) : KidIs(F, T, B, m, k)

(* The node m has room for a kid: it has none and nothing follows it, or    *)
(* the last one is over and jp_skip() is taken to the end.                  *)
Fresh(F, T, m) == Len(F[m].kids) = 0 /\ m = Len(T)

LastOver(F, T, B, m) ==
    LET q == F[m].kids[Len(F[m].kids)]
    IN Len(F[m].kids) # 0 /\ q \notin B /\ Past(F, T, q) = Len(T) + 1

(* T and F become U and G with one more token and node, a kid of t.        *)
Adds(W, T, U, F, G, B, t, tok, at) ==
    /\ T \in Seq(TokensOver(W)) /\ U \in Seq(TokensOver(W))
    /\ F \in Seq(NodesOver(W)) /\ G \in Seq(NodesOver(W))
    /\ t \in B \cup {0} /\ at \in Nat
    /\ SpansTo(T, at) /\ Grown(T, U, t, tok)
    /\ tok.start \in Nat /\ at <= tok.start
    /\ GrownTree(F, G, t, tok.type, tok.text) /\ TreeInv(F, T, B)

LEMMA PastGrown ==
    ASSUME NEW W, NEW T, NEW U, NEW F, NEW G, NEW B, NEW t, NEW tok, NEW at,
           Adds(W, T, U, F, G, B, t, tok, at),
           NEW m \in 1..Len(T), m \notin B
    PROVE  Past(G, U, m) = Past(F, T, m)
<1>. /\ T \in Seq(TokensOver(W)) /\ U \in Seq(TokensOver(W))
     /\ F \in Seq(NodesOver(W)) /\ G \in Seq(NodesOver(W))
     /\ t \in B \cup {0} /\ at \in Nat
     /\ SpansTo(T, at) /\ Grown(T, U, t, tok)
     /\ tok.start \in Nat /\ at <= tok.start
     /\ GrownTree(F, G, t, tok.type, tok.text) /\ TreeInv(F, T, B)
  BY DEF Adds
<1>0. m # t
  <2>1. Len(T) \in Nat /\ m # 0
    BY LenProperties
  <2>. QED BY <2>1
<1>1. G[m].type = F[m].type /\ G[m].kids = F[m].kids
  BY <1>0 DEF GrownTree, TreeInv
<1>2. CASE F[m].type = "string" /\ Len(F[m].kids) # 0
  <2>1. Len(F[m].kids) \in Nat
    BY NodeIs DEF TreeInv
  <2>2. 1 \in 1..Len(F[m].kids)
    BY <1>2, <2>1
  <2>3. KidIs(F, T, B, m, 1)
    BY <2>2 DEF TreeInv
  <2>4. m + 1 \in 1..Len(T) /\ m + 1 \notin B
    BY <2>3 DEF KidIs
  <2>5. T[m + 1].end # -1
    BY <2>4 DEF TreeInv, TokenOf
  <2>6. JpSkip(U, m + 1) = JpSkip(T, m + 1)
    BY <2>4, <2>5, SkipGrown
  <2>. QED BY <1>1, <1>2, <2>6 DEF Past
<1>3. CASE ~(F[m].type = "string" /\ Len(F[m].kids) # 0)
  <2>1. T[m].end # -1
    BY DEF TreeInv, TokenOf
  <2>2. JpSkip(U, m) = JpSkip(T, m)
    BY <2>1, SkipGrown
  <2>. QED BY <1>1, <1>3, <2>2 DEF Past
<1>. QED BY <1>2, <1>3

LEMMA PastEnded ==
    ASSUME NEW W, NEW T \in Seq(TokensOver(W)), NEW U \in Seq(TokensOver(W)),
           NEW F \in Seq(NodesOver(W)), NEW B, NEW e, NEW i, e \in B,
           Ended(T, U, e, i), TreeInv(F, T, B),
           NEW m \in 1..Len(T), m \notin B
    PROVE  Past(F, U, m) = Past(F, T, m)
<1>1. CASE F[m].type = "string" /\ Len(F[m].kids) # 0
  <2>1. Len(F[m].kids) \in Nat
    BY NodeIs DEF TreeInv
  <2>2. 1 \in 1..Len(F[m].kids)
    BY <1>1, <2>1
  <2>3. KidIs(F, T, B, m, 1)
    BY <2>2 DEF TreeInv
  <2>4. m + 1 \in 1..Len(T) /\ m + 1 # e
    BY <2>3 DEF KidIs
  <2>5. JpSkip(U, m + 1) = JpSkip(T, m + 1)
    BY <2>4, SkipEnded
  <2>. QED BY <1>1, <2>5 DEF Past
<1>2. CASE ~(F[m].type = "string" /\ Len(F[m].kids) # 0)
  <2>1. JpSkip(U, m) = JpSkip(T, m)
    BY SkipEnded
  <2>. QED BY <1>2, <2>1 DEF Past
<1>. QED BY <1>1, <1>2

(* A node may come as the next kid of t.  It is open, in C, if it is a       *)
(* container or a key; a key t is over with its value.                      *)
Joins(F, T, B, C, t, tok) ==
    /\ B \in SUBSET (1..Len(T)) /\ C \in SUBSET (1..(Len(T) + 1))
    /\ tok.size = 0
    /\ t = 0 => Len(T) = 0
    /\ t # 0 => Fresh(F, T, t) \/ LastOver(F, T, B, t)
    /\ t # 0 /\ F[t].type = "string" => Fresh(F, T, t)
    /\ t # 0 /\ F[t].type = "object" =>
          tok.type = "string" /\ Len(T) + 1 \in C
    /\ (tok.end = -1) <=> (Container(tok.type) /\ Len(T) + 1 \in C)
    /\ \A m \in 1..Len(T) :
          m \in C <=> m \in B /\ (m = t => F[t].type # "string"
                                           \/ Len(T) + 1 \in C)

LEMMA AddKid ==
    ASSUME NEW W, NEW T, NEW U, NEW F, NEW G, NEW B, NEW C, NEW t, NEW tok,
           NEW at, Adds(W, T, U, F, G, B, t, tok, at),
           Joins(F, T, B, C, t, tok)
    PROVE  TreeInv(G, U, C)
<1>. /\ T \in Seq(TokensOver(W)) /\ U \in Seq(TokensOver(W))
     /\ F \in Seq(NodesOver(W)) /\ G \in Seq(NodesOver(W))
     /\ t \in B \cup {0} /\ at \in Nat
     /\ SpansTo(T, at) /\ Grown(T, U, t, tok)
     /\ tok.start \in Nat /\ at <= tok.start
     /\ GrownTree(F, G, t, tok.type, tok.text) /\ TreeInv(F, T, B)
  BY DEF Adds
<1>. /\ B \in SUBSET (1..Len(T)) /\ C \in SUBSET (1..(Len(T) + 1))
     /\ tok.size = 0
     /\ t = 0 => Len(T) = 0
     /\ t # 0 => Fresh(F, T, t) \/ LastOver(F, T, B, t)
     /\ t # 0 /\ F[t].type = "string" => Fresh(F, T, t)
     /\ t # 0 /\ F[t].type = "object" =>
           tok.type = "string" /\ Len(T) + 1 \in C
     /\ (tok.end = -1) <=> (Container(tok.type) /\ Len(T) + 1 \in C)
     /\ \A m \in 1..Len(T) :
           m \in C <=> m \in B /\ (m = t => F[t].type # "string"
                                            \/ Len(T) + 1 \in C)
  BY DEF Joins
<1>. DEFINE n == Len(T)
<1>1. /\ n \in Nat /\ Len(U) = n + 1 /\ U[n + 1] = tok
      /\ Len(F) = n /\ Len(G) = n + 1
      /\ \A m \in 1..(n + 1) : m \in 1..n \/ m = n + 1
      /\ n + 1 \notin B /\ n + 1 # t
  BY LenProperties DEF Grown, GrownTree, TreeInv
<1>. HIDE DEF n
<1>2. \A m \in 1..n : m \notin B => Past(G, U, m) = Past(F, T, m)
  <2>. SUFFICES ASSUME NEW m \in 1..Len(T), m \notin B
                PROVE  Past(G, U, m) = Past(F, T, m)
    BY DEF n
  <2>. QED BY PastGrown
<1>3. \A m \in 1..n : TokenOf(G, U, C, m)
  <2>. TAKE m \in 1..n
  <2>1. TokenOf(F, T, B, m)
    BY DEF TreeInv, n
  <2>2. /\ U[m].type = T[m].type /\ U[m].text = T[m].text
        /\ U[m].end = T[m].end
        /\ U[m].size = IF m = t THEN T[m].size + 1 ELSE T[m].size
        /\ G[m].type = F[m].type /\ G[m].text = F[m].text
        /\ Len(G[m].kids) = IF m = t THEN Len(F[m].kids) + 1
                            ELSE Len(F[m].kids)
    BY <1>1 DEF Grown, GrownTree, n
  <2>3. Container(F[m].type) => (m \in C <=> m \in B)
    BY DEF Container, n
  <2>4. m = t /\ F[m].type = "string" => Len(F[m].kids) = 0
    BY <1>1 DEF Fresh, n
  <2>. QED BY <2>1, <2>2, <2>3, <2>4 DEF TokenOf
<1>4. TokenOf(G, U, C, n + 1)
  BY <1>1 DEF TokenOf, GrownTree, n
<1>5. ASSUME NEW m \in 1..n, m # t, NEW k \in 1..Len(G[m].kids)
      PROVE  KidIs(G, U, C, m, k)
  <2>1. G[m].kids = F[m].kids /\ G[m].type = F[m].type
    BY <1>1, <1>5 DEF GrownTree
  <2>2. KidIs(F, T, B, m, k)
    BY <2>1 DEF TreeInv, n
  <2>. DEFINE q == F[m].kids[k]
  <2>3. q \in 1..n
    BY <2>2 DEF KidIs, n
  <2>4. /\ q \notin B => q \notin C
        /\ m \notin C => m \notin B
    BY <1>5, <2>3 DEF n
  <2>5. F[m].type = "object" => G[q].type = "string"
    BY <1>1, <2>2, <2>3 DEF KidIs, GrownTree
  <2>6. F[m].type = "object" /\ q \notin C => Len(G[q].kids) # 0
    <3>. SUFFICES ASSUME F[m].type = "object", q \notin C
                  PROVE  Len(G[q].kids) # 0
      OBVIOUS
    <3>1. CASE q = t
      <4>1. PICK a \in Nat : a = Len(F[q].kids)
        BY <1>1, <2>3, NodeIs
      <4>2. Len(G[q].kids) = a + 1
        BY <1>1, <2>3, <3>1, <4>1 DEF GrownTree
      <4>3. a + 1 # 0
        OBVIOUS
      <4>. QED BY <4>2, <4>3
    <3>2. CASE q # t
      <4>1. q \notin B
        BY <2>3, <3>2 DEF n
      <4>2. G[q].kids = F[q].kids
        BY <1>1, <2>3, <3>2 DEF GrownTree
      <4>. QED BY <2>2, <4>1, <4>2 DEF KidIs
    <3>. QED BY <3>1, <3>2
  <2>7. k < Len(F[m].kids) =>
           q \notin C /\ F[m].kids[k + 1] = Past(G, U, q)
    BY <1>2, <2>2, <2>3, <2>4 DEF KidIs
  <2>8. q \in 1..Len(U) /\ (k = 1 => q = m + 1) /\ (m \notin C => q \notin C)
    BY <1>1, <2>2, <2>3, <2>4 DEF KidIs
  <2>. QED BY <2>1, <2>5, <2>6, <2>7, <2>8 DEF KidIs
<1>6. ASSUME t # 0, NEW k \in 1..Len(G[t].kids)
      PROVE  KidIs(G, U, C, t, k)
  <2>. DEFINE l == Len(F[t].kids)
  <2>1. /\ t \in 1..n /\ l \in Nat /\ Len(G[t].kids) = l + 1
        /\ \A i \in 1..l : G[t].kids[i] = F[t].kids[i]
        /\ G[t].kids[l + 1] = n + 1 /\ G[t].type = F[t].type
    BY <1>1, <1>6, NodeIs DEF GrownTree, n
  <2>2. CASE k = l + 1
    <3>1. k = 1 => n + 1 = t + 1
      BY <1>1, <1>6, <2>1, <2>2 DEF Fresh, LastOver, n
    <3>2. F[t].type = "object" => /\ G[n + 1].type = "string"
                                  /\ n + 1 \in C
      BY <1>1, <1>6 DEF GrownTree, n
    <3>3. t \notin C => n + 1 \notin C
      BY <1>1, <1>6, <2>1 DEF n
    <3>4. n + 1 \in 1..Len(U) /\ ~(k < Len(G[t].kids))
      BY <1>1, <2>1, <2>2
    <3>. QED BY <2>1, <2>2, <3>1, <3>2, <3>3, <3>4 DEF KidIs
  <2>3. CASE k \in 1..l
    <3>. DEFINE q == F[t].kids[k]
    <3>1. l # 0 /\ G[t].kids[k] = q /\ LastOver(F, T, B, t)
      BY <1>1, <1>6, <2>1, <2>3 DEF Fresh
    <3>2. KidIs(F, T, B, t, k)
      BY <2>1, <2>3 DEF TreeInv, n
    <3>3. F[t].type # "string"
      BY <1>6, <3>1 DEF Fresh
    <3>4. q \in 1..n /\ t \in C
      BY <1>6, <2>1, <3>2, <3>3 DEF KidIs, n
    <3>5. q \notin B /\ G[t].kids[k + 1] = Past(F, T, q)
      <4>1. CASE k = l
        BY <1>1, <2>1, <3>1, <4>1 DEF LastOver, n
      <4>2. CASE k # l
        <5>1. l \in Nat /\ k \in Int /\ 1 <= k /\ k <= l /\ k # l
          BY <2>1, <2>3, <4>2
        <5>2. k < l /\ k + 1 \in 1..l
          BY <5>1
        <5>. QED BY <2>1, <3>2, <5>2 DEF KidIs
      <4>. QED BY <4>1, <4>2
    <3>6. q \notin C /\ Past(G, U, q) = Past(F, T, q)
      BY <1>2, <3>4, <3>5 DEF n
    <3>7. G[q].type = F[q].type /\ G[q].kids = F[q].kids
      BY <1>1, <1>6, <3>4, <3>5 DEF GrownTree
    <3>8. /\ k = 1 => q = t + 1
          /\ F[t].type = "object" => /\ F[q].type = "string"
                                     /\ Len(F[q].kids) # 0
      BY <3>2, <3>5 DEF KidIs
    <3>9. q \in 1..Len(U)
      BY <1>1, <3>4
    <3>. HIDE DEF q
    <3>. QED
      BY <2>1, <3>1, <3>4, <3>5, <3>6, <3>7, <3>8, <3>9 DEF KidIs
  <2>4. k \in 1..l \/ k = l + 1
    BY <2>1
  <2>. QED BY <2>2, <2>3, <2>4
<1>7. ASSUME NEW k \in 1..Len(G[n + 1].kids) PROVE KidIs(G, U, C, n + 1, k)
  BY <1>1 DEF GrownTree
<1>8. ASSUME NEW m \in 1..(n + 1), NEW k \in 1..Len(G[m].kids)
      PROVE  KidIs(G, U, C, m, k)
  <2>1. m \in 1..n \/ m = n + 1
    BY <1>1
  <2>2. CASE m = n + 1
    BY <1>7, <2>2, Zenon
  <2>3. CASE m \in 1..n /\ m = t
    <3>1. t # 0 /\ k \in 1..Len(G[t].kids)
      BY <2>3
    <3>2. KidIs(G, U, C, t, k)
      BY <1>6, <3>1, Zenon
    <3>. QED BY <2>3, <3>2
  <2>4. CASE m \in 1..n /\ m # t
    BY <1>5, <2>4, Zenon
  <2>. QED BY <2>1, <2>2, <2>3, <2>4
<1>. QED BY <1>1, <1>3, <1>4, <1>8 DEF TreeInv

(* A container is ended, and the key it is the value of is over with it.    *)
LEMMA EndKid ==
    ASSUME NEW W, NEW T \in Seq(TokensOver(W)), NEW U \in Seq(TokensOver(W)),
           NEW F \in Seq(NodesOver(W)), NEW B \in SUBSET (1..Len(T)),
           NEW t \in B, NEW at \in Nat, SpansTo(T, at),
           Ended(T, U, t, at + 1), TreeInv(F, T, B), Container(F[t].type),
           Fresh(F, T, t) \/ LastOver(F, T, B, t),
           NEW o \in 1..Len(T),
           o = t \/ /\ F[o].type = "string" /\ Len(F[o].kids) # 0
                    /\ F[o].kids[Len(F[o].kids)] = t
    PROVE  /\ TreeInv(F, U, B \ {t, o})
           /\ Past(F, U, o) = Len(U) + 1
<1>. DEFINE n == Len(T)
            C == B \ {t, o}
<1>1. /\ n \in Nat /\ Len(U) = n /\ Len(F) = n /\ t \in 1..n
      /\ F[t].type # "string"
  BY LenProperties DEF Ended, TreeInv, Container
<1>2. o # t => /\ Len(F[o].kids) = 1 /\ F[o].kids[1] = t /\ t = o + 1
  <2>. SUFFICES ASSUME o # t
                PROVE  Len(F[o].kids) = 1 /\ F[o].kids[1] = t /\ t = o + 1
    OBVIOUS
  <2>0. /\ F[o].type = "string" /\ Len(F[o].kids) # 0
        /\ F[o].kids[Len(F[o].kids)] = t
    OBVIOUS
  <2>1. Len(F[o].kids) \in Nat /\ Len(F[o].kids) <= 1
    BY <1>1, <2>0, NodeIs DEF TreeInv, TokenOf
  <2>2. Len(F[o].kids) = 1
    <3>. DEFINE l == Len(F[o].kids)
    <3>1. l \in Nat /\ l <= 1 /\ l # 0
      BY <2>0, <2>1
    <3>. HIDE DEF l
    <3>2. l = 1
      BY <3>1
    <3>. QED BY <3>2 DEF l
  <2>3. KidIs(F, T, B, o, 1)
    BY <2>2 DEF TreeInv
  <2>. QED BY <2>0, <2>2, <2>3 DEF KidIs
<1>3. \A m \in 1..n : m \notin B => Past(F, U, m) = Past(F, T, m)
  <2>. SUFFICES ASSUME NEW m \in 1..Len(T), m \notin B
                PROVE  Past(F, U, m) = Past(F, T, m)
    OBVIOUS
  <2>. HIDE DEF C
  <2>. QED BY PastEnded
<1>4. JpSkip(U, t) = Len(U) + 1
  <2>1. ASSUME NEW k \in (t + 1)..Len(U) PROVE U[k].start < U[t].end
    <3>1. k \in 1..n
      BY <1>1
    <3>2. U[k].start = T[k].start /\ U[t].end = at + 1
      BY <1>1, <3>1 DEF Ended
    <3>3. T[k].start \in Nat /\ T[k].start <= at
      BY <3>1, TokenIs DEF SpansTo
    <3>. QED BY <3>2, <3>3
  <2>2. t \in 1..Len(U)
    BY <1>1
  <2>. HIDE DEF C, n
  <2>. QED BY <2>1, <2>2, SkipToTheEnd
<1>5. Past(F, U, o) = Len(U) + 1
  BY <1>1, <1>2, <1>4 DEF Past
<1>6. \A m \in 1..n : TokenOf(F, U, C, m)
  <2>. TAKE m \in 1..n
  <2>1. TokenOf(F, T, B, m)
    BY DEF TreeInv
  <2>2. /\ U[m].type = T[m].type /\ U[m].text = T[m].text
        /\ U[m].size = T[m].size
        /\ U[m].end = IF m = t THEN at + 1 ELSE T[m].end
    BY <1>1 DEF Ended
  <2>3. at + 1 # -1
    OBVIOUS
  <2>4. Container(F[m].type) /\ m # t => (m \in C <=> m \in B)
    BY DEF Container
  <2>. QED BY <2>1, <2>2, <2>3, <2>4 DEF TokenOf
<1>7. ASSUME NEW m \in 1..n, NEW k \in 1..Len(F[m].kids)
      PROVE  KidIs(F, U, C, m, k)
  <2>1. KidIs(F, T, B, m, k)
    BY DEF TreeInv
  <2>. DEFINE q == F[m].kids[k]
  <2>2. q \in 1..n
    BY <2>1 DEF KidIs
  <2>3. m \notin C => q \notin C
    <3>1. CASE m \notin B
      BY <2>1, <3>1 DEF KidIs
    <3>2. CASE m = t
      <4>1. Len(F[t].kids) \in Nat /\ k \in Nat /\ k <= Len(F[t].kids)
        BY <1>1, <3>2, NodeIs
      <4>2. CASE k < Len(F[t].kids)
        BY <2>1, <3>2, <4>2 DEF KidIs
      <4>3. CASE k = Len(F[t].kids)
        <5>1. LastOver(F, T, B, t)
          BY <3>2, <4>1, <4>3 DEF Fresh
        <5>. QED BY <3>2, <4>3, <5>1 DEF LastOver
      <4>. QED BY <4>1, <4>2, <4>3
    <3>3. CASE m = o /\ o # t
      BY <1>2, <3>3
    <3>. QED BY <3>1, <3>2, <3>3
  <2>4. F[m].type = "object" /\ q \notin C => Len(F[q].kids) # 0
    <3>1. F[m].type = "object" =>
             F[q].type = "string" /\ (q \notin B => Len(F[q].kids) # 0)
      BY <2>1 DEF KidIs
    <3>2. F[m].type = "object" => q # t
      BY <1>1, <3>1
    <3>3. q = o /\ o # t => Len(F[q].kids) # 0
      BY <1>2
    <3>. HIDE DEF q
    <3>. QED BY <3>1, <3>2, <3>3
  <2>5. k < Len(F[m].kids) =>
           q \notin C /\ F[m].kids[k + 1] = Past(F, U, q)
    BY <1>3, <2>1, <2>2 DEF KidIs
  <2>6. /\ q \in 1..Len(U) /\ (k = 1 => q = m + 1)
        /\ F[m].type = "object" => F[q].type = "string"
    BY <1>1, <2>1, <2>2 DEF KidIs
  <2>. HIDE DEF C
  <2>. QED BY <2>3, <2>4, <2>5, <2>6 DEF KidIs
<1>. QED BY <1>1, <1>5, <1>6, <1>7 DEF TreeInv

-----------------------------------------------------------------------------
(* The reader's stack: from the outermost node inwards, each the last kid   *)
(* of the one before; a key is in an object.                                *)
OpenNodes(S) == {S[d] : d \in 1..Len(S)}

StackInv(F, S) ==
    /\ \A d \in 1..Len(S) :
          /\ S[d] \in 1..Len(F) /\ F[S[d]].type # "primitive"
          /\ F[S[d]].type = "string" => d > 1 /\ F[S[d - 1]].type = "object"
          /\ d < Len(S) => /\ Len(F[S[d]].kids) # 0
                           /\ F[S[d]].kids[Len(F[S[d]].kids)] = S[d + 1]
    /\ \A d, e \in 1..Len(S) : d < e => S[d] < S[e]

LEMMA StackKept ==
    ASSUME NEW S \in Seq(Nat), NEW F, NEW G, NEW t, NEW type, NEW text,
           Len(F) \in Nat, GrownTree(F, G, t, type, text), StackInv(F, S),
           IF Len(S) = 0 THEN t = 0 ELSE t = S[Len(S)]
    PROVE  StackInv(G, S)
<1>1. Len(S) \in Nat
  BY LenProperties
<1>2. \A d \in 1..Len(S) : /\ S[d] \in 1..Len(F) /\ S[d] \in 1..Len(G)
                           /\ G[S[d]].type = F[S[d]].type
  BY DEF GrownTree, StackInv
<1>3. ASSUME NEW d \in 1..Len(S), d < Len(S)
      PROVE  /\ Len(G[S[d]].kids) # 0
             /\ G[S[d]].kids[Len(G[S[d]].kids)] = S[d + 1]
  <2>1. S[d] # t
    <3>1. Len(S) \in 1..Len(S) /\ t = S[Len(S)]
      BY <1>1, <1>3
    <3>2. S[d] < S[Len(S)] /\ S[d] \in Nat /\ S[Len(S)] \in Nat
      BY <1>2, <1>3, <3>1 DEF StackInv
    <3>. QED BY <3>1, <3>2
  <2>2. G[S[d]].kids = F[S[d]].kids
    BY <1>2, <2>1 DEF GrownTree
  <2>. QED BY <1>3, <2>2 DEF StackInv
<1>4. ASSUME NEW d \in 1..Len(S), G[S[d]].type = "string"
      PROVE  d > 1 /\ G[S[d - 1]].type = "object"
  <2>1. d > 1 /\ F[S[d - 1]].type = "object"
    BY <1>2, <1>4 DEF StackInv
  <2>2. d - 1 \in 1..Len(S)
    BY <1>1, <2>1
  <2>. QED BY <1>2, <2>1, <2>2
<1>. QED BY <1>2, <1>3, <1>4 DEF StackInv

LEMMA StackPushed ==
    ASSUME NEW S \in Seq(Nat), NEW F, NEW G, NEW t, NEW type, NEW text,
           Len(F) \in Nat, GrownTree(F, G, t, type, text), StackInv(F, S),
           IF Len(S) = 0 THEN t = 0 ELSE t = S[Len(S)],
           type # "primitive",
           type = "string" => Len(S) # 0 /\ F[t].type = "object"
    PROVE  LET S2 == Append(S, Len(F) + 1)
           IN  /\ StackInv(G, S2)
               /\ OpenNodes(S2) = OpenNodes(S) \cup {Len(F) + 1}
               /\ S2 \in Seq(Nat) /\ Len(S2) = Len(S) + 1
               /\ S2[Len(S2)] = Len(F) + 1
<1>1. Len(S) \in Nat /\ Len(F) + 1 \in Nat
  BY LenProperties
<1>2. PICK R \in Seq(Nat) : /\ R = Append(S, Len(F) + 1)
                            /\ Len(R) = Len(S) + 1
                            /\ \A d \in 1..Len(S) : R[d] = S[d]
                            /\ R[Len(S) + 1] = Len(F) + 1
  <2>. DEFINE x == Len(F) + 1
  <2>1. x \in Nat
    BY <1>1
  <2>. HIDE DEF x
  <2>2. /\ Append(S, x) \in Seq(Nat) /\ Len(Append(S, x)) = Len(S) + 1
        /\ \A d \in 1..Len(S) : Append(S, x)[d] = S[d]
        /\ Append(S, x)[Len(S) + 1] = x
    BY <2>1, Appends
  <2>. QED BY <2>2 DEF x
<1>3. StackInv(G, S)
  BY StackKept
<1>4. \A d \in 1..Len(R) : d \in 1..Len(S) \/ d = Len(S) + 1
  BY <1>1, <1>2
<1>5. G[Len(F) + 1].type = type /\ Len(G) = Len(F) + 1
  BY DEF GrownTree
<1>6. ASSUME NEW d \in 1..Len(R), d < Len(R)
      PROVE  /\ Len(G[R[d]].kids) # 0
             /\ G[R[d]].kids[Len(G[R[d]].kids)] = R[d + 1]
  <2>1. d \in 1..Len(S) /\ R[d] = S[d]
    BY <1>1, <1>2, <1>6
  <2>2. CASE d < Len(S)
    <3>1. d + 1 \in 1..Len(S) /\ R[d + 1] = S[d + 1]
      BY <1>1, <1>2, <2>1, <2>2
    <3>. QED BY <1>3, <2>1, <2>2, <3>1 DEF StackInv
  <2>3. CASE d = Len(S)
    <3>1. S[d] = t /\ t \in 1..Len(F) /\ R[d + 1] = Len(F) + 1
      BY <1>1, <1>2, <2>1, <2>3 DEF StackInv
    <3>2. /\ Len(G[t].kids) = Len(F[t].kids) + 1
          /\ G[t].kids[Len(F[t].kids) + 1] = Len(F) + 1
      BY <3>1 DEF GrownTree
    <3>3. Len(G[t].kids) # 0
      <4>1. \A d2 \in 1..Len(S) : S[d2] \in 1..Len(F)
        BY DEF StackInv
      <4>. QED BY <3>2
    <3>. QED BY <2>1, <3>1, <3>2, <3>3
  <2>. QED BY <1>1, <2>1, <2>2, <2>3
<1>7. ASSUME NEW d \in 1..Len(R)
      PROVE  /\ R[d] \in 1..Len(G) /\ G[R[d]].type # "primitive"
             /\ G[R[d]].type = "string" =>
                   d > 1 /\ G[R[d - 1]].type = "object"
  <2>1. CASE d \in 1..Len(S)
    <3>1. R[d] = S[d] /\ (d > 1 => R[d - 1] = S[d - 1])
      BY <1>1, <1>2, <2>1
    <3>. QED BY <1>3, <2>1, <3>1 DEF StackInv
  <2>2. CASE d = Len(S) + 1
    <3>1. R[d] \in 1..Len(G) /\ G[R[d]].type = type
      BY <1>1, <1>2, <1>5, <2>2
    <3>2. type = "string" => d > 1 /\ G[R[d - 1]].type = "object"
      <4>. SUFFICES ASSUME type = "string"
                    PROVE  d > 1 /\ G[R[d - 1]].type = "object"
        OBVIOUS
      <4>1. Len(S) \in 1..Len(S) /\ t = S[Len(S)] /\ d - 1 = Len(S) /\ d > 1
        BY <1>1, <2>2
      <4>2. t \in 1..Len(F) /\ R[d - 1] = t
        BY <1>2, <4>1 DEF StackInv
      <4>3. G[t].type = F[t].type
        BY <4>2 DEF GrownTree
      <4>. QED BY <4>1, <4>2, <4>3
    <3>. QED BY <3>1, <3>2
  <2>. QED BY <1>4, <2>1, <2>2
<1>8. ASSUME NEW d \in 1..Len(R), NEW e \in 1..Len(R), d < e
      PROVE  R[d] < R[e]
  <2>1. d \in 1..Len(S) /\ R[d] = S[d] /\ S[d] \in 1..Len(F)
    BY <1>1, <1>2, <1>8 DEF StackInv
  <2>2. CASE e \in 1..Len(S)
    BY <1>2, <1>8, <2>1, <2>2 DEF StackInv
  <2>3. CASE e = Len(S) + 1
    BY <1>2, <2>1, <2>3
  <2>. QED BY <1>4, <2>2, <2>3
<1>9. StackInv(G, R)
  BY <1>6, <1>7, <1>8 DEF StackInv
<1>10. OpenNodes(R) = OpenNodes(S) \cup {Len(F) + 1}
  <2>1. \A d \in 1..Len(S) : d \in 1..Len(R)
    BY <1>1, <1>2
  <2>2. Len(S) + 1 \in 1..Len(R)
    BY <1>1, <1>2
  <2>. QED BY <1>2, <1>4, <2>1, <2>2 DEF OpenNodes
<1>. QED BY <1>2, <1>9, <1>10

LEMMA FrontIs ==
    ASSUME NEW S \in Seq(Nat), Len(S) # 0
    PROVE  /\ Front(S) \in Seq(Nat) /\ Len(Front(S)) = Len(S) - 1
           /\ \A d \in 1..Len(Front(S)) :
                 d \in 1..Len(S) /\ Front(S)[d] = S[d]
<1>0. Len(S) \in Nat /\ Len(S) >= 1
  BY LenProperties
<1>. DEFINE k == Len(S) - 1
<1>1. k \in Int /\ 1 \in Int /\ (\A i \in 1..k : S[i] \in Nat) /\ k >= 0
  <2>1. \A i \in 1..Len(S) : S[i] \in Nat
    BY ElementOfSeq
  <2>. QED BY <1>0, <2>1
<1>2. Front(S) = SubSeq(S, 1, k)
  BY DEF Front
<1>. HIDE DEF k
<1>3. /\ SubSeq(S, 1, k) \in Seq(Nat)
      /\ Len(SubSeq(S, 1, k)) = IF 1 <= k THEN k - 1 + 1 ELSE 0
      /\ \A i \in 1..(k - 1 + 1) : SubSeq(S, 1, k)[i] = S[1 + i - 1]
  BY <1>1, SubSeqProperties
<1>4. PICK R \in Seq(Nat) : R = SubSeq(S, 1, k)
  BY <1>3
<1>5. Len(R) = k /\ \A i \in 1..k : R[i] = S[i]
  BY <1>1, <1>3, <1>4
<1>6. Front(S) = R /\ Len(R) = Len(S) - 1
  BY <1>2, <1>4, <1>5 DEF k
<1>7. \A d \in 1..Len(R) : d \in 1..Len(S) /\ R[d] = S[d]
  <2>1. \A d \in 1..k : d \in 1..Len(S)
    BY <1>0 DEF k
  <2>. QED BY <1>5, <2>1
<1>. QED BY <1>6, <1>7

LEMMA StackPopped ==
    ASSUME NEW S \in Seq(Nat), NEW F, Len(S) # 0, StackInv(F, S)
    PROVE  LET S2 == Front(S)
           IN  /\ S2 \in Seq(Nat) /\ Len(S2) = Len(S) - 1
               /\ \A d \in 1..Len(S2) : S2[d] = S[d]
               /\ StackInv(F, S2)
               /\ OpenNodes(S2) = OpenNodes(S) \ {S[Len(S)]}
<1>1. Len(S) \in Nat /\ Len(S) >= 1
  BY LenProperties
<1>2. PICK R \in Seq(Nat) : /\ R = Front(S) /\ Len(R) = Len(S) - 1
                            /\ \A d \in 1..Len(R) : R[d] = S[d]
  BY FrontIs
<1>3. \A d \in 1..Len(R) : /\ d \in 1..Len(S) /\ d < Len(S) /\ R[d] = S[d]
                           /\ d > 1 => R[d - 1] = S[d - 1]
                           /\ d < Len(R) => R[d + 1] = S[d + 1]
  <2>. TAKE d \in 1..Len(R)
  <2>1. /\ d \in 1..Len(S) /\ d < Len(S)
        /\ d > 1 => d - 1 \in 1..Len(R)
        /\ d < Len(R) => d + 1 \in 1..Len(R)
    <3>. DEFINE l == Len(S)
                k == Len(R)
    <3>1. l \in Nat /\ k = l - 1 /\ d \in 1..k
      BY <1>1, <1>2
    <3>. HIDE DEF l, k
    <3>2. /\ d \in 1..l /\ d < l
          /\ d > 1 => d - 1 \in 1..k
          /\ d < k => d + 1 \in 1..k
      BY <3>1
    <3>. QED BY <3>2 DEF l, k
  <2>. QED BY <1>2, <2>1
<1>4. StackInv(F, R)
  BY <1>3 DEF StackInv
<1>5. \A d \in 1..Len(R) : S[d] < S[Len(S)] /\ S[d] \in Nat /\ S[Len(S)] \in Nat
  BY <1>1, <1>3 DEF StackInv
<1>6. \A d \in 1..Len(S) : d \in 1..Len(R) \/ d = Len(S)
  BY <1>1, <1>2
<1>7. OpenNodes(R) = OpenNodes(S) \ {S[Len(S)]}
  <2>1. ASSUME NEW m \in OpenNodes(R)
        PROVE  m \in OpenNodes(S) \ {S[Len(S)]}
    <3>1. PICK d \in 1..Len(R) : m = R[d]
      BY DEF OpenNodes
    <3>2. m = S[d] /\ d \in 1..Len(S) /\ m # S[Len(S)]
      BY <1>3, <1>5, <3>1
    <3>. QED BY <3>2 DEF OpenNodes
  <2>2. ASSUME NEW m \in OpenNodes(S), m # S[Len(S)]
        PROVE  m \in OpenNodes(R)
    <3>1. PICK d \in 1..Len(S) : m = S[d]
      BY DEF OpenNodes
    <3>2. d \in 1..Len(R) /\ m = R[d]
      BY <1>3, <1>6, <2>2, <3>1
    <3>. QED BY <3>2 DEF OpenNodes
  <2>. QED BY <2>1, <2>2
<1>. QED BY <1>2, <1>4, <1>7

(* A value x is over: if it is a key's, so is the key, and the new top is a *)
(* container whose last kid is what is over.                                *)
LastKid(F, t, x) == Len(F[t].kids) # 0 /\ F[t].kids[Len(F[t].kids)] = x

WhatIsOver(r, x) == IF Within(r, "string") THEN Top(r) ELSE x

LEMMA OverIs ==
    ASSUME NEW W, NEW r \in ReadersOver(W), StackInv(r.tree, r.stack),
           NEW x, x \notin OpenNodes(r.stack),
           Top(r) # 0 => /\ r.tree[Top(r)].type \in {"array", "string"}
                         /\ LastKid(r.tree, Top(r), x)
    PROVE  LET r2 == Over(r)
               o  == WhatIsOver(r, x)
           IN  /\ r2 \in ReadersOver(W) /\ r2.tree = r.tree /\ r2.mode = "rest"
               /\ StackInv(r.tree, r2.stack)
               /\ OpenNodes(r2.stack) = OpenNodes(r.stack) \ {o}
               /\ Top(r2) # 0 =>
                     /\ r.tree[Top(r2)].type \in {"object", "array"}
                     /\ LastKid(r.tree, Top(r2), o)
               /\ ~Within(r, "string") => Top(r2) = Top(r)
               /\ Within(r, "string") => Top(r2) # 0
<1>. DEFINE F == r.tree
            S == r.stack
            t == Top(r)
            r2 == Over(r)
            o == WhatIsOver(r, x)
<1>1. /\ F \in Seq(NodesOver(W)) /\ S \in Seq(Nat) /\ Len(S) \in Nat
      /\ r.mode \in {"first", "next", "colon", "rest", "bad"}
      /\ r = [tree |-> F, stack |-> S, mode |-> r.mode]
  BY LenProperties DEF ReadersOver
<1>2. /\ S = <<>> => t = 0 /\ Len(S) = 0
      /\ S # <<>> => Len(S) > 0 /\ t = S[Len(S)] /\ t \in 1..Len(F)
  BY TopIs
<1>3. CASE Within(r, "string")
  <2>1. t # 0 /\ F[t].type = "string" /\ o = t
    BY <1>3 DEF Within, WhatIsOver
  <2>2. S # <<>> /\ Len(S) > 0 /\ t = S[Len(S)] /\ Len(S) \in 1..Len(S)
    BY <1>1, <1>2, <2>1
  <2>3. Len(S) > 1 /\ F[S[Len(S) - 1]].type = "object"
    BY <2>1, <2>2 DEF StackInv
  <2>4. r2 = [r EXCEPT !.mode = "rest", !.stack = Front(S)]
    BY <1>3 DEF Over
  <2>5. PICK R \in Seq(Nat) : /\ R = Front(S) /\ Len(R) = Len(S) - 1
                              /\ \A d \in 1..Len(R) : R[d] = S[d]
                              /\ StackInv(F, R)
                              /\ OpenNodes(R) = OpenNodes(S) \ {S[Len(S)]}
    BY <1>1, <2>2, StackPopped
  <2>. DEFINE l == Len(S)
  <2>6. l \in Nat /\ l > 1 /\ Len(R) = l - 1 /\ l = Len(S)
    BY <1>1, <2>3, <2>5
  <2>. HIDE DEF l
  <2>7. l - 1 \in 1..Len(R) /\ l - 1 \in 1..Len(S) /\ l - 1 < Len(S)
    BY <2>6
  <2>8. R[Len(R)] = S[l - 1] /\ Len(R) # 0
    <3>1. R[l - 1] = S[l - 1]
      BY <2>5, <2>7
    <3>2. R[Len(R)] = R[l - 1]
      BY <2>6
    <3>3. Len(R) # 0
      <4>1. l - 1 >= 1
        BY <2>6
      <4>2. Len(R) >= 1 /\ Len(R) \in Int
        BY <2>6, <4>1
      <4>. QED BY <4>2
    <3>. QED BY <3>1, <3>2, <3>3
  <2>. HIDE DEF r2, F, S, t, o
  <2>9. r2.tree = F /\ r2.stack = R /\ r2.mode = "rest"
    BY <1>1, <2>4, <2>5
  <2>10. r2 \in ReadersOver(W)
    <3>1. r2 \in [tree : Seq(NodesOver(W)), stack : Seq(Nat),
                  mode : {"first", "next", "colon", "rest", "bad"}]
      <4>1. r \in [tree : Seq(NodesOver(W)), stack : Seq(Nat),
                   mode : {"first", "next", "colon", "rest", "bad"}]
        BY DEF ReadersOver
      <4>2. r2 = [r EXCEPT !.mode = "rest", !.stack = R]
        BY <2>4, <2>5
      <4>. QED BY <4>1, <4>2
    <3>2. \A d \in 1..Len(R) : R[d] \in 1..Len(F)
      BY <2>5 DEF StackInv
    <3>. QED BY <2>9, <3>1, <3>2 DEF ReadersOver
  <2>11. Top(r2) = S[l - 1]
    <3>1. R # <<>>
      BY <2>8, EmptySeq
    <3>. QED BY <2>8, <2>9, <3>1 DEF Top
  <2>12. F[S[l - 1]].type = "object" /\ LastKid(F, S[l - 1], t)
    <3>1. (l - 1) + 1 = l
      BY <2>6
    <3>2. StackInv(F, S)
      BY DEF F, S
    <3>. QED BY <2>2, <2>3, <2>6, <2>7, <3>1, <3>2
        DEF StackInv, LastKid
  <2>13. Top(r2) # 0
    <3>1. StackInv(F, S)
      BY DEF F, S
    <3>2. S[l - 1] \in 1..Len(F)
      BY <2>7, <3>1 DEF StackInv
    <3>. QED BY <2>11, <3>2
  <2>. QED BY <1>3, <2>1, <2>2, <2>5, <2>9, <2>10, <2>11, <2>12, <2>13
         DEF F, S, t, r2, o
<1>4. CASE ~Within(r, "string")
  <2>1. o = x /\ (t # 0 => F[t].type = "array")
    BY <1>4 DEF Within, WhatIsOver
  <2>2. r2 = [r EXCEPT !.mode = "rest"]
    <3>1. r2 = [r EXCEPT !.mode = "rest", !.stack = S]
      BY <1>4 DEF Over
    <3>. HIDE DEF r2
    <3>. QED BY <1>1, <3>1
  <2>3. OpenNodes(S) \ {x} = OpenNodes(S)
    OBVIOUS
  <2>. HIDE DEF r2
  <2>4. r2 \in ReadersOver(W) /\ r2.tree = F /\ r2.stack = S /\ r2.mode = "rest"
    BY <1>1, <2>2 DEF ReadersOver
  <2>5. Top(r2) = t
    BY <2>4 DEF Top
  <2>. HIDE DEF F, t, S, o
  <2>6. Top(r2) # 0 => F[t].type = "array"
    BY <2>1, <2>5
  <2>. QED BY <1>4, <2>1, <2>3, <2>4, <2>5, <2>6 DEF r2, F, S, t, o
<1>. QED BY <1>3, <1>4

LEMMA TopIsNewest ==
    ASSUME NEW W, NEW F \in Seq(NodesOver(W)), NEW T \in Seq(TokensOver(W)),
           NEW S \in Seq(Nat), StackInv(F, S), TreeInv(F, T, OpenNodes(S))
    PROVE  /\ Len(S) = 0 => Newest(Open(T)) = 0
           /\ Len(S) # 0 /\ Container(F[S[Len(S)]].type) =>
                 Open(T) # {} /\ Newest(Open(T)) = S[Len(S)]
<1>1. /\ Len(T) \in Nat /\ Open(T) \in SUBSET (1..Len(T))
      /\ \A i \in 1..Len(T) : i \in Open(T) <=> T[i].end = -1
  BY OpenIs
<1>2. \A i \in Open(T) : i \in OpenNodes(S)
  BY <1>1 DEF TreeInv, TokenOf
<1>3. CASE Len(S) = 0
  <2>1. OpenNodes(S) = {}
    BY <1>3 DEF OpenNodes
  <2>2. Open(T) = {}
    BY <1>2, <2>1
  <2>. QED BY <1>1, <1>3, <2>2, NewestIs
<1>4. CASE Len(S) # 0 /\ Container(F[S[Len(S)]].type)
  <2>. DEFINE t == S[Len(S)]
  <2>1. Len(S) \in 1..Len(S)
    BY <1>4, LenProperties
  <2>2. t \in 1..Len(T) /\ t \in OpenNodes(S)
    BY <2>1 DEF StackInv, TreeInv, OpenNodes
  <2>3. T[t].end = -1
    BY <1>4, <2>2 DEF TreeInv, TokenOf
  <2>4. t \in Open(T)
    BY <1>1, <2>2, <2>3
  <2>5. ASSUME NEW i \in Open(T) PROVE i <= t
    <3>1. PICK d \in 1..Len(S) : i = S[d]
      BY <1>2 DEF OpenNodes
    <3>2. i \in Nat /\ t \in Nat
      BY <1>1, <2>2
    <3>3. d = Len(S) \/ d < Len(S)
      BY <2>1
    <3>4. d < Len(S) => S[d] < S[Len(S)]
      BY <2>1 DEF StackInv
    <3>. QED BY <3>1, <3>2, <3>3, <3>4
  <2>6. Newest(Open(T)) \in Open(T) /\ t <= Newest(Open(T))
    BY <1>1, <2>4, NewestIs
  <2>7. Newest(Open(T)) <= t
    <3>. HIDE DEF t
    <3>. QED BY <2>5, <2>6
  <2>8. Newest(Open(T)) = t
    <3>1. Newest(Open(T)) \in Nat /\ t \in Nat
      BY <1>1, <2>2, <2>6
    <3>. HIDE DEF t
    <3>. QED BY <2>6, <2>7, <3>1
  <2>. QED BY <1>4, <2>4, <2>8
<1>. QED BY <1>3, <1>4

(* The reader and the parser agree: on the tree, and on where the next kid  *)
(* is counted, whenever one may come.                                       *)
Marked(F, T, B, t, mode, s) ==
    /\ t = 0 => s = 0 /\ (mode = "rest" \/ (mode = "next" /\ Len(T) = 0))
    /\ t # 0 =>
          \/ /\ mode = "first" /\ Container(F[t].type)
             /\ Fresh(F, T, t) /\ s = t
          \/ mode = "colon" /\ F[t].type = "string" /\ Fresh(F, T, t)
          \/ mode = "next" /\ F[t].type = "string" /\ Fresh(F, T, t) /\ s = t
          \/ mode = "next" /\ Container(F[t].type) /\ LastOver(F, T, B, t) /\ s = t
          \/ /\ mode = "rest" /\ Container(F[t].type) /\ LastOver(F, T, B, t)
             /\ s = t \/ (s # 0 /\ ~Container(F[s].type))

Alike(r, p) ==
    /\ TreeInv(r.tree, p.toks, OpenNodes(r.stack)) /\ StackInv(r.tree, r.stack)
    /\ Marked(r.tree, p.toks, OpenNodes(r.stack), Top(r), r.mode, p.toksuper)

(* A node may come where the parser counts it. *)
LEMMA RoomIs ==
    ASSUME NEW W, NEW r \in ReadersOver(W), NEW p \in ParsersOver(W),
           Alike(r, p), ValueMayCome(r) \/ KeyMayCome(r)
    PROVE  LET F == r.tree
               T == p.toks
               B == OpenNodes(r.stack)
               t == Top(r)
           IN  /\ F \in Seq(NodesOver(W)) /\ T \in Seq(TokensOver(W))
               /\ Len(T) \in Nat /\ Len(F) = Len(T)
               /\ r.stack \in Seq(Nat) /\ Len(r.stack) \in Nat
               /\ B \in SUBSET (1..Len(T)) /\ t \in B \cup {0}
               /\ IF Len(r.stack) = 0 THEN t = 0 ELSE t = r.stack[Len(r.stack)]
               /\ p.toksuper = t
               /\ t = 0 => Len(T) = 0
               /\ t # 0 => Fresh(F, T, t) \/ LastOver(F, T, B, t)
               /\ t # 0 /\ F[t].type = "string" => Fresh(F, T, t)
<1>. DEFINE F == r.tree
            T == p.toks
            B == OpenNodes(r.stack)
            t == Top(r)
<1>1. /\ F \in Seq(NodesOver(W)) /\ T \in Seq(TokensOver(W))
      /\ r.stack \in Seq(Nat) /\ Len(r.stack) \in Nat /\ Len(T) \in Nat
  BY LenProperties DEF ReadersOver, ParsersOver
<1>2. /\ TreeInv(F, T, B) /\ StackInv(F, r.stack)
      /\ Marked(F, T, B, t, r.mode, p.toksuper) /\ Len(F) = Len(T)
  BY DEF Alike, TreeInv
<1>3. IF Len(r.stack) = 0 THEN t = 0 ELSE t = r.stack[Len(r.stack)]
  BY <1>1, TopIs, EmptySeq
<1>4. B \in SUBSET (1..Len(T)) /\ t \in B \cup {0}
  <2>1. B \in SUBSET (1..Len(T))
    BY <1>2 DEF StackInv, OpenNodes
  <2>2. Len(r.stack) # 0 => Len(r.stack) \in 1..Len(r.stack)
    BY <1>1
  <2>. QED BY <1>3, <2>1, <2>2 DEF OpenNodes
<1>5. r.mode \in {"first", "next"}
  BY DEF ValueMayCome, KeyMayCome
<1>. HIDE DEF F, T, B, t
<1>6. /\ p.toksuper = t
      /\ t = 0 => Len(T) = 0
      /\ t # 0 => Fresh(F, T, t) \/ LastOver(F, T, B, t)
      /\ t # 0 /\ F[t].type = "string" => Fresh(F, T, t)
  BY <1>2, <1>5 DEF Marked, Container
<1>. QED BY <1>1, <1>2, <1>3, <1>4, <1>6 DEF F, T, B, t

(* A container, or a key, is begun. *)
LEMMA PushKeeps ==
    ASSUME NEW W, NEW r \in ReadersOver(W), NEW p \in SoundParsers(W),
           p.err = "none", Alike(r, p), NEW q \in ParsersOver(W),
           NEW tok, Grown(p.toks, q.toks, p.toksuper, tok),
           tok.start \in Nat, p.pos <= tok.start, tok.size = 0, tok.text \in W,
           (tok.end = -1) <=> Container(tok.type), NEW mode,
           \/ /\ tok.type \in {"object", "array"} /\ ValueMayCome(r)
              /\ mode = "first" /\ q.toksuper = Len(q.toks)
           \/ tok.type = "string" /\ KeyMayCome(r) /\ mode = "colon"
    PROVE  LET r2 == Opened(r, tok.type, tok.text, mode)
           IN  r2 \in ReadersOver(W) /\ Alike(r2, q)
<1>. DEFINE F == r.tree
            T == p.toks
            U == q.toks
            S == r.stack
            B == OpenNodes(S)
            t == Top(r)
            G == WithNode(r, tok.type, tok.text)
            S2 == Append(S, Len(F) + 1)
            C == OpenNodes(S2)
            r2 == Opened(r, tok.type, tok.text, mode)
<1>1. /\ F \in Seq(NodesOver(W)) /\ T \in Seq(TokensOver(W))
      /\ Len(T) \in Nat /\ Len(F) = Len(T)
      /\ S \in Seq(Nat) /\ Len(S) \in Nat
      /\ B \in SUBSET (1..Len(T)) /\ t \in B \cup {0}
      /\ IF Len(S) = 0 THEN t = 0 ELSE t = S[Len(S)]
      /\ p.toksuper = t
      /\ t = 0 => Len(T) = 0
      /\ t # 0 => Fresh(F, T, t) \/ LastOver(F, T, B, t)
      /\ t # 0 /\ F[t].type = "string" => Fresh(F, T, t)
  <2>1. p \in ParsersOver(W) /\ (ValueMayCome(r) \/ KeyMayCome(r))
    BY DEF SoundParsers
  <2>. QED BY <2>1, RoomIs, Zenon
<1>2. tok.type \in Types /\ tok.type # "primitive"
  BY DEF Types
<1>3. G \in Seq(NodesOver(W)) /\ GrownTree(F, G, t, tok.type, tok.text)
  BY <1>2, WithNodeIs
<1>4. TreeInv(F, T, B) /\ StackInv(F, S)
  BY DEF Alike
<1>5. tok.type = "string" => /\ Len(S) # 0 /\ t # 0 /\ F[t].type = "object"
  <2>1. KeyMayCome(r) => t # 0 /\ F[t].type = "object"
    BY DEF KeyMayCome, Within
  <2>. HIDE DEF S, F, t
  <2>2. t # 0 => Len(S) # 0
    BY <1>1
  <2>. QED BY <2>1, <2>2
<1>6. /\ StackInv(G, S2) /\ C = B \cup {Len(F) + 1}
      /\ S2 \in Seq(Nat) /\ Len(S2) = Len(S) + 1 /\ S2[Len(S2)] = Len(F) + 1
  <2>1. Len(F) \in Nat
    BY <1>1
  <2>2. tok.type = "string" => Len(S) # 0 /\ F[t].type = "object"
    BY <1>5
  <2>. HIDE DEF F, S, G, t
  <2>. QED BY <1>1, <1>2, <1>3, <1>4, <2>1, <2>2, StackPushed
<1>7. /\ p.pos \in Nat /\ SpansTo(T, p.pos)
      /\ U \in Seq(TokensOver(W))
  BY DEF SoundParsers, ParsersOver
<1>8. Grown(T, U, t, tok)
  BY <1>1
<1>9. t # 0 /\ F[t].type = "object" => tok.type = "string"
  BY DEF ValueMayCome, Within
<1>. HIDE DEF F, T, U, S, B, t, G, S2, C, r2
<1>10. TreeInv(G, U, C)
  <2>1. Len(T) + 1 \in C /\ C \in SUBSET (1..(Len(T) + 1))
    BY <1>1, <1>6
  <2>2. \A m \in 1..Len(T) : m \in C <=> m \in B
    BY <1>1, <1>6
  <2>3. \A m \in 1..Len(T) :
           m \in C <=> m \in B /\ (m = t => F[t].type # "string"
                                            \/ Len(T) + 1 \in C)
    BY <2>1, <2>2
  <2>4. t # 0 /\ F[t].type = "object" =>
              tok.type = "string" /\ Len(T) + 1 \in C
    BY <1>9, <2>1
  <2>5. (tok.end = -1) <=> (Container(tok.type) /\ Len(T) + 1 \in C)
    BY <2>1
  <2>6. Adds(W, T, U, F, G, B, t, tok, p.pos)
    BY <1>1, <1>3, <1>4, <1>7, <1>8 DEF Adds
  <2>7. Joins(F, T, B, C, t, tok)
    BY <1>1, <2>1, <2>3, <2>4, <2>5 DEF Joins
  <2>. QED BY <2>6, <2>7, AddKid
<1>11. r2.tree = G /\ r2.stack = S2 /\ r2.mode = mode
  BY DEF r2, Opened, G, S2, S, F
<1>12. r2 \in ReadersOver(W)
  <2>1. \A d \in 1..Len(S2) : S2[d] \in 1..Len(G)
    BY <1>6 DEF StackInv
  <2>2. r2 = [tree |-> G, stack |-> S2, mode |-> mode]
    BY DEF r2, Opened, G, S2, S, F
  <2>3. mode \in {"first", "next", "colon", "rest", "bad"}
    OBVIOUS
  <2>. QED BY <1>3, <1>6, <1>11, <2>1, <2>2, <2>3 DEF ReadersOver
<1>13. Top(r2) = Len(F) + 1 /\ Len(F) + 1 \in Nat /\ Len(U) = Len(F) + 1
  <2>1. S2 # <<>>
    <3>1. Len(S2) # 0
      BY <1>1, <1>6
    <3>. QED BY <3>1, EmptySeq
  <2>2. Top(r2) = S2[Len(S2)]
    BY <1>11, <2>1 DEF Top
  <2>. QED BY <1>1, <1>6, <1>8, <2>2 DEF Grown
<1>14. G[Len(F) + 1].type = tok.type /\ Len(G[Len(F) + 1].kids) = 0
  BY <1>3 DEF GrownTree
<1>15. Fresh(G, U, Len(F) + 1)
  BY <1>13, <1>14 DEF Fresh
<1>16. Marked(G, U, C, Len(F) + 1, mode, q.toksuper)
  <2>1. Len(F) + 1 # 0
    BY <1>1
  <2>2. \/ /\ mode = "first" /\ Container(G[Len(F) + 1].type)
           /\ q.toksuper = Len(F) + 1
        \/ mode = "colon" /\ G[Len(F) + 1].type = "string"
    BY <1>13, <1>14 DEF Container, U
  <2>. QED BY <1>15, <2>1, <2>2 DEF Marked
<1>17. Alike(r2, q)
  BY <1>6, <1>10, <1>11, <1>13, <1>16 DEF Alike, U, C
<1>. QED BY <1>12, <1>17 DEF r2

(* A string or a primitive: a value that is over at once. *)
LEMMA LeafKeeps ==
    ASSUME NEW W, NEW r \in ReadersOver(W), NEW p \in SoundParsers(W),
           p.err = "none", Alike(r, p), NEW q \in ParsersOver(W),
           NEW tok, Grown(p.toks, q.toks, p.toksuper, tok),
           tok.start \in Nat, p.pos <= tok.start, tok.size = 0, tok.text \in W,
           tok.end # -1, tok.type \in {"string", "primitive"},
           ValueMayCome(r), q.toksuper = p.toksuper
    PROVE  LET r2 == Over([r EXCEPT !.tree =
                              WithNode(r, tok.type, tok.text)])
           IN  r2 \in ReadersOver(W) /\ Alike(r2, q)
<1>. DEFINE F == r.tree
            T == p.toks
            U == q.toks
            S == r.stack
            B == OpenNodes(S)
            t == Top(r)
            n == Len(T)
            G == WithNode(r, tok.type, tok.text)
            r1 == [r EXCEPT !.tree = G]
            r2 == Over(r1)
            C == OpenNodes(r2.stack)
            o == WhatIsOver(r1, n + 1)
<1>1. /\ F \in Seq(NodesOver(W)) /\ T \in Seq(TokensOver(W))
      /\ n \in Nat /\ Len(F) = n
      /\ S \in Seq(Nat) /\ Len(S) \in Nat
      /\ B \in SUBSET (1..n) /\ t \in B \cup {0}
      /\ IF Len(S) = 0 THEN t = 0 ELSE t = S[Len(S)]
      /\ p.toksuper = t
      /\ t = 0 => n = 0
      /\ t # 0 => Fresh(F, T, t) \/ LastOver(F, T, B, t)
      /\ t # 0 /\ F[t].type = "string" => Fresh(F, T, t)
  <2>1. p \in ParsersOver(W) /\ (ValueMayCome(r) \/ KeyMayCome(r))
    BY DEF SoundParsers
  <2>. QED BY <2>1, RoomIs, Zenon
<1>2. tok.type \in Types /\ ~Container(tok.type)
  BY DEF Types, Container
<1>3. G \in Seq(NodesOver(W)) /\ GrownTree(F, G, t, tok.type, tok.text)
  BY <1>2, WithNodeIs
<1>4. TreeInv(F, T, B) /\ StackInv(F, S)
  BY DEF Alike
<1>5. t # 0 => F[t].type \in {"array", "string"}
  BY DEF ValueMayCome, Within
<1>6. /\ p.pos \in Nat /\ SpansTo(T, p.pos)
      /\ U \in Seq(TokensOver(W))
  BY DEF SoundParsers, ParsersOver
<1>7. Grown(T, U, t, tok)
  BY <1>1
<1>8. StackInv(G, S)
  <2>1. Len(F) \in Nat
    BY <1>1
  <2>. HIDE DEF F, S, G, t
  <2>. QED BY <1>1, <1>3, <1>4, <2>1, StackKept
<1>9. r1 \in ReadersOver(W) /\ r1.tree = G /\ r1.stack = S
  <2>1. \A d \in 1..Len(S) : S[d] \in 1..Len(G)
    BY <1>8 DEF StackInv
  <2>2. r \in [tree : Seq(NodesOver(W)), stack : Seq(Nat),
               mode : {"first", "next", "colon", "rest", "bad"}]
    BY DEF ReadersOver
  <2>. HIDE DEF G
  <2>. QED BY <1>3, <2>1, <2>2 DEF ReadersOver
<1>. HIDE DEF F, T, U, S, B, t, n, G, r1, r2, C, o
<1>10. Top(r1) = t
  BY <1>9 DEF Top, t, S
<1>11. t # 0 => /\ t \in 1..n /\ G[t].type = F[t].type
                /\ Len(F[t].kids) \in Nat
                /\ Len(G[t].kids) = Len(F[t].kids) + 1
                /\ LastKid(G, t, n + 1)
  <2>. SUFFICES ASSUME t # 0
                PROVE  /\ t \in 1..n /\ G[t].type = F[t].type
                       /\ Len(F[t].kids) \in Nat
                       /\ Len(G[t].kids) = Len(F[t].kids) + 1
                       /\ LastKid(G, t, n + 1)
    OBVIOUS
  <2>1. t \in 1..n /\ t \in 1..Len(F)
    BY <1>1
  <2>2. /\ Len(F[t].kids) \in Nat /\ G[t].type = F[t].type
        /\ Len(G[t].kids) = Len(F[t].kids) + 1
        /\ G[t].kids[Len(F[t].kids) + 1] = n + 1
    BY <1>1, <1>3, <2>1, NodeIs DEF GrownTree
  <2>3. Len(G[t].kids) # 0
    BY <2>2
  <2>. QED BY <2>1, <2>2, <2>3 DEF LastKid
<1>12. /\ r2 \in ReadersOver(W) /\ r2.tree = G /\ r2.mode = "rest"
       /\ StackInv(G, r2.stack) /\ C = B \ {o}
       /\ Top(r2) # 0 => /\ G[Top(r2)].type \in {"object", "array"}
                         /\ LastKid(G, Top(r2), o)
       /\ ~Within(r1, "string") => Top(r2) = t
       /\ Within(r1, "string") => Top(r2) # 0
  <2>1. n + 1 \notin OpenNodes(r1.stack)
    BY <1>1, <1>9 DEF B
  <2>2. Top(r1) # 0 => /\ r1.tree[Top(r1)].type \in {"array", "string"}
                       /\ LastKid(r1.tree, Top(r1), n + 1)
    BY <1>5, <1>9, <1>10, <1>11
  <2>3. StackInv(r1.tree, r1.stack)
    BY <1>8, <1>9
  <2>4. /\ r2 \in ReadersOver(W) /\ r2.tree = r1.tree /\ r2.mode = "rest"
        /\ StackInv(r1.tree, r2.stack)
        /\ OpenNodes(r2.stack) = OpenNodes(r1.stack) \ {o}
        /\ Top(r2) # 0 => /\ r1.tree[Top(r2)].type \in {"object", "array"}
                          /\ LastKid(r1.tree, Top(r2), o)
        /\ ~Within(r1, "string") => Top(r2) = Top(r1)
        /\ Within(r1, "string") => Top(r2) # 0
    BY <1>9, <2>1, <2>2, <2>3, OverIs, Zenon DEF r2, o
  <2>. QED BY <1>9, <1>10, <2>4 DEF B, C
<1>13. /\ Within(r1, "string") => t # 0 /\ F[t].type = "string" /\ o = t
       /\ ~Within(r1, "string") => /\ t # 0 => F[t].type = "array"
                                   /\ o = n + 1
  BY <1>5, <1>9, <1>10, <1>11 DEF Within, WhatIsOver, o
<1>14. TreeInv(G, U, C)
  <2>1. n + 1 \notin C /\ C \in SUBSET (1..(n + 1))
    <3>1. n \in Nat /\ B \in SUBSET (1..n) /\ C = B \ {o}
      BY <1>1, <1>12
    <3>. HIDE DEF n, B, C, o
    <3>2. \A x \in 1..n : x \in 1..(n + 1) /\ x # n + 1
      BY <3>1
    <3>3. C \subseteq 1..n
      BY <3>1
    <3>. QED BY <3>2, <3>3
  <2>2. ASSUME NEW m \in 1..n
        PROVE  m \in C <=> m \in B /\ (m = t => F[t].type # "string")
    BY <1>1, <1>12, <1>13
  <2>3. Adds(W, T, U, F, G, B, t, tok, p.pos)
    BY <1>1, <1>3, <1>4, <1>6, <1>7 DEF Adds
  <2>4. Joins(F, T, B, C, t, tok)
    BY <1>1, <1>2, <1>5, <2>1, <2>2 DEF Joins, n
  <2>. QED BY <2>3, <2>4, AddKid
<1>15. /\ Len(U) = n + 1 /\ G[n + 1].type = tok.type
       /\ Len(G[n + 1].kids) = 0
  BY <1>1, <1>3, <1>7 DEF Grown, GrownTree, n
<1>16. o \notin C /\ Past(G, U, o) = Len(U) + 1
  <2>1. JpSkip(U, n + 1) = Len(U) + 1
    <3>1. n + 1 \in 1..Len(U) /\ \A k \in ((n + 1) + 1)..Len(U) : FALSE
      BY <1>1, <1>15
    <3>2. \A k \in ((n + 1) + 1)..Len(U) : U[k].start < U[n + 1].end
      BY <3>1
    <3>. QED BY <1>6, <3>1, <3>2, SkipToTheEnd
  <2>2. CASE Within(r1, "string")
    <3>1. t # 0 /\ o = t /\ G[t].type = "string" /\ t = n
      BY <1>1, <1>11, <1>13, <2>2 DEF Fresh, n
    <3>2. Len(G[t].kids) # 0
      BY <1>11, <3>1
    <3>3. Past(G, U, t) = JpSkip(U, n + 1)
      BY <3>1, <3>2 DEF Past
    <3>. QED BY <1>12, <2>1, <3>1, <3>3
  <2>3. CASE ~Within(r1, "string")
    BY <1>12, <1>13, <1>15, <2>1, <2>3 DEF Past
  <2>. QED BY <2>2, <2>3
<1>17. Marked(G, U, C, Top(r2), "rest", q.toksuper)
  <2>1. q.toksuper = t
    BY <1>1
  <2>2. Top(r2) # 0 => /\ Container(G[Top(r2)].type)
                       /\ LastOver(G, U, C, Top(r2))
    BY <1>12, <1>16 DEF Container, LastOver, LastKid
  <2>3. CASE Within(r1, "string")
    <3>1. t # 0 /\ ~Container(G[t].type) /\ Top(r2) # 0
      BY <1>11, <1>12, <1>13, <2>3 DEF Container
    <3>. QED BY <2>1, <2>2, <3>1 DEF Marked
  <2>4. CASE ~Within(r1, "string")
    <3>1. Top(r2) = t
      BY <1>12, <2>4
    <3>. QED BY <2>1, <2>2, <3>1 DEF Marked
  <2>. QED BY <2>3, <2>4
<1>18. Alike(r2, q)
  BY <1>12, <1>14, <1>17 DEF Alike, U, C
<1>. QED BY <1>12, <1>18 DEF r2, r1, G

(* A container is over. *)
LEMMA CloseKeeps ==
    ASSUME NEW W, NEW r \in ReadersOver(W), NEW p \in SoundParsers(W),
           p.err = "none", Alike(r, p), NEW type \in {"object", "array"},
           EndMayCome(r, type), NEW q, q = CloseContainer(p, type)
    PROVE  LET r2 == Over([r EXCEPT !.stack = Front(@)])
           IN  r2 \in ReadersOver(W) /\ Alike(r2, q) /\ q.err = "none"
<1>. DEFINE F == r.tree
            T == p.toks
            U == q.toks
            S == r.stack
            B == OpenNodes(S)
            t == Top(r)
            R == Front(S)
            r1 == [r EXCEPT !.stack = Front(@)]
            r2 == Over(r1)
            C == OpenNodes(r2.stack)
            o == WhatIsOver(r1, t)
<1>1. /\ F \in Seq(NodesOver(W)) /\ T \in Seq(TokensOver(W))
      /\ S \in Seq(Nat) /\ Len(S) \in Nat /\ Len(T) \in Nat
      /\ p \in ParsersOver(W) /\ p.pos \in Nat /\ SpansTo(T, p.pos)
  BY LenProperties DEF ReadersOver, SoundParsers, ParsersOver
<1>2. /\ TreeInv(F, T, B) /\ StackInv(F, S) /\ Len(F) = Len(T)
      /\ Marked(F, T, B, t, r.mode, p.toksuper)
  BY DEF Alike, TreeInv
<1>3. /\ t # 0 /\ F[t].type = type /\ Container(F[t].type)
      /\ r.mode \in {"first", "rest"}
  BY DEF EndMayCome, Within, Container
<1>4. /\ Len(S) # 0 /\ Len(S) \in 1..Len(S) /\ t = S[Len(S)]
      /\ t \in 1..Len(T) /\ S # <<>>
  <2>1. S # <<>>
    BY <1>3 DEF Top
  <2>2. Len(S) > 0 /\ t = S[Len(S)] /\ t \in 1..Len(F)
    BY <2>1, TopIs
  <2>. QED BY <1>1, <1>2, <2>1, <2>2
<1>5. Fresh(F, T, t) \/ LastOver(F, T, B, t)
  BY <1>2, <1>3 DEF Marked
<1>6. t \in B /\ B \in SUBSET (1..Len(T))
  BY <1>2, <1>4 DEF OpenNodes, StackInv
<1>7. Newest(Open(T)) = t
  BY <1>1, <1>2, <1>3, <1>4, TopIsNewest
<1>8. T[t].type = type
  BY <1>2, <1>3, <1>4 DEF TreeInv, TokenOf
<1>9. /\ q \in ParsersOver(W) /\ q.err = "none" /\ U \in Seq(TokensOver(W))
      /\ Ended(T, U, t, p.pos + 1) /\ q.toksuper = Newest(Open(T) \ {t})
  <2>1. /\ q \in ParsersOver(W)
        /\ \/ t = 0 /\ q = p
           \/ t # 0 /\ T[t].type # type /\ q.err = "inval"
           \/ /\ t \in 1..Len(T) /\ T[t].type = type
              /\ Ended(T, U, t, p.pos + 1)
              /\ q.toksuper = Enclosing(p, t) /\ q.err = p.err
    BY <1>1, <1>7, CloseIs
  <2>2. q.toksuper = Enclosing(p, t) /\ q.err = "none"
    BY <1>3, <1>8, <2>1
  <2>. QED BY <1>3, <1>8, <2>1, <2>2 DEF Enclosing, ParsersOver
<1>10. /\ R \in Seq(Nat) /\ Len(R) = Len(S) - 1
       /\ \A d \in 1..Len(R) : R[d] = S[d]
       /\ StackInv(F, R) /\ OpenNodes(R) = B \ {t}
  <2>1. PICK s2 \in Seq(Nat) : /\ s2 = Front(S) /\ Len(s2) = Len(S) - 1
                               /\ \A d \in 1..Len(s2) : s2[d] = S[d]
                               /\ StackInv(F, s2)
                               /\ OpenNodes(s2) = OpenNodes(S) \ {S[Len(S)]}
    BY <1>1, <1>2, <1>4, StackPopped
  <2>. QED BY <1>4, <2>1
<1>11. r1 \in ReadersOver(W) /\ r1.tree = F /\ r1.stack = R
  <2>1. \A d \in 1..Len(R) : R[d] \in 1..Len(F)
    BY <1>10 DEF StackInv
  <2>2. r \in [tree : Seq(NodesOver(W)), stack : Seq(Nat),
               mode : {"first", "next", "colon", "rest", "bad"}]
    BY DEF ReadersOver
  <2>3. r1 = [r EXCEPT !.stack = R]
    BY <2>2
  <2>. HIDE DEF R, r1
  <2>. QED BY <1>10, <2>1, <2>2, <2>3 DEF ReadersOver
<1>. HIDE DEF F, T, U, S, B, t, R, r1, r2, C, o
<1>12. Top(r1) # 0 => /\ Len(R) # 0 /\ Len(R) < Len(S)
                      /\ Len(R) \in 1..Len(S) /\ Len(R) + 1 = Len(S)
                      /\ Top(r1) = S[Len(R)]
  <2>. SUFFICES ASSUME Top(r1) # 0
                PROVE  /\ Len(R) # 0 /\ Len(R) < Len(S)
                       /\ Len(R) \in 1..Len(S) /\ Len(R) + 1 = Len(S)
                       /\ Top(r1) = S[Len(R)]
    OBVIOUS
  <2>1. R # <<>> /\ Len(R) > 0 /\ Top(r1) = R[Len(R)] /\ Len(R) \in Nat
    BY <1>11, TopIs DEF Top
  <2>2. Len(R) \in 1..Len(R)
    BY <2>1
  <2>3. R[Len(R)] = S[Len(R)]
    BY <1>10, <2>2
  <2>. DEFINE k == Len(R)
              l == Len(S)
  <2>4. k \in Nat /\ k > 0 /\ l \in Nat /\ k = l - 1
    BY <1>1, <1>10, <2>1
  <2>. HIDE DEF k, l
  <2>5. k # 0 /\ k < l /\ k \in 1..l /\ k + 1 = l
    BY <2>4
  <2>. QED BY <2>1, <2>3, <2>5 DEF k, l
<1>13. Top(r1) # 0 => /\ F[Top(r1)].type \in {"array", "string"}
                      /\ LastKid(F, Top(r1), t) /\ Top(r1) \in 1..Len(T)
  <2>. SUFFICES ASSUME Top(r1) # 0
                PROVE  /\ F[Top(r1)].type \in {"array", "string"}
                       /\ LastKid(F, Top(r1), t) /\ Top(r1) \in 1..Len(T)
    OBVIOUS
  <2>1. PICK m : m = Top(r1)
    OBVIOUS
  <2>2. /\ m \in 1..Len(F) /\ F[m].type # "primitive" /\ LastKid(F, m, t)
    BY <1>2, <1>4, <1>12, <2>1 DEF StackInv, LastKid
  <2>3. F[m].type \in Types /\ Len(F[m].kids) \in Nat
    BY <1>1, <2>2, NodeIs
  <2>4. Len(F[m].kids) \in 1..Len(F[m].kids)
    BY <2>2, <2>3 DEF LastKid
  <2>5. KidIs(F, T, B, m, Len(F[m].kids))
    BY <1>2, <2>2, <2>4 DEF TreeInv
  <2>6. F[m].type # "object"
    BY <1>3, <2>2, <2>5 DEF KidIs, LastKid, Container
  <2>. QED BY <1>2, <2>1, <2>2, <2>3, <2>6 DEF Types
<1>14. /\ r2 \in ReadersOver(W) /\ r2.tree = F /\ r2.mode = "rest"
       /\ StackInv(F, r2.stack) /\ C = B \ {t, o}
       /\ Top(r2) # 0 => /\ F[Top(r2)].type \in {"object", "array"}
                         /\ LastKid(F, Top(r2), o)
  <2>1. t \notin OpenNodes(r1.stack)
    BY <1>10, <1>11
  <2>2. Top(r1) # 0 => /\ r1.tree[Top(r1)].type \in {"array", "string"}
                       /\ LastKid(r1.tree, Top(r1), t)
    BY <1>11, <1>13
  <2>3. StackInv(r1.tree, r1.stack)
    BY <1>10, <1>11
  <2>4. /\ r2 \in ReadersOver(W) /\ r2.tree = r1.tree /\ r2.mode = "rest"
        /\ StackInv(r1.tree, r2.stack)
        /\ OpenNodes(r2.stack) = OpenNodes(r1.stack) \ {o}
        /\ Top(r2) # 0 => /\ r1.tree[Top(r2)].type \in {"object", "array"}
                          /\ LastKid(r1.tree, Top(r2), o)
    BY <1>11, <2>1, <2>2, <2>3, OverIs, Zenon DEF r2, o
  <2>. QED BY <1>10, <1>11, <2>4 DEF C
<1>15. TreeInv(F, U, C) /\ Past(F, U, o) = Len(U) + 1
  <2>1. o = t \/ (o = Top(r1) /\ Top(r1) # 0 /\ F[o].type = "string")
    BY <1>11 DEF o, WhatIsOver, Within
  <2>2. /\ o \in 1..Len(T)
        /\ o = t \/ /\ F[o].type = "string" /\ Len(F[o].kids) # 0
                    /\ F[o].kids[Len(F[o].kids)] = t
    BY <1>4, <1>13, <2>1 DEF LastKid
  <2>. HIDE DEF F, T, U, B, t, o, C
  <2>3. /\ T \in Seq(TokensOver(W)) /\ U \in Seq(TokensOver(W))
        /\ F \in Seq(NodesOver(W)) /\ B \in SUBSET (1..Len(T)) /\ t \in B
        /\ p.pos \in Nat /\ SpansTo(T, p.pos) /\ Ended(T, U, t, p.pos + 1)
        /\ TreeInv(F, T, B) /\ Container(F[t].type)
        /\ Fresh(F, T, t) \/ LastOver(F, T, B, t)
    BY <1>1, <1>2, <1>3, <1>5, <1>6, <1>9
  <2>4. TreeInv(F, U, B \ {t, o}) /\ Past(F, U, o) = Len(U) + 1
    BY <2>2, <2>3, EndKid, Zenon
  <2>. QED BY <1>14, <2>4
<1>16. q.toksuper = Newest(Open(U))
  <2>1. Open(U) = Open(T) \ {t}
    <3>1. /\ Open(T) \in SUBSET (1..Len(T))
          /\ \A i \in 1..Len(T) : i \in Open(T) <=> T[i].end = -1
      BY <1>1, OpenIs
    <3>2. /\ Open(U) \in SUBSET (1..Len(U))
          /\ \A i \in 1..Len(U) : i \in Open(U) <=> U[i].end = -1
      BY <1>9, OpenIs
    <3>3. Len(U) = Len(T) /\ p.pos + 1 # -1
      BY <1>1, <1>9 DEF Ended
    <3>4. \A i \in 1..Len(T) : U[i].end = -1 <=> (T[i].end = -1 /\ i # t)
      BY <1>9, <3>3 DEF Ended
    <3>5. \A i : i \in Open(U) <=> (i \in Open(T) /\ i # t)
      BY <3>1, <3>2, <3>3, <3>4
    <3>. QED BY <3>5
  <2>. QED BY <1>9, <2>1
<1>17. q.toksuper = Top(r2)
  <2>1. r2.stack \in Seq(Nat)
    BY <1>14 DEF ReadersOver
  <2>2. PICK Z \in Seq(Nat) : /\ Z = r2.stack /\ StackInv(F, Z)
                              /\ TreeInv(F, U, OpenNodes(Z))
    BY <1>14, <1>15, <2>1 DEF C
  <2>4. /\ Len(Z) = 0 => Newest(Open(U)) = 0
        /\ Len(Z) # 0 /\ Container(F[Z[Len(Z)]].type) =>
              Newest(Open(U)) = Z[Len(Z)]
    BY <1>1, <1>9, <2>2, TopIsNewest
  <2>3. IF Len(r2.stack) = 0 THEN Top(r2) = 0
        ELSE Top(r2) = r2.stack[Len(r2.stack)] /\ Top(r2) # 0
    BY <1>14, <2>1, TopIs, EmptySeq
  <2>. QED BY <1>14, <1>16, <2>2, <2>3, <2>4 DEF Container
<1>18. Marked(F, U, C, Top(r2), "rest", q.toksuper)
  <2>1. Top(r2) # 0 => /\ Container(F[Top(r2)].type)
                       /\ LastOver(F, U, C, Top(r2))
    BY <1>14, <1>15 DEF Container, LastOver, LastKid
  <2>. QED BY <1>17, <2>1 DEF Marked
<1>19. Alike(r2, q)
  BY <1>14, <1>15, <1>18 DEF Alike, U, C
<1>. QED BY <1>9, <1>14, <1>19 DEF r2, r1

(* One lexeme, by the grammar. *)
LEMMA ReadsCases ==
    ASSUME NEW W, NEW r, NEW lex \in LexemesOver(W)
    PROVE  LET r2 == Reads(r, lex)
           IN  \/ /\ lex.c = "{" /\ ValueMayCome(r)
                  /\ r2 = Opened(r, "object", "", "first")
               \/ /\ lex.c = "[" /\ ValueMayCome(r)
                  /\ r2 = Opened(r, "array", "", "first")
               \/ /\ lex.c \in {"string", "primitive"} /\ ValueMayCome(r)
                  /\ r2 = Over([r EXCEPT !.tree =
                                   WithNode(r, lex.c, lex.text)])
               \/ /\ lex.c = "string" /\ KeyMayCome(r)
                  /\ r2 = Opened(r, "string", lex.text, "colon")
               \/ /\ lex.c = ":" /\ r.mode = "colon"
                  /\ r2 = [r EXCEPT !.mode = "next"]
               \/ /\ lex.c = "," /\ r.mode = "rest" /\ Top(r) # 0
                  /\ r2 = [r EXCEPT !.mode = "next"]
               \/ /\ lex.c = "}" /\ EndMayCome(r, "object")
                  /\ r2 = Over([r EXCEPT !.stack = Front(@)])
               \/ /\ lex.c = "]" /\ EndMayCome(r, "array")
                  /\ r2 = Over([r EXCEPT !.stack = Front(@)])
               \/ r2 = [r EXCEPT !.mode = "bad"]
<1>. DEFINE r2 == Reads(r, lex)
            g1 == lex.c = "{" /\ ValueMayCome(r)
            g2 == lex.c = "[" /\ ValueMayCome(r)
            g3 == lex.c \in {"string", "primitive"} /\ ValueMayCome(r)
            g4 == lex.c = "string" /\ KeyMayCome(r)
            g5 == lex.c = ":" /\ r.mode = "colon"
            g6 == lex.c = "," /\ r.mode = "rest" /\ Top(r) # 0
            g7 == lex.c = "}" /\ EndMayCome(r, "object")
            g8 == lex.c = "]" /\ EndMayCome(r, "array")
            v1 == Opened(r, "object", "", "first")
            v2 == Opened(r, "array", "", "first")
            v3 == Over([r EXCEPT !.tree = WithNode(r, lex.c, lex.text)])
            v4 == Opened(r, "string", lex.text, "colon")
            v5 == [r EXCEPT !.mode = "next"]
            v7 == Over([r EXCEPT !.stack = Front(@)])
            v9 == [r EXCEPT !.mode = "bad"]
<1>1. r2 = CASE g1 -> v1 [] g2 -> v2 [] g3 -> v3 [] g4 -> v4 [] g5 -> v5
             [] g6 -> v5 [] g7 -> v7 [] g8 -> v7 [] OTHER -> v9
  BY Zenon DEF Reads
<1>2. \/ g1 /\ r2 = v1
      \/ g2 /\ r2 = v2
      \/ g3 /\ r2 = v3
      \/ g4 /\ r2 = v4
      \/ g5 /\ r2 = v5
      \/ g6 /\ r2 = v5
      \/ g7 /\ r2 = v7
      \/ g8 /\ r2 = v7
      \/ r2 = v9
  <2>. HIDE DEF r2, g1, g2, g3, g4, g5, g6, g7, g8, v1, v2, v3, v4, v5, v7, v9
  <2>. QED BY <1>1
<1>. QED BY <1>2, Zenon

LEMMA OverStays ==
    ASSUME NEW W, NEW r \in ReadersOver(W)
    PROVE  Over(r) \in ReadersOver(W)
<1>1. r \in [tree : Seq(NodesOver(W)), stack : Seq(Nat),
             mode : {"first", "next", "colon", "rest", "bad"}]
  BY DEF ReadersOver
<1>2. CASE ~Within(r, "string")
  <2>1. Over(r) = [r EXCEPT !.mode = "rest"]
    <3>1. Over(r) = [r EXCEPT !.mode = "rest", !.stack = r.stack]
      BY <1>2 DEF Over
    <3>. QED BY <1>1, <3>1
  <2>. QED BY <1>1, <2>1 DEF ReadersOver
<1>3. CASE Within(r, "string")
  <2>1. Len(r.stack) # 0 /\ r.stack \in Seq(Nat)
    BY <1>1, <1>3, TopIs DEF Within
  <2>2. PICK R \in Seq(Nat) : /\ R = Front(r.stack)
                              /\ Len(R) = Len(r.stack) - 1
                              /\ \A d \in 1..Len(R) :
                                    d \in 1..Len(r.stack) /\ R[d] = r.stack[d]
    BY <2>1, FrontIs
  <2>3. Over(r) = [r EXCEPT !.mode = "rest", !.stack = R]
    BY <1>3, <2>2 DEF Over
  <2>4. \A d \in 1..Len(R) : R[d] \in 1..Len(r.tree)
    BY <2>2 DEF ReadersOver
  <2>. QED BY <1>1, <2>3, <2>4 DEF ReadersOver
<1>. QED BY <1>2, <1>3

LEMMA OpenedStays ==
    ASSUME NEW W, NEW r \in ReadersOver(W), NEW type \in Types, NEW text \in W,
           NEW mode \in {"first", "colon"}
    PROVE  Opened(r, type, text, mode) \in ReadersOver(W)
<1>. DEFINE G == WithNode(r, type, text)
            n == Len(r.tree)
<1>1. /\ G \in Seq(NodesOver(W)) /\ n \in Nat /\ Len(G) = n + 1
  BY WithNodeIs, TopIs DEF GrownTree
<1>. HIDE DEF G, n
<1>2. PICK R \in Seq(Nat) : /\ R = Append(r.stack, n + 1)
                            /\ \A d \in 1..Len(R) : R[d] \in 1..Len(G)
  <2>1. /\ r.stack \in Seq(Nat) /\ n + 1 \in Nat /\ Len(r.stack) \in Nat
        /\ \A d \in 1..Len(r.stack) : r.stack[d] \in 1..n
    BY <1>1, LenProperties DEF ReadersOver, n
  <2>. DEFINE x == n + 1
  <2>. HIDE DEF x
  <2>2. x \in Nat
    BY <2>1 DEF x
  <2>3. /\ Append(r.stack, x) \in Seq(Nat)
        /\ Len(Append(r.stack, x)) = Len(r.stack) + 1
        /\ \A d \in 1..Len(r.stack) : Append(r.stack, x)[d] = r.stack[d]
        /\ Append(r.stack, x)[Len(r.stack) + 1] = x
    BY <2>1, <2>2, Appends
  <2>4. PICK Z \in Seq(Nat) : /\ Z = Append(r.stack, x)
                              /\ Len(Z) = Len(r.stack) + 1
                              /\ \A d \in 1..Len(r.stack) : Z[d] = r.stack[d]
                              /\ Z[Len(r.stack) + 1] = x
    BY <2>3
  <2>5. ASSUME NEW d \in 1..Len(Z) PROVE Z[d] \in 1..Len(G)
    <3>1. d \in 1..Len(r.stack) \/ d = Len(r.stack) + 1
      BY <2>1, <2>4
    <3>2. CASE d \in 1..Len(r.stack)
      <4>1. Z[d] \in 1..n
        BY <2>1, <2>4, <3>2
      <4>. QED BY <1>1, <4>1
    <3>3. CASE d = Len(r.stack) + 1
      <4>1. Z[d] = n + 1
        BY <2>4, <3>3 DEF x
      <4>. QED BY <1>1, <4>1
    <3>. QED BY <3>1, <3>2, <3>3
  <2>. QED BY <2>4, <2>5 DEF x
<1>3. Opened(r, type, text, mode) = [tree |-> G, stack |-> R, mode |-> mode]
  BY <1>2 DEF Opened, G, n
<1>4. PICK r2 : r2 = Opened(r, type, text, mode)
  OBVIOUS
<1>5. r2 = [tree |-> G, stack |-> R, mode |-> mode]
  BY <1>3, <1>4
<1>6. /\ r2 \in [tree : Seq(NodesOver(W)), stack : Seq(Nat),
                mode : {"first", "next", "colon", "rest", "bad"}]
      /\ r2.tree = G /\ r2.stack = R
  BY <1>1, <1>5
<1>7. \A d \in 1..Len(r2.stack) : r2.stack[d] \in 1..Len(r2.tree)
  BY <1>2, <1>6
<1>. QED BY <1>4, <1>6, <1>7 DEF ReadersOver

LEMMA ReadsStays ==
    ASSUME NEW W, Texts(W), NEW r \in ReadersOver(W), NEW lex \in LexemesOver(W)
    PROVE  Reads(r, lex) \in ReadersOver(W)
<1>1. r \in [tree : Seq(NodesOver(W)), stack : Seq(Nat),
             mode : {"first", "next", "colon", "rest", "bad"}]
  BY DEF ReadersOver
<1>2. \A mode \in {"first", "next", "colon", "rest", "bad"} :
         [r EXCEPT !.mode = mode] \in ReadersOver(W)
  BY <1>1 DEF ReadersOver
<1>3. \A type \in Types, text \in W, mode \in {"first", "colon"} :
         Opened(r, type, text, mode) \in ReadersOver(W)
  BY OpenedStays
<1>4. /\ lex.text \in W /\ "" \in W
      /\ {"object", "array", "string", "primitive"} \subseteq Types
  BY DEF LexemesOver, Texts, Types
<1>5. ASSUME lex.c \in {"string", "primitive"}
      PROVE  Over([r EXCEPT !.tree = WithNode(r, lex.c, lex.text)])
                \in ReadersOver(W)
  <2>. DEFINE G == WithNode(r, lex.c, lex.text)
  <2>1. /\ G \in Seq(NodesOver(W)) /\ Len(G) = Len(r.tree) + 1
        /\ Len(r.tree) \in Nat
    <3>1. lex.c \in Types /\ lex.text \in W
      BY <1>4, <1>5
    <3>. QED BY <3>1, WithNodeIs, TopIs DEF GrownTree
  <2>. HIDE DEF G
  <2>2. \A d \in 1..Len(r.stack) : r.stack[d] \in 1..Len(G)
    BY <2>1 DEF ReadersOver
  <2>3. [r EXCEPT !.tree = G] \in ReadersOver(W)
    BY <1>1, <2>1, <2>2 DEF ReadersOver
  <2>. QED BY <2>3, OverStays DEF G
<1>6. ASSUME Top(r) # 0
      PROVE  Over([r EXCEPT !.stack = Front(@)]) \in ReadersOver(W)
  <2>1. Len(r.stack) # 0 /\ r.stack \in Seq(Nat)
    BY <1>1, <1>6, TopIs
  <2>2. PICK R \in Seq(Nat) : /\ R = Front(r.stack)
                              /\ Len(R) = Len(r.stack) - 1
                              /\ \A d \in 1..Len(R) :
                                    d \in 1..Len(r.stack) /\ R[d] = r.stack[d]
    BY <2>1, FrontIs
  <2>3. \A d \in 1..Len(R) : R[d] \in 1..Len(r.tree)
    BY <2>2 DEF ReadersOver
  <2>4. [r EXCEPT !.stack = Front(@)] = [r EXCEPT !.stack = R]
    BY <2>2
  <2>5. [r EXCEPT !.stack = R] \in ReadersOver(W)
    BY <1>1, <2>3 DEF ReadersOver
  <2>. QED BY <2>4, <2>5, OverStays
<1>7. \A type : EndMayCome(r, type) => Top(r) # 0
  BY DEF EndMayCome, Within
<1>8. PICK r2 : r2 = Reads(r, lex)
  OBVIOUS
<1>9. \/ \E type \in Types, text \in W, mode \in {"first", "colon"} :
            r2 = Opened(r, type, text, mode)
      \/ /\ lex.c \in {"string", "primitive"}
         /\ r2 = Over([r EXCEPT !.tree = WithNode(r, lex.c, lex.text)])
      \/ \E mode \in {"next", "bad"} : r2 = [r EXCEPT !.mode = mode]
      \/ Top(r) # 0 /\ r2 = Over([r EXCEPT !.stack = Front(@)])
  BY <1>4, <1>7, <1>8, ReadsCases
<1>10. r2 \in ReadersOver(W)
  BY <1>2, <1>3, <1>5, <1>6, <1>9
<1>. QED BY <1>8, <1>10

LEMMA BadStays ==
    ASSUME NEW W, NEW r \in ReadersOver(W), NEW lex \in LexemesOver(W),
           r.mode = "bad"
    PROVE  Reads(r, lex).mode = "bad"
<1>1. [r EXCEPT !.mode = "bad"].mode = "bad"
  BY DEF ReadersOver
<1>2. /\ ~ValueMayCome(r) /\ ~KeyMayCome(r)
      /\ \A type : ~EndMayCome(r, type)
  <2>1. Top(r) # 0 => \A type : ~EndMayCome(r, type)
    BY DEF EndMayCome
  <2>. QED BY <2>1 DEF ValueMayCome, KeyMayCome, EndMayCome
<1>. QED BY <1>1, <1>2, ReadsCases

LEMMA UpTo ==
    \A n \in Nat : n \in 0..n /\ \A i \in Nat : i <= n => i \in 0..n
OBVIOUS

LEMMA MarkKeeps ==
    ASSUME NEW W, NEW r \in ReadersOver(W), NEW p \in ParsersOver(W),
           Alike(r, p), NEW q,
           \/ r.mode = "colon" /\ q = [p EXCEPT !.toksuper = Len(p.toks)]
           \/ r.mode = "rest" /\ Top(r) # 0 /\ q = Comma(p)
    PROVE  Alike([r EXCEPT !.mode = "next"], q)
<1>. DEFINE F == r.tree
            T == p.toks
            S == r.stack
            B == OpenNodes(S)
            t == Top(r)
            r2 == [r EXCEPT !.mode = "next"]
<1>1. /\ F \in Seq(NodesOver(W)) /\ T \in Seq(TokensOver(W))
      /\ S \in Seq(Nat) /\ Len(S) \in Nat /\ Len(T) \in Nat
      /\ p.toksuper \in 0..Len(T)
  <2>1. /\ F \in Seq(NodesOver(W)) /\ T \in Seq(TokensOver(W))
        /\ S \in Seq(Nat) /\ p.toksuper \in Nat /\ p.toksuper <= Len(T)
    BY DEF ReadersOver, ParsersOver
  <2>2. Len(S) \in Nat /\ Len(T) \in Nat
    BY <2>1, LenProperties
  <2>3. p.toksuper \in 0..Len(T)
    BY <2>1, <2>2, UpTo
  <2>. QED BY <2>1, <2>2, <2>3
<1>2. /\ TreeInv(F, T, B) /\ StackInv(F, S) /\ Len(F) = Len(T)
      /\ Marked(F, T, B, t, r.mode, p.toksuper)
  BY DEF Alike, TreeInv
<1>3. r2.tree = F /\ r2.stack = S /\ r2.mode = "next"
  BY DEF ReadersOver
<1>4. Top(r2) = t
  <2>. HIDE DEF r2
  <2>. QED BY <1>3 DEF Top
<1>0. t # 0 => Len(S) # 0 /\ t = S[Len(S)] /\ t \in 0..Len(F)
  <2>1. /\ S = <<>> => t = 0
        /\ S # <<>> => Len(S) > 0 /\ t = S[Len(S)]
        /\ t \in 0..Len(F)
    BY TopIs
  <2>. HIDE DEF S, t, F
  <2>2. Len(S) > 0 => Len(S) # 0
    BY <1>1
  <2>. QED BY <2>1, <2>2
<1>. HIDE DEF F, T, S, B, t, r2
<1>5. CASE r.mode = "colon" /\ q = [p EXCEPT !.toksuper = Len(p.toks)]
  <2>1. t # 0 /\ F[t].type = "string" /\ Fresh(F, T, t)
    BY <1>2, <1>5 DEF Marked
  <2>2. t = Len(T)
    BY <2>1 DEF Fresh
  <2>3. q = [p EXCEPT !.toksuper = Len(T)]
    BY <1>5 DEF T
  <2>4. q.toks = T /\ q.toksuper = t
    <3>1. Len(T) \in 0..Len(p.toks)
      BY <1>1, UpTo DEF T
    <3>2. PICK i \in 0..Len(p.toks) : i = Len(T)
      BY <3>1 DEF T
    <3>3. q = [p EXCEPT !.toksuper = i]
      BY <2>3, <3>2
    <3>4. q.toks = p.toks /\ q.toksuper = i
      BY <3>3, MarksMove
    <3>. QED BY <2>2, <3>2, <3>3, <3>4 DEF T
  <2>5. Marked(F, T, B, t, "next", t)
    BY <2>1 DEF Marked
  <2>. QED BY <1>2, <1>3, <1>4, <2>4, <2>5 DEF Alike, B, r2
<1>6. CASE r.mode = "rest" /\ Top(r) # 0 /\ q = Comma(p)
  <2>. DEFINE s == p.toksuper
  <2>1. /\ t # 0 /\ Container(F[t].type) /\ LastOver(F, T, B, t)
        /\ s = t \/ (s # 0 /\ ~Container(F[s].type))
    BY <1>2, <1>6 DEF Marked, t
  <2>2. /\ Len(S) # 0 /\ t = S[Len(S)]
    BY <1>0, <1>6 DEF t
  <2>3. Open(T) # {} /\ Newest(Open(T)) = t
    BY <1>1, <1>2, <2>1, <2>2, TopIsNewest DEF B
  <2>4. s # 0 => T[s].type = F[s].type
    <3>1. s # 0 => s \in 1..Len(T)
      <4>1. PICK l \in Nat : l = Len(T) /\ s \in 0..l
        BY <1>1
      <4>. HIDE DEF s
      <4>2. s # 0 => s \in 1..l
        BY <4>1
      <4>. QED BY <4>1, <4>2
    <3>2. \A m \in 1..Len(T) : T[m].type = F[m].type
      BY <1>2 DEF TreeInv, TokenOf
    <3>. HIDE DEF s
    <3>. QED BY <3>1, <3>2
  <2>5. q = Comma(p)
    BY <1>6
  <2>6. q.toks = T /\ q.toksuper = t
    <3>1. CASE s = t
      <4>1. q = p
        BY <2>1, <2>4, <2>5, <3>1 DEF Comma, T
      <4>. QED BY <3>1, <4>1 DEF T
    <3>2. CASE s # t
      <4>1. q = [p EXCEPT !.toksuper = t]
        BY <2>1, <2>3, <2>4, <2>5, <3>2 DEF Comma, T
      <4>2. t \in 0..Len(p.toks)
        BY <1>0, <1>2, <2>1 DEF T
      <4>3. PICK i \in 0..Len(p.toks) : i = t
        BY <4>2
      <4>4. q.toks = p.toks /\ q.toksuper = i
        BY <4>1, <4>3, MarksMove
      <4>. QED BY <4>1, <4>3, <4>4 DEF T
    <3>. QED BY <3>1, <3>2
  <2>7. Marked(F, T, B, t, "next", t)
    BY <2>1 DEF Marked
  <2>. QED BY <1>2, <1>3, <1>4, <2>6, <2>7 DEF Alike, B, r2
<1>. QED BY <1>5, <1>6 DEF r2

(* Each lexeme, for both. *)
NoText == ""

Begins(r, p, r2, u, type) ==
    /\ ValueMayCome(r)
    /\ r2 = Opened(r, type, NoText, "first") /\ u = OpenContainer(p, type)

IsLeaf(r, r2, lex) ==
    /\ lex.c \in {"string", "primitive"} /\ ValueMayCome(r)
    /\ r2 = Over([r EXCEPT !.tree = WithNode(r, lex.c, lex.text)])

IsKey(r, r2, lex) ==
    /\ lex.c = "string" /\ KeyMayCome(r)
    /\ r2 = Opened(r, "string", lex.text, "colon")

IsMark(r, p, r2, u) ==
    /\ r2 = [r EXCEPT !.mode = "next"]
    /\ \/ r.mode = "colon" /\ u = [p EXCEPT !.toksuper = Len(p.toks)]
       \/ r.mode = "rest" /\ Top(r) # 0 /\ u = Comma(p)

Ends(r, p, r2, u, type) ==
    /\ EndMayCome(r, type) /\ u = CloseContainer(p, type)
    /\ r2 = Over([r EXCEPT !.stack = Front(@)])

LEMMA BothCases ==
    ASSUME NEW W, NEW r \in ReadersOver(W), NEW p \in ParsersOver(W),
           NEW lex \in LexemesOver(W), Reads(r, lex).mode # "bad"
    PROVE  LET r2 == Reads(r, lex)
               u  == Scan(p, lex)
           IN  \/ \E type \in {"object", "array"} : Begins(r, p, r2, u, type)
               \/ IsLeaf(r, r2, lex) \/ IsKey(r, r2, lex)
               \/ IsMark(r, p, r2, u)
               \/ \E type \in {"object", "array"} : Ends(r, p, r2, u, type)
<1>1. [r EXCEPT !.mode = "bad"].mode = "bad"
  BY DEF ReadersOver
<1>2. Reads(r, lex) # [r EXCEPT !.mode = "bad"]
  BY <1>1
<1>3. CASE lex.c = "{" /\ ValueMayCome(r)
           /\ Reads(r, lex) = Opened(r, "object", "", "first")
  BY <1>3, ScanIs, Zenon DEF Begins, NoText
<1>4. CASE lex.c = "[" /\ ValueMayCome(r)
           /\ Reads(r, lex) = Opened(r, "array", "", "first")
  BY <1>4, ScanIs, Zenon DEF Begins, NoText
<1>5. CASE lex.c = "}" /\ EndMayCome(r, "object")
           /\ Reads(r, lex) = Over([r EXCEPT !.stack = Front(@)])
  BY <1>5, ScanIs, Zenon DEF Ends
<1>6. CASE lex.c = "]" /\ EndMayCome(r, "array")
           /\ Reads(r, lex) = Over([r EXCEPT !.stack = Front(@)])
  BY <1>6, ScanIs, Zenon DEF Ends
<1>7. CASE lex.c = ":" /\ r.mode = "colon"
           /\ Reads(r, lex) = [r EXCEPT !.mode = "next"]
  <2>1. Scan(p, lex) = [p EXCEPT !.toksuper = Len(p.toks)]
    BY <1>7, ColonIs, Zenon
  <2>. QED BY <1>7, <2>1, Zenon DEF IsMark
<1>8. CASE lex.c = "," /\ r.mode = "rest" /\ Top(r) # 0
           /\ Reads(r, lex) = [r EXCEPT !.mode = "next"]
  <2>1. Scan(p, lex) = Comma(p)
    BY <1>8, CommaIs, Zenon
  <2>. QED BY <1>8, <2>1, Zenon DEF IsMark
<1>9. \/ lex.c = "{" /\ ValueMayCome(r)
         /\ Reads(r, lex) = Opened(r, "object", "", "first")
      \/ lex.c = "[" /\ ValueMayCome(r)
         /\ Reads(r, lex) = Opened(r, "array", "", "first")
      \/ IsLeaf(r, Reads(r, lex), lex)
      \/ IsKey(r, Reads(r, lex), lex)
      \/ lex.c = ":" /\ r.mode = "colon"
         /\ Reads(r, lex) = [r EXCEPT !.mode = "next"]
      \/ lex.c = "," /\ r.mode = "rest" /\ Top(r) # 0
         /\ Reads(r, lex) = [r EXCEPT !.mode = "next"]
      \/ lex.c = "}" /\ EndMayCome(r, "object")
         /\ Reads(r, lex) = Over([r EXCEPT !.stack = Front(@)])
      \/ lex.c = "]" /\ EndMayCome(r, "array")
         /\ Reads(r, lex) = Over([r EXCEPT !.stack = Front(@)])
  BY <1>2, ReadsCases, Zenon DEF IsLeaf, IsKey
<1>. QED BY <1>3, <1>4, <1>5, <1>6, <1>7, <1>8, <1>9, Zenon

(* Each lexeme keeps them alike, while both go on. *)
LEMMA AlikeStep ==
    ASSUME NEW W, Texts(W), NEW r \in ReadersOver(W), NEW p \in SoundParsers(W),
           NEW lex \in LexemesOver(W), p.err = "none", Alike(r, p),
           Reads(r, lex).mode # "bad"
    PROVE  LET q == Step(p, lex)
           IN  /\ q.err \in {"none", "nomem"}
               /\ q.err = "none" => Alike(Reads(r, lex), q)
<1>. DEFINE T == p.toks
            u == Scan(p, lex)
            q == Step(p, lex)
            r2 == Reads(r, lex)
<1>1. /\ p \in ParsersOver(W) /\ p.pos \in Nat /\ T \in Seq(TokensOver(W))
      /\ lex.text \in W /\ Len(lex.text) \in Nat /\ NoText \in W
  <2>1. NoText \in W
    BY Zenon DEF Texts, NoText
  <2>2. p \in ParsersOver(W) /\ p.pos \in Nat /\ T \in Seq(TokensOver(W))
    BY DEF SoundParsers, ParsersOver
  <2>3. lex.text \in W /\ Len(lex.text) \in Nat
    BY WidthIs, Zenon
  <2>. QED BY <2>1, <2>2, <2>3
<1>2. /\ u \in ParsersOver(W) /\ q.toks = u.toks /\ q.toksuper = u.toksuper
      /\ q.err = u.err
  BY StepIs
<1>. HIDE DEF u, q, r2
<1>3. Alike(r2, u) => Alike(r2, q)
  BY <1>2 DEF Alike
<1>5. ASSUME NEW type \in {"object", "array"}, Begins(r, p, r2, u, type)
      PROVE  u.err \in {"none", "nomem"} /\ (u.err = "none" => Alike(r2, u))
  <2>. DEFINE tok == [type |-> type, start |-> p.pos, end |-> -1, size |-> 0,
                      text |-> NoText]
  <2>0. /\ ValueMayCome(r) /\ r2 = Opened(r, type, NoText, "first")
        /\ u = OpenContainer(p, type)
    BY <1>5 DEF Begins
  <2>1. \/ u.err = "nomem"
        \/ /\ u.err = "none" /\ u.toksuper = Len(u.toks)
           /\ Grown(p.toks, u.toks, p.toksuper, tok)
    BY <1>1, <2>0, OpenContainerIs, Zenon DEF NoText
  <2>2. /\ tok.type = type /\ tok.text = NoText /\ tok.size = 0
        /\ tok.start = p.pos /\ tok.end = -1 /\ Container(tok.type)
    BY DEF Container
  <2>. HIDE DEF tok
  <2>3. p.pos <= tok.start /\ tok.start \in Nat
    <3>1. PICK at \in Nat : at = p.pos
      BY <1>1
    <3>2. at <= at
      OBVIOUS
    <3>. QED BY <2>2, <3>1, <3>2
  <2>4. CASE u.err = "none"
    <3>1. Alike(Opened(r, tok.type, tok.text, "first"), u)
      BY <1>1, <1>2, <1>5, <2>0, <2>1, <2>2, <2>3, <2>4, PushKeeps
    <3>. QED BY <2>0, <2>2, <2>4, <3>1
  <2>. QED BY <2>1, <2>4
<1>6. ASSUME lex.c \in {"string", "primitive"}
      PROVE  \E tok :
                /\ tok.type = lex.c /\ tok.text = lex.text /\ tok.size = 0
                /\ tok.start \in Nat /\ p.pos <= tok.start /\ tok.end # -1
                /\ u.toksuper = p.toksuper
                /\ \/ u.err = "nomem"
                   \/ u.err = "none" /\ Grown(p.toks, u.toks, p.toksuper, tok)
  <2>0. PICK at \in Nat, len \in Nat : at = p.pos /\ len = Len(lex.text)
    BY <1>1
  <2>1. PICK b \in Nat, e \in Nat :
           p.pos <= b /\ u = Alloc(p, lex.c, b, e, lex.text)
    <3>1. CASE lex.c = "string"
      <4>1. /\ at + 1 \in Nat /\ at + 1 + len \in Nat /\ at <= at + 1
        OBVIOUS
      <4>2. u = Alloc(p, lex.c, p.pos + 1, p.pos + 1 + Len(lex.text), lex.text)
        BY <1>1, <3>1, StringIs, Zenon DEF u
      <4>. QED BY <2>0, <4>1, <4>2
    <3>2. CASE lex.c = "primitive"
      <4>1. at + len \in Nat /\ at <= at
        OBVIOUS
      <4>2. u = Alloc(p, lex.c, p.pos, p.pos + Len(lex.text), lex.text)
        BY <1>1, <3>2, PrimitiveIs, Zenon DEF u
      <4>. QED BY <2>0, <4>1, <4>2
    <3>. QED BY <1>6, <3>1, <3>2
  <2>. DEFINE tok == [type |-> lex.c, start |-> b, end |-> e, size |-> 0,
                      text |-> lex.text]
  <2>2. lex.c \in Types /\ e \in Nat \cup {-1} /\ e # -1
    BY <1>6 DEF Types
  <2>3. /\ u.toksuper = p.toksuper
        /\ \/ u.err = "nomem"
           \/ u.err = "none" /\ Grown(p.toks, u.toks, p.toksuper, tok)
    <3>1. /\ u.toksuper = p.toksuper
          /\ \/ u.err = "nomem" /\ u.toks = p.toks
             \/ u.err = p.err /\ Grown(p.toks, u.toks, p.toksuper, tok)
      <4>1. p \in ParsersOver(W) /\ lex.c \in Types /\ e \in Nat \cup {-1}
        BY <1>1, <2>2
      <4>2. lex.text \in W
        BY <1>1
      <4>. DEFINE a == Alloc(p, lex.c, b, e, lex.text)
      <4>3. /\ a.toksuper = p.toksuper
            /\ \/ a.err = "nomem" /\ a.toks = p.toks
               \/ a.err = p.err /\ Grown(p.toks, a.toks, p.toksuper, tok)
        BY <4>1, <4>2, AllocIs
      <4>4. u = a
        BY <2>1
      <4>. HIDE DEF a, tok
      <4>. QED BY <4>3, <4>4
    <3>. HIDE DEF tok
    <3>. QED BY <3>1
  <2>4. /\ tok.type = lex.c /\ tok.text = lex.text /\ tok.size = 0
        /\ tok.start = b /\ tok.end = e
    OBVIOUS
  <2>. HIDE DEF tok
  <2>5. /\ tok.type = lex.c /\ tok.text = lex.text /\ tok.size = 0
        /\ tok.start \in Nat /\ p.pos <= tok.start /\ tok.end # -1
    BY <2>1, <2>2, <2>4
  <2>. QED BY <2>3, <2>5
<1>7. ASSUME IsLeaf(r, r2, lex)
      PROVE  u.err \in {"none", "nomem"} /\ (u.err = "none" => Alike(r2, u))
  <2>1. PICK tok :
           /\ tok.type = lex.c /\ tok.text = lex.text /\ tok.size = 0
           /\ tok.start \in Nat /\ p.pos <= tok.start /\ tok.end # -1
           /\ u.toksuper = p.toksuper
           /\ \/ u.err = "nomem"
              \/ u.err = "none" /\ Grown(p.toks, u.toks, p.toksuper, tok)
    BY <1>6, <1>7 DEF IsLeaf
  <2>2. CASE u.err = "none"
    <3>1. Alike(Over([r EXCEPT !.tree = WithNode(r, tok.type, tok.text)]), u)
      BY <1>1, <1>2, <1>7, <2>1, <2>2, LeafKeeps DEF IsLeaf
    <3>. QED BY <1>7, <2>1, <2>2, <3>1 DEF IsLeaf
  <2>. QED BY <2>1, <2>2
<1>8. ASSUME IsKey(r, r2, lex)
      PROVE  u.err \in {"none", "nomem"} /\ (u.err = "none" => Alike(r2, u))
  <2>1. PICK tok :
           /\ tok.type = lex.c /\ tok.text = lex.text /\ tok.size = 0
           /\ tok.start \in Nat /\ p.pos <= tok.start /\ tok.end # -1
           /\ \/ u.err = "nomem"
              \/ u.err = "none" /\ Grown(p.toks, u.toks, p.toksuper, tok)
    BY <1>6, <1>8 DEF IsKey
  <2>2. CASE u.err = "none"
    <3>0. ~Container(tok.type) /\ tok.type = "string"
      BY <1>8, <2>1 DEF Container, IsKey
    <3>1. Alike(Opened(r, tok.type, tok.text, "colon"), u)
      BY <1>1, <1>2, <1>8, <2>1, <2>2, <3>0, PushKeeps
           DEF IsKey
    <3>. QED BY <1>8, <2>1, <2>2, <3>0, <3>1 DEF IsKey
  <2>. QED BY <2>1, <2>2
<1>9. ASSUME IsMark(r, p, r2, u)
      PROVE  u.err \in {"none", "nomem"} /\ (u.err = "none" => Alike(r2, u))
  <2>1. Alike(r2, u)
    BY <1>1, <1>9, MarkKeeps DEF IsMark
  <2>2. u.err = p.err
    <3>1. CASE u = [p EXCEPT !.toksuper = Len(p.toks)]
      <4>1. Len(p.toks) \in 0..Len(p.toks)
        BY <1>1, LenProperties, UpTo
      <4>. QED BY <1>1, <3>1, <4>1, MarksMove
    <3>2. CASE u = Comma(p)
      BY <1>1, <3>2, MarksMove
    <3>. QED BY <1>9, <3>1, <3>2 DEF IsMark
  <2>. QED BY <2>1, <2>2
<1>10. ASSUME NEW type \in {"object", "array"}, Ends(r, p, r2, u, type)
       PROVE  u.err \in {"none", "nomem"} /\ (u.err = "none" => Alike(r2, u))
  <2>1. u.err = "none" /\ Alike(Over([r EXCEPT !.stack = Front(@)]), u)
    BY <1>10, CloseKeeps DEF Ends
  <2>. QED BY <1>10, <2>1 DEF Ends
<1>11. \/ \E type \in {"object", "array"} : Begins(r, p, r2, u, type)
       \/ IsLeaf(r, r2, lex) \/ IsKey(r, r2, lex)
       \/ IsMark(r, p, r2, u)
       \/ \E type \in {"object", "array"} : Ends(r, p, r2, u, type)
  BY <1>1, BothCases DEF r2, u
<1>12. u.err \in {"none", "nomem"} /\ (u.err = "none" => Alike(r2, u))
  BY <1>5, <1>7, <1>8, <1>9, <1>10, <1>11
<1>. QED BY <1>2, <1>3, <1>12 DEF q, r2

LEMMA ReaderInitIs ==
    ASSUME NEW W
    PROVE  /\ ReaderInit \in ReadersOver(W)
           /\ Alike(ReaderInit, ParserInit)
<1>1. PICK F \in Seq(NodesOver(W)) : F = <<>> /\ Len(F) = 0
  BY EmptySeq
<1>2. PICK S \in Seq(Nat) : S = <<>> /\ Len(S) = 0
  BY EmptySeq
<1>3. ReaderInit = [tree |-> F, stack |-> S, mode |-> "next"]
  BY <1>1, <1>2 DEF ReaderInit
<1>4. PICK r : r = ReaderInit
  OBVIOUS
<1>5. /\ r \in [tree : Seq(NodesOver(W)), stack : Seq(Nat),
                mode : {"first", "next", "colon", "rest", "bad"}]
      /\ r.tree = F /\ r.stack = S /\ r.mode = "next"
  BY <1>3, <1>4
<1>6. Top(r) = 0
  BY <1>2, <1>5 DEF Top
<1>7. Len(ParserInit.toks) = 0 /\ ParserInit.toksuper = 0
  BY InitIsSound
<1>8. TreeInv(r.tree, ParserInit.toks, OpenNodes(r.stack))
  BY <1>1, <1>5, <1>7 DEF TreeInv
<1>9. StackInv(r.tree, r.stack)
  BY <1>2, <1>5 DEF StackInv
<1>10. Marked(r.tree, ParserInit.toks, OpenNodes(r.stack), Top(r), r.mode,
              ParserInit.toksuper)
  BY <1>5, <1>6, <1>7 DEF Marked
<1>11. \A d \in 1..Len(r.stack) : r.stack[d] \in 1..Len(r.tree)
  BY <1>2, <1>5
<1>. QED BY <1>4, <1>5, <1>8, <1>9, <1>10, <1>11 DEF Alike, ReadersOver

(* The reader after each lexeme. *)
LEMMA ReadIs ==
    ASSUME NEW W, Texts(W), NEW text \in Seq(LexemesOver(W))
    PROVE  \E f \in [0..Len(text) -> ReadersOver(W)] :
              /\ f[0] = ReaderInit /\ Read(text) = f[Len(text)]
              /\ \A i \in 1..Len(text) : f[i] = Reads(f[i - 1], text[i])
<1>. DEFINE n == Len(text)
            A == ReadersOver(W)
            Eq(f) == f = [i \in 0..n |-> IF i = 0 THEN ReaderInit
                                         ELSE Reads(f[i - 1], text[i])]
            h == CHOOSE f : Eq(f)
            g == [x \in (1..n) \X A |-> Reads(x[2], text[x[1]])]
<1>1. n \in Nat /\ \A i \in 1..n : text[i] \in LexemesOver(W)
  BY LenProperties, ElementOfSeq
<1>2. ReaderInit \in A
  BY ReaderInitIs
<1>3. \A r \in A : \A i \in 1..n : Reads(r, text[i]) \in A
  BY <1>1, ReadsStays
<1>4. g \in [(1..n) \X A -> A]
  BY <1>3
<1>5. \A i \in 1..n, r \in A : g[<<i, r>>] = Reads(r, text[i])
  OBVIOUS
<1>. HIDE DEF A, n, g
<1>6. PICK f : /\ f \in [0..n -> A] /\ f[0] = ReaderInit
               /\ \A i \in 1..n : f[i] = g[<<i, f[i - 1]>>]
  <2>1. \E f : Iterates(A, ReaderInit, n, g, f)
    BY <1>1, <1>2, <1>4, Iterated
  <2>. QED BY <2>1 DEF Iterates
<1>7. \A i \in 1..n : f[i - 1] \in A /\ f[i] = Reads(f[i - 1], text[i])
  <2>. TAKE i \in 1..n
  <2>1. i - 1 \in 0..n
    BY <1>1
  <2>. QED BY <1>5, <1>6, <2>1
<1>8. Eq(f)
  <2>1. \A i \in 0..n : i = 0 \/ i \in 1..n
    BY <1>1
  <2>. QED BY <1>6, <1>7, <2>1
<1>9. Eq(h)
  BY <1>8
<1>10. Read(text) = h[n]
  BY DEF Read, n
<1>. HIDE DEF h
<1>11. h = f
  <2>. DEFINE S == {i \in 0..n : h[i] = f[i]}
  <2>1. 0 \in S
    BY <1>1, <1>6, <1>9
  <2>2. ASSUME NEW i \in 0..n, i < n, i \in S PROVE i + 1 \in S
    <3>1. i + 1 \in 1..n /\ i + 1 \in 0..n /\ (i + 1) - 1 = i /\ i + 1 # 0
      BY <1>1, <2>2
    <3>2. h[i + 1] = Reads(h[i], text[i + 1])
      BY <1>1, <1>9, <3>1
    <3>3. f[i + 1] = Reads(f[i], text[i + 1])
      BY <1>7, <3>1
    <3>. QED BY <2>2, <3>1, <3>2, <3>3
  <2>3. \A i \in 0..n : i \in S
    <3>. HIDE DEF S
    <3>. QED BY <1>1, <2>1, <2>2, Upwards
  <2>4. h = [i \in 0..n |-> h[i]]
    BY <1>9
  <2>5. f = [i \in 0..n |-> f[i]]
    BY <1>6
  <2>. QED BY <2>3, <2>4, <2>5
<1>. QED BY <1>6, <1>7, <1>10, <1>11 DEF A, n

(* What a lexeme does to the tree and the stack. *)
NodePushed(r, r2, type, text) ==
    /\ GrownTree(r.tree, r2.tree, Top(r), type, text)
    /\ r2.stack = Append(r.stack, Len(r.tree) + 1)
    /\ type = "string" => Within(r, "object")

LeafAdded(r, r2, type, text) ==
    /\ GrownTree(r.tree, r2.tree, Top(r), type, text)
    /\ ValueMayCome(r) /\ r2.mode = "rest"
    /\ \/ r2.stack = r.stack /\ ~Within(r, "string")
       \/ Within(r, "string") /\ r2.stack = Front(r.stack)

NoNode(r, r2) ==
    /\ r2.tree = r.tree
    /\ OpenNodes(r2.stack) \subseteq OpenNodes(r.stack)

OfNode(lex) == lex.c \in {"{", "[", "string", "primitive"}

LEMMA OpenPopped ==
    ASSUME NEW S \in Seq(Nat), Len(S) # 0
    PROVE  OpenNodes(Front(S)) \subseteq OpenNodes(S)
BY FrontIs DEF OpenNodes

LEMMA PushIs ==
    ASSUME NEW W, NEW r \in ReadersOver(W), NEW type \in Types, NEW text \in W,
           NEW mode, NEW r2, r2 = Opened(r, type, text, mode),
           type = "string" => Within(r, "object")
    PROVE  NodePushed(r, r2, type, text)
<1>1. GrownTree(r.tree, WithNode(r, type, text), Top(r), type, text)
  BY WithNodeIs
<1>2. /\ r2.tree = WithNode(r, type, text)
      /\ r2.stack = Append(r.stack, Len(r.tree) + 1)
  BY DEF Opened
<1>. QED BY <1>1, <1>2 DEF NodePushed

LEMMA LeafIs ==
    ASSUME NEW W, NEW r \in ReadersOver(W), NEW type \in Types, NEW text \in W,
           ValueMayCome(r), NEW r2,
           r2 = Over([r EXCEPT !.tree = WithNode(r, type, text)])
    PROVE  LeafAdded(r, r2, type, text)
<1>. DEFINE G == WithNode(r, type, text)
            r1 == [r EXCEPT !.tree = G]
<1>1. GrownTree(r.tree, G, Top(r), type, text)
  BY WithNodeIs
<1>2. /\ r1.tree = G /\ r1.stack = r.stack /\ r1.mode = r.mode
      /\ r1 = [tree |-> G, stack |-> r.stack, mode |-> r.mode]
  BY DEF ReadersOver
<1>3. Top(r1) = Top(r) /\ Top(r) \in 0..Len(r.tree)
  BY <1>2, TopIs DEF Top
<1>4. Within(r1, "string") <=> Within(r, "string")
  <2>1. CASE Top(r) = 0
    BY <1>3, <2>1 DEF Within
  <2>2. CASE Top(r) # 0
    <3>1. Top(r) \in 1..Len(r.tree)
      BY <1>3, <2>2
    <3>2. G[Top(r)].type = r.tree[Top(r)].type
      BY <1>1, <3>1 DEF GrownTree
    <3>. QED BY <1>2, <1>3, <3>2 DEF Within
  <2>. QED BY <2>1, <2>2
<1>5. /\ r2.tree = G /\ r2.mode = "rest"
      /\ r2.stack = IF Within(r1, "string") THEN Front(r.stack) ELSE r.stack
  <2>1. r2 = Over(r1)
    OBVIOUS
  <2>. HIDE DEF G, r1
  <2>2. r2 = [r1 EXCEPT !.mode = "rest",
                        !.stack = IF Within(r1, "string") THEN Front(@) ELSE @]
    BY <2>1 DEF Over
  <2>. QED BY <1>2, <2>2
<1>. QED BY <1>1, <1>4, <1>5 DEF LeafAdded

LEMMA ReaderSteps ==
    ASSUME NEW W, Texts(W), NEW r \in ReadersOver(W), NEW lex \in LexemesOver(W)
    PROVE  LET r2 == Reads(r, lex)
           IN  \/ /\ OfNode(lex) /\ lex.c # "primitive"
                  /\ \E type \in {"object", "array", "string"}, text \in W :
                        NodePushed(r, r2, type, text)
               \/ /\ lex.c \in {"string", "primitive"}
                  /\ \E text \in W : LeafAdded(r, r2, lex.c, text)
               \/ NoNode(r, r2) /\ (~OfNode(lex) \/ r2.mode = "bad")
<1>. DEFINE r2 == Reads(r, lex)
<1>0. NoText \in W /\ lex.text \in W
  BY WidthIs, Zenon DEF Texts, NoText
<1>1. ASSUME NEW type \in {"object", "array"},
             r2 = Opened(r, type, NoText, "first")
      PROVE  \E text \in W : NodePushed(r, r2, type, text)
  <2>. HIDE DEF r2
  <2>1. NodePushed(r, r2, type, NoText)
    BY <1>0, <1>1, PushIs DEF Types
  <2>. QED BY <1>0, <2>1
<1>2. ASSUME KeyMayCome(r), r2 = Opened(r, "string", lex.text, "colon")
      PROVE  \E text \in W : NodePushed(r, r2, "string", text)
  <2>. HIDE DEF r2
  <2>1. NodePushed(r, r2, "string", lex.text)
    BY <1>0, <1>2, PushIs DEF Types, KeyMayCome
  <2>. QED BY <1>0, <2>1
<1>3. ASSUME lex.c \in {"string", "primitive"}, ValueMayCome(r),
             r2 = Over([r EXCEPT !.tree = WithNode(r, lex.c, lex.text)])
      PROVE  \E text \in W : LeafAdded(r, r2, lex.c, text)
  <2>. HIDE DEF r2
  <2>1. lex.c \in Types
    BY <1>3 DEF Types
  <2>2. LeafAdded(r, r2, lex.c, lex.text)
    BY <1>0, <1>3, <2>1, LeafIs
  <2>. QED BY <1>0, <2>2
<1>4. ASSUME NEW mode, r2 = [r EXCEPT !.mode = mode]
      PROVE  NoNode(r, r2) /\ r2.mode = mode
  <2>. HIDE DEF r2
  <2>1. r2.tree = r.tree /\ r2.stack = r.stack /\ r2.mode = mode
    BY <1>4 DEF ReadersOver
  <2>. QED BY <2>1 DEF NoNode
<1>5. ASSUME NEW type \in {"object", "array"}, EndMayCome(r, type),
             r2 = Over([r EXCEPT !.stack = Front(@)])
      PROVE  NoNode(r, r2)
  <2>. DEFINE r1 == [r EXCEPT !.stack = Front(@)]
  <2>. HIDE DEF r2
  <2>1. /\ r1.tree = r.tree /\ r1.stack = Front(r.stack)
        /\ r1 = [tree |-> r.tree, stack |-> Front(r.stack), mode |-> r.mode]
    BY DEF ReadersOver
  <2>2. r.stack \in Seq(Nat) /\ Len(r.stack) # 0
    BY <1>5, TopIs DEF EndMayCome, Within, ReadersOver
  <2>3. r2 = Over(r1)
    BY <1>5
  <2>. HIDE DEF r1
  <2>4. r2.tree = r.tree
        /\ r2.stack = IF Within(r1, "string") THEN Front(r1.stack) ELSE r1.stack
    BY <2>1, <2>3 DEF Over
  <2>5. OpenNodes(Front(r.stack)) \subseteq OpenNodes(r.stack)
    BY <2>2, OpenPopped
  <2>6. CASE Within(r1, "string")
    <3>1. r1.stack # <<>>
      BY <2>6 DEF Within, Top
    <3>2. r1.stack \in Seq(Nat) /\ Len(r1.stack) # 0
      BY <2>1, <2>2, <3>1, FrontIs, EmptySeq
    <3>3. OpenNodes(Front(r1.stack)) \subseteq OpenNodes(r1.stack)
      BY <3>2, OpenPopped
    <3>. QED BY <2>1, <2>4, <2>5, <2>6, <3>3 DEF NoNode
  <2>7. CASE ~Within(r1, "string")
    BY <2>1, <2>4, <2>5, <2>7 DEF NoNode
  <2>. QED BY <2>6, <2>7
<1>6. "object" \in {"object", "array"} /\ "array" \in {"object", "array"}
  OBVIOUS
<1>7. PICK u : u = r2
  OBVIOUS
<1>8. \/ lex.c = "{" /\ u = Opened(r, "object", NoText, "first")
      \/ lex.c = "[" /\ u = Opened(r, "array", NoText, "first")
      \/ /\ lex.c \in {"string", "primitive"} /\ ValueMayCome(r)
         /\ u = Over([r EXCEPT !.tree = WithNode(r, lex.c, lex.text)])
      \/ /\ lex.c = "string" /\ KeyMayCome(r)
         /\ u = Opened(r, "string", lex.text, "colon")
      \/ lex.c \in {":", ","} /\ u = [r EXCEPT !.mode = "next"]
      \/ /\ lex.c = "}" /\ EndMayCome(r, "object")
         /\ u = Over([r EXCEPT !.stack = Front(@)])
      \/ /\ lex.c = "]" /\ EndMayCome(r, "array")
         /\ u = Over([r EXCEPT !.stack = Front(@)])
      \/ u = [r EXCEPT !.mode = "bad"]
  BY <1>7, ReadsCases, Zenon DEF NoText
<1>9. ASSUME NEW type \in {"object", "array"}, OfNode(lex), lex.c # "primitive",
             u = Opened(r, type, NoText, "first")
      PROVE  \E t \in {"object", "array", "string"}, text \in W :
                NodePushed(r, u, t, text)
  BY <1>1, <1>7, <1>9
<1>10. CASE lex.c = "{" /\ u = Opened(r, "object", NoText, "first")
  BY <1>6, <1>7, <1>9, <1>10, Zenon DEF OfNode
<1>11. CASE lex.c = "[" /\ u = Opened(r, "array", NoText, "first")
  BY <1>6, <1>7, <1>9, <1>11, Zenon DEF OfNode
<1>12. CASE /\ lex.c \in {"string", "primitive"} /\ ValueMayCome(r)
            /\ u = Over([r EXCEPT !.tree = WithNode(r, lex.c, lex.text)])
  BY <1>3, <1>7, <1>12, Zenon
<1>13. CASE /\ lex.c = "string" /\ KeyMayCome(r)
            /\ u = Opened(r, "string", lex.text, "colon")
  <2>1. "string" \in {"object", "array", "string"}
    OBVIOUS
  <2>. QED BY <1>2, <1>7, <1>13, <2>1, Zenon DEF OfNode
<1>14. CASE lex.c \in {":", ","} /\ u = [r EXCEPT !.mode = "next"]
  BY <1>4, <1>7, <1>14, Zenon DEF OfNode
<1>15. CASE /\ lex.c = "}" /\ EndMayCome(r, "object")
            /\ u = Over([r EXCEPT !.stack = Front(@)])
  BY <1>5, <1>6, <1>7, <1>15, Zenon DEF OfNode
<1>16. CASE /\ lex.c = "]" /\ EndMayCome(r, "array")
            /\ u = Over([r EXCEPT !.stack = Front(@)])
  BY <1>5, <1>6, <1>7, <1>16, Zenon DEF OfNode
<1>17. CASE u = [r EXCEPT !.mode = "bad"]
  BY <1>4, <1>7, <1>17, Zenon
<1>. QED BY <1>7, <1>8, <1>10, <1>11, <1>12, <1>13, <1>14, <1>15, <1>16, <1>17,
            Zenon

LEMMA TreeGrows ==
    ASSUME NEW W, Texts(W), NEW r \in ReadersOver(W), NEW lex \in LexemesOver(W)
    PROVE  LET r2 == Reads(r, lex)
           IN  /\ Len(r.tree) \in Nat /\ Len(r2.tree) \in Nat
               /\ Len(r.tree) <= Len(r2.tree)
               /\ OfNode(lex) /\ r2.mode # "bad" =>
                     Len(r2.tree) = Len(r.tree) + 1
<1>. PICK r2 : r2 = Reads(r, lex)
  OBVIOUS
<1>1. Len(r.tree) \in Nat
  BY TopIs
<1>2. \/ Len(r2.tree) = Len(r.tree) + 1
      \/ Len(r2.tree) = Len(r.tree) /\ (~OfNode(lex) \/ r2.mode = "bad")
  BY ReaderSteps, Zenon DEF NodePushed, LeafAdded, NoNode, GrownTree
<1>. QED BY <1>1, <1>2

(* jsmn_parse() has no room for a token when the table is full, and no      *)
(* other reason not to go on with a text that is JSON.                      *)
LEMMA AllocFails ==
    ASSUME NEW W, NEW p \in ParsersOver(W), NEW type, NEW start, NEW end,
           NEW text, p.err = "none", Alloc(p, type, start, end, text).err = "nomem"
    PROVE  Len(p.toks) = JP_MAX_TOKENS
<1>. SUFFICES ASSUME Len(p.toks) # JP_MAX_TOKENS PROVE FALSE
  OBVIOUS
<1>1. \E toks : Alloc(p, type, start, end, text) = [p EXCEPT !.toks = toks]
  BY DEF Alloc
<1>2. \A toks : [p EXCEPT !.toks = toks].err = "none"
  BY DEF ParsersOver
<1>. QED BY <1>1, <1>2

LEMMA OpenFails ==
    ASSUME NEW W, NEW p \in ParsersOver(W), NEW type, p.err = "none",
           OpenContainer(p, type).err = "nomem"
    PROVE  Len(p.toks) = JP_MAX_TOKENS
<1>. PICK q : q = Alloc(p, type, p.pos, -1, NoText)
  OBVIOUS
<1>1. OpenContainer(p, type) =
         IF q.err = "none" THEN [q EXCEPT !.toksuper = Len(q.toks)] ELSE q
  BY DEF OpenContainer, NoText
<1>2. q.err # "none"
  <2>. SUFFICES ASSUME q.err = "none" PROVE FALSE
    OBVIOUS
  <2>1. OpenContainer(p, type) = [q EXCEPT !.toksuper = Len(q.toks)]
    BY <1>1
  <2>2. [q EXCEPT !.toksuper = Len(q.toks)].err = q.err
    OBVIOUS
  <2>. QED BY <2>1, <2>2
<1>3. q.err = "nomem"
  BY <1>1, <1>2
<1>. QED BY <1>3, AllocFails

LEMMA NoRoom ==
    ASSUME NEW W, Texts(W), NEW p \in SoundParsers(W), NEW lex \in LexemesOver(W),
           p.err = "none", Step(p, lex).err = "nomem"
    PROVE  OfNode(lex) /\ Len(p.toks) = JP_MAX_TOKENS
<1>. PICK u : u = Scan(p, lex)
  OBVIOUS
<1>1. p \in ParsersOver(W) /\ u.err = "nomem"
  BY StepIs DEF SoundParsers
<1>2. CASE lex.c \in {"{", "["}
  <2>1. PICK type : u = OpenContainer(p, type)
    BY <1>1, <1>2, OpensIs, Zenon
  <2>2. Len(p.toks) = JP_MAX_TOKENS
    BY <1>1, <2>1, OpenFails
  <2>. QED BY <1>2, <2>2, Zenon DEF OfNode
<1>3. CASE lex.c = "string"
  <2>1. Len(p.toks) = JP_MAX_TOKENS
    BY <1>1, <1>3, StringIs, AllocFails, Zenon
  <2>. QED BY <1>3, <2>1, Zenon DEF OfNode
<1>4. CASE lex.c = "primitive"
  <2>1. Len(p.toks) = JP_MAX_TOKENS
    BY <1>1, <1>4, PrimitiveIs, AllocFails, Zenon
  <2>. QED BY <1>4, <2>1, Zenon DEF OfNode
<1>5. CASE lex.c \in {"}", "]"}
  <2>1. PICK type : u = CloseContainer(p, type)
    BY <1>1, <1>5, ClosesIs, Zenon
  <2>2. u.err \in {"none", "inval"}
    BY <1>1, <2>1, CloseIs
  <2>. QED BY <1>1, <2>2
<1>6. CASE lex.c = ":"
  <2>1. p \in ParsersOver(W) /\ lex.c = ":"
    BY <1>1, <1>6
  <2>2. Scan(p, lex) = [p EXCEPT !.toksuper = Len(p.toks)]
    BY <2>1, ColonIs
  <2>3. u.err = "none"
    BY <2>1, <2>2 DEF ParsersOver
  <2>. QED BY <1>1, <2>3
<1>7. CASE lex.c = ","
  <2>1. u = Comma(p)
    BY <1>1, <1>7, CommaIs, Zenon
  <2>2. u.err = "none"
    BY <1>1, <2>1 DEF ParsersOver, Comma
  <2>. QED BY <1>1, <2>2
<1>8. lex.c \in {"{", "}", "[", "]", ":", ",", "string", "primitive"}
  BY Zenon DEF LexemesOver
<1>. QED BY <1>2, <1>3, <1>4, <1>5, <1>6, <1>7, <1>8, Zenon

(* The reader and the parser, lexeme by lexeme. *)
InStep(r, p) ==
    r.mode # "bad" =>
       /\ p.err \in {"none", "nomem"}
       /\ p.err = "none" => Alike(r, p)
       /\ p.err = "nomem" => Len(r.tree) > JP_MAX_TOKENS

LEMMA InStepKept ==
    ASSUME NEW W, Texts(W), NEW r \in ReadersOver(W), NEW p \in SoundParsers(W),
           NEW lex \in LexemesOver(W), InStep(r, p)
    PROVE  InStep(Reads(r, lex), Step(p, lex))
<1>. SUFFICES ASSUME Reads(r, lex).mode # "bad"
              PROVE  /\ Step(p, lex).err \in {"none", "nomem"}
                     /\ Step(p, lex).err = "none" =>
                           Alike(Reads(r, lex), Step(p, lex))
                     /\ Step(p, lex).err = "nomem" =>
                           Len(Reads(r, lex).tree) > JP_MAX_TOKENS
  BY DEF InStep
<1>1. r.mode # "bad"
  BY BadStays
<1>2. /\ Len(r.tree) \in Nat /\ Len(Reads(r, lex).tree) \in Nat
      /\ Len(r.tree) <= Len(Reads(r, lex).tree)
      /\ OfNode(lex) => Len(Reads(r, lex).tree) = Len(r.tree) + 1
  BY TreeGrows
<1>3. JP_MAX_TOKENS \in Nat
  BY TokensAssumption
<1>4. CASE p.err = "none"
  <2>1. Alike(r, p)
    BY <1>1, <1>4 DEF InStep
  <2>2. Len(r.tree) = Len(p.toks)
    BY <2>1 DEF Alike, TreeInv
  <2>3. ASSUME Step(p, lex).err = "nomem"
        PROVE  Len(Reads(r, lex).tree) > JP_MAX_TOKENS
    <3>1. OfNode(lex) /\ Len(p.toks) = JP_MAX_TOKENS
      BY <1>4, <2>3, NoRoom
    <3>. QED BY <1>2, <1>3, <2>2, <3>1
  <2>4. /\ Step(p, lex).err \in {"none", "nomem"}
        /\ Step(p, lex).err = "none" => Alike(Reads(r, lex), Step(p, lex))
    BY <1>4, <2>1, AlikeStep
  <2>. QED BY <2>3, <2>4
<1>5. CASE p.err # "none"
  <2>1. Step(p, lex) = p
    BY <1>5, StepIs
  <2>2. p.err = "nomem" /\ Len(r.tree) > JP_MAX_TOKENS
    BY <1>1, <1>5 DEF InStep
  <2>. QED BY <1>2, <1>3, <2>1, <2>2
<1>. QED BY <1>4, <1>5

LEMMA Lockstep ==
    ASSUME NEW W, Texts(W), NEW text \in Seq(LexemesOver(W))
    PROVE  \E f \in [0..Len(text) -> ReadersOver(W)],
              h \in [0..Len(text) -> SoundParsers(W)] :
              /\ f[0] = ReaderInit /\ Read(text) = f[Len(text)]
              /\ \A i \in 1..Len(text) : f[i] = Reads(f[i - 1], text[i])
              /\ h[0] = ParserInit /\ Parsed(text) = h[Len(text)]
              /\ \A i \in 1..Len(text) : h[i] = Step(h[i - 1], text[i])
              /\ \A i \in 0..Len(text) : InStep(f[i], h[i])
<1>. DEFINE n == Len(text)
<1>1. n \in Nat /\ \A i \in 1..n : text[i] \in LexemesOver(W)
  BY LenProperties, ElementOfSeq
<1>. HIDE DEF n
<1>2. PICK f \in [0..n -> ReadersOver(W)] :
              /\ f[0] = ReaderInit /\ Read(text) = f[n]
              /\ \A i \in 1..n : f[i] = Reads(f[i - 1], text[i])
  BY ReadIs DEF n
<1>3. PICK h \in [0..n -> SoundParsers(W)] :
              /\ h[0] = ParserInit /\ Parsed(text) = h[n]
              /\ \A i \in 1..n : h[i] = Step(h[i - 1], text[i])
  BY ParsedIs DEF n
<1>. DEFINE S == {i \in 0..n : InStep(f[i], h[i])}
<1>4. 0 \in S
  <2>1. h[0].err = "none" /\ Alike(f[0], h[0])
    BY <1>2, <1>3, ReaderInitIs, InitIsSound
  <2>. QED BY <1>1, <2>1 DEF InStep
<1>5. ASSUME NEW i \in 0..n, i < n, i \in S PROVE i + 1 \in S
  <2>1. i + 1 \in 1..n /\ i + 1 \in 0..n /\ (i + 1) - 1 = i
    BY <1>1, <1>5
  <2>2. /\ f[i + 1] = Reads(f[i], text[i + 1])
        /\ h[i + 1] = Step(h[i], text[i + 1])
        /\ f[i] \in ReadersOver(W) /\ h[i] \in SoundParsers(W)
        /\ text[i + 1] \in LexemesOver(W)
    BY <1>1, <1>2, <1>3, <2>1
  <2>3. InStep(f[i], h[i])
    BY <1>5
  <2>4. InStep(f[i + 1], h[i + 1])
    BY <2>2, <2>3, InStepKept
  <2>. QED BY <2>1, <2>4
<1>6. \A i \in 0..n : i \in S
  <2>. HIDE DEF S
  <2>. QED BY <1>1, <1>4, <1>5, Upwards
<1>. QED BY <1>2, <1>3, <1>6 DEF n

(* The whole text: no error but for want of room, and no tree but one.      *)
LEMMA ParsedAlike ==
    ASSUME NEW W, Texts(W), NEW text \in Seq(LexemesOver(W)),
           Read(text).mode # "bad"
    PROVE  /\ Read(text) \in ReadersOver(W) /\ Parsed(text) \in SoundParsers(W)
           /\ Parsed(text).err \in {"none", "nomem"}
           /\ Parsed(text).err = "none" => Alike(Read(text), Parsed(text))
           /\ Parsed(text).err = "nomem" => Len(Read(text).tree) > JP_MAX_TOKENS
<1>1. PICK f \in [0..Len(text) -> ReadersOver(W)],
           h \in [0..Len(text) -> SoundParsers(W)] :
         /\ Read(text) = f[Len(text)] /\ Parsed(text) = h[Len(text)]
         /\ \A i \in 0..Len(text) : InStep(f[i], h[i])
  BY Lockstep
<1>2. Len(text) \in 0..Len(text)
  BY LenProperties
<1>. QED BY <1>1, <1>2 DEF InStep

(* jp_find() walks over the keys of the object itself. *)
LEMMA FindIs ==
    ASSUME NEW W, NEW T \in Seq(TokensOver(W)), NEW F \in Seq(NodesOver(W)),
           TreeInv(F, T, {}), NEW obj \in 1..Len(T), T[obj].type = "object",
           NEW key
    PROVE  JpFind(T, obj, key) = ValueOf(F, obj, key)
<1>. DEFINE n == T[obj].size
            K == F[obj].kids
            Eq(f) == f = [k \in 1..n |-> IF k = 1 THEN obj + 1
                                         ELSE JpSkip(T, f[k - 1] + 1)]
            h == CHOOSE f : Eq(f)
            g == [k \in 1..n |-> K[k]]
            Found == {k \in 1..n : h[k] + 1 <= Len(T) /\ JpTokEq(T[h[k]], key)}
            Named == {k \in DOMAIN K : F[K[k]].text = key}
<1>1. /\ Len(T) \in Nat /\ Len(F) = Len(T) /\ n \in Nat /\ n = Len(K)
      /\ K \in Seq(Nat) /\ DOMAIN K = 1..n /\ F[obj].type = "object"
  <2>1. Len(T) \in Nat /\ Len(F) = Len(T)
    BY LenProperties DEF TreeInv
  <2>2. n = Len(K) /\ F[obj].type = "object"
    BY DEF TreeInv, TokenOf
  <2>3. K \in Seq(Nat) /\ Len(K) \in Nat
    BY <2>1, NodeIs
  <2>. QED BY <2>1, <2>2, <2>3, LenProperties
<1>2. ASSUME NEW k \in 1..n
      PROVE  /\ K[k] \in 1..Len(T) /\ K[k] \in Nat /\ K[k] + 1 <= Len(T)
             /\ k = 1 => K[k] = obj + 1
             /\ T[K[k]].type = "string" /\ T[K[k]].text = F[K[k]].text
             /\ F[K[k]].kids[1] = K[k] + 1
             /\ k < n => K[k + 1] = JpSkip(T, K[k] + 1)
  <2>. DEFINE q == K[k]
  <2>1. KidIs(F, T, {}, obj, k)
    BY <1>1 DEF TreeInv
  <2>2. /\ q \in 1..Len(T) /\ (k = 1 => q = obj + 1)
        /\ F[q].type = "string" /\ Len(F[q].kids) # 0
        /\ k < n => K[k + 1] = Past(F, T, q)
    BY <1>1, <2>1 DEF KidIs
  <2>. HIDE DEF q, K, n
  <2>3. Past(F, T, q) = JpSkip(T, q + 1)
    BY <2>2 DEF Past
  <2>4. TokenOf(F, T, {}, q)
    BY <2>2 DEF TreeInv
  <2>5. Len(F[q].kids) \in Nat
    BY <1>1, <2>2, NodeIs
  <2>6. 1 \in 1..Len(F[q].kids)
    BY <2>2, <2>5
  <2>7. KidIs(F, T, {}, q, 1)
    BY <2>2, <2>6 DEF TreeInv
  <2>8. F[q].kids[1] = q + 1 /\ q + 1 \in 1..Len(T)
    BY <2>7 DEF KidIs
  <2>9. q \in Nat /\ q + 1 <= Len(T)
    BY <1>1, <2>2, <2>8
  <2>. QED BY <2>2, <2>3, <2>4, <2>8, <2>9 DEF TokenOf, q
<1>3. Eq(g)
  <2>1. ASSUME NEW k \in 1..n
        PROVE  g[k] = IF k = 1 THEN obj + 1 ELSE JpSkip(T, g[k - 1] + 1)
    <3>1. CASE k = 1
      BY <1>2, <3>1
    <3>2. CASE k # 1
      <4>. HIDE DEF n, K
      <4>1. k - 1 \in 1..n /\ k - 1 < n /\ (k - 1) + 1 = k
        BY <1>1, <3>2
      <4>2. K[k] = JpSkip(T, K[k - 1] + 1)
        BY <1>2, <4>1
      <4>. QED BY <3>2, <4>1, <4>2
    <3>. QED BY <3>1, <3>2
  <2>. HIDE DEF n, K
  <2>. QED BY <2>1
<1>4. Eq(h)
  <2>. HIDE DEF g, n
  <2>. QED BY <1>3
<1>5. JpFind(T, obj, key) = IF Found = {} THEN 0 ELSE h[Min(Found)] + 1
  <2>1. ~(obj = 0 \/ obj > Len(T) \/ T[obj].type # "object")
    BY <1>1
  <2>. QED BY <2>1, Zenon DEF JpFind
<1>. HIDE DEF h, n, K
<1>6. ASSUME NEW k \in 1..n PROVE h[k] = K[k]
  <2>. DEFINE S == {i \in 0..n : i # 0 => h[i] = K[i]}
  <2>1. 0 \in S
    BY <1>1
  <2>2. ASSUME NEW i \in 0..n, i < n, i \in S PROVE i + 1 \in S
    <3>1. i + 1 \in 1..n /\ i + 1 \in 0..n /\ (i + 1) - 1 = i
      BY <1>1, <2>2
    <3>2. h[i + 1] = IF i + 1 = 1 THEN obj + 1 ELSE JpSkip(T, h[i] + 1)
      BY <1>4, <3>1
    <3>3. CASE i = 0
      BY <1>2, <3>1, <3>2, <3>3
    <3>4. CASE i # 0
      <4>1. i \in 1..n /\ h[i] = K[i] /\ i + 1 # 1
        BY <1>1, <2>2, <3>4
      <4>2. K[i + 1] = JpSkip(T, K[i] + 1)
        BY <1>2, <2>2, <4>1
      <4>. QED BY <3>1, <3>2, <4>1, <4>2
    <3>. QED BY <3>3, <3>4
  <2>3. \A i \in 0..n : i \in S
    <3>. HIDE DEF S
    <3>. QED BY <1>1, <2>1, <2>2, Upwards
  <2>4. k \in 0..n /\ k # 0
    BY <1>1
  <2>. QED BY <2>3, <2>4
<1>7. Found = Named
  <2>1. \A k \in 1..n : (h[k] + 1 <= Len(T) /\ JpTokEq(T[h[k]], key))
                           <=> F[K[k]].text = key
    BY <1>2, <1>6 DEF JpTokEq
  <2>. QED BY <1>1, <2>1
<1>8. ValueOf(F, obj, key) = IF Named = {} THEN 0
                             ELSE F[K[Min(Named)]].kids[1]
  BY DEF ValueOf, K
<1>9. CASE Named = {}
  BY <1>5, <1>7, <1>8, <1>9
<1>10. CASE Named # {}
  <2>1. Named \in SUBSET (1..n)
    BY <1>1
  <2>. HIDE DEF Named, Found
  <2>2. PICK m \in Named : \A i \in Named : m <= i
    <3>1. Named \in SUBSET Nat
      BY <1>1, <2>1
    <3>. QED BY <1>10, <3>1, LeastOf
  <2>3. Min(Named) \in Named
    BY <2>2 DEF Min
  <2>4. Min(Named) \in 1..n
    BY <2>1, <2>3
  <2>5. /\ h[Min(Named)] = K[Min(Named)]
        /\ F[K[Min(Named)]].kids[1] = K[Min(Named)] + 1
    BY <1>2, <1>6, <2>4
  <2>. QED BY <1>5, <1>7, <1>8, <1>10, <2>5
<1>. QED BY <1>9, <1>10

(* Of every text that JSON's grammar allows, the tokens are the tree, and   *)
(* jp_find() gives the value of the first member of that name, of the       *)
(* object itself; no name inside a value is taken for it (jsmn_parse,       *)
(* jp_find).                                                                *)
THEOREM TokensAreTheTree ==
    ASSUME NEW W, Texts(W), NEW text \in Seq(LexemesOver(W)), NEW keys
    PROVE  ReadAlike(text, keys)
<1>. DEFINE T == Tokenize(text)
            r == Read(text)
            F == r.tree
            p == Parsed(text)
<1>1. SUFFICES ASSUME WellFormed(text), T # <<>>
               PROVE  /\ Len(T) = Len(F)
                      /\ \A i \in DOMAIN T :
                            /\ T[i].type = F[i].type /\ T[i].text = F[i].text
                            /\ T[i].size = Len(F[i].kids)
                            /\ T[i].type = "object" =>
                                  \A key \in keys :
                                     JpFind(T, i, key) = ValueOf(F, i, key)
  BY DEF ReadAlike
<1>2. r.mode = "rest" /\ r.stack = <<>>
  BY <1>1 DEF WellFormed
<1>3. /\ r \in ReadersOver(W) /\ p \in SoundParsers(W)
      /\ p.err = "none" => Alike(r, p)
  BY <1>2, ParsedAlike
<1>4. p.err = "none" /\ T = p.toks
  BY <1>1, TokenizedIs
<1>5. F \in Seq(NodesOver(W)) /\ T \in Seq(TokensOver(W))
  BY <1>3, <1>4 DEF ReadersOver, SoundParsers, ParsersOver
<1>6. OpenNodes(r.stack) = {}
  <2>1. Len(<<>>) = 0
    BY EmptySeq
  <2>. QED BY <1>2, <2>1 DEF OpenNodes
<1>. HIDE DEF T, r, p
<1>7. TreeInv(F, T, {})
  BY <1>3, <1>4, <1>6 DEF Alike
<1>8. Len(T) = Len(F) /\ DOMAIN T = 1..Len(T)
  BY <1>5, <1>7, LenProperties DEF TreeInv
<1>9. ASSUME NEW i \in 1..Len(T)
      PROVE  /\ T[i].type = F[i].type /\ T[i].text = F[i].text
             /\ T[i].size = Len(F[i].kids)
             /\ T[i].type = "object" =>
                   \A key \in keys : JpFind(T, i, key) = ValueOf(F, i, key)
  <2>1. TokenOf(F, T, {}, i)
    BY <1>7 DEF TreeInv
  <2>2. T[i].type = "object" =>
           \A key \in keys : JpFind(T, i, key) = ValueOf(F, i, key)
    BY <1>5, <1>7, FindIs
  <2>. QED BY <2>1, <2>2 DEF TokenOf
<1>. QED BY <1>8, <1>9

-----------------------------------------------------------------------------
(* Inside an array a string is a value, and never a key. *)
ArrayKid(F, B, a, k) ==
    LET q == F[a].kids[k]
    IN  /\ q \in 1..Len(F)
        /\ F[a].type = "array" /\ F[q].type = "string" =>
              Len(F[q].kids) = 0 /\ q \notin B

ArrayInv(r) ==
    \A a \in 1..Len(r.tree) : \A k \in 1..Len(r.tree[a].kids) :
       ArrayKid(r.tree, OpenNodes(r.stack), a, k)

LEMMA ArrayGrows ==
    ASSUME NEW F, NEW G, NEW B, NEW C, NEW t \in B \cup {0}, NEW type, NEW text,
           Len(F) \in Nat, \A a \in 1..Len(F) : Len(F[a].kids) \in Nat,
           GrownTree(F, G, t, type, text), C \subseteq B \cup {Len(F) + 1},
           t # 0 => t \in 1..Len(F),
           type = "string" /\ t # 0 /\ F[t].type = "array" => Len(F) + 1 \notin C,
           \A a \in 1..Len(F) : \A k \in 1..Len(F[a].kids) : ArrayKid(F, B, a, k),
           NEW a \in 1..Len(G), NEW k \in 1..Len(G[a].kids)
    PROVE  ArrayKid(G, C, a, k)
<1>. PICK n \in Nat : n = Len(F)
  OBVIOUS
<1>1. /\ Len(G) = n + 1 /\ G[n + 1].type = type /\ Len(G[n + 1].kids) = 0
      /\ \A i \in 1..n : G[i].type = F[i].type
  BY DEF GrownTree
<1>2. a \in 1..n
  <2>1. a \in 1..n \/ a = n + 1
    BY <1>1
  <2>2. a # n + 1
    BY <1>1
  <2>. QED BY <2>1, <2>2
<1>3. CASE a = t /\ k = Len(F[a].kids) + 1
  <2>1. G[a].kids[k] = n + 1
    BY <1>2, <1>3 DEF GrownTree
  <2>2. n + 1 \in 1..Len(G)
    BY <1>1
  <2>3. t # 0 /\ G[a].type = F[t].type
    BY <1>1, <1>2, <1>3
  <2>. QED BY <1>1, <1>3, <2>1, <2>2, <2>3 DEF ArrayKid
<1>4. CASE ~(a = t /\ k = Len(F[a].kids) + 1)
  <2>. PICK q : q = F[a].kids[k]
    OBVIOUS
  <2>1. k \in 1..Len(F[a].kids) /\ G[a].kids[k] = q
    BY <1>2, <1>4 DEF GrownTree
  <2>2. /\ q \in 1..n
        /\ F[a].type = "array" /\ F[q].type = "string" =>
              Len(F[q].kids) = 0 /\ q \notin B
    BY <1>2, <2>1 DEF ArrayKid
  <2>3. q \in 1..(n + 1) /\ q # n + 1
    BY <2>2
  <2>4. q # t => G[q].kids = F[q].kids
    BY <2>2 DEF GrownTree
  <2>5. ASSUME F[a].type = "array", F[q].type = "string"
        PROVE  Len(G[q].kids) = 0 /\ q \notin C
    <3>1. q \notin B /\ q # t /\ Len(F[q].kids) = 0
      <4>1. q \notin B /\ Len(F[q].kids) = 0
        BY <2>2, <2>5
      <4>2. q # 0
        BY <2>2
      <4>. QED BY <4>1, <4>2
    <3>2. q \notin C
      BY <2>3, <3>1
    <3>. QED BY <2>4, <3>1, <3>2
  <2>. QED BY <1>1, <1>2, <2>1, <2>2, <2>3, <2>5 DEF ArrayKid
<1>. QED BY <1>3, <1>4

LEMMA ArrayStep ==
    ASSUME NEW W, Texts(W), NEW r \in ReadersOver(W), NEW lex \in LexemesOver(W),
           ArrayInv(r)
    PROVE  ArrayInv(Reads(r, lex))
<1>. PICK r2 : r2 = Reads(r, lex)
  OBVIOUS
<1>. DEFINE F == r.tree
            G == r2.tree
            S == r.stack
            B == OpenNodes(S)
            C == OpenNodes(r2.stack)
            t == Top(r)
<1>1. /\ F \in Seq(NodesOver(W)) /\ S \in Seq(Nat) /\ Len(S) \in Nat
      /\ Len(F) \in Nat /\ t \in 0..Len(F)
      /\ \A a \in 1..Len(F) : Len(F[a].kids) \in Nat
  BY TopIs, NodeIs, LenProperties DEF ReadersOver
<1>2. B \subseteq 1..Len(F)
  BY DEF ReadersOver, OpenNodes
<1>3. t \in B \cup {0} /\ (t # 0 => Len(S) # 0)
  <2>1. CASE S = <<>>
    BY <2>1, TopIs
  <2>2. CASE S # <<>>
    <3>1. t = S[Len(S)] /\ Len(S) \in 1..Len(S) /\ Len(S) # 0
      BY <2>2, TopIs
    <3>. QED BY <3>1 DEF OpenNodes
  <2>. QED BY <2>1, <2>2
<1>4. \A a \in 1..Len(F) : \A k \in 1..Len(F[a].kids) : ArrayKid(F, B, a, k)
  BY DEF ArrayInv
<1>. HIDE DEF F, G, S, B, C, t
<1>5. ASSUME NEW type, NEW text, GrownTree(F, G, t, type, text),
             C \subseteq B \cup {Len(F) + 1},
             type = "string" /\ t # 0 /\ F[t].type = "array" => Len(F) + 1 \notin C
      PROVE  ArrayInv(r2)
  <2>1. t # 0 => t \in 1..Len(F)
    BY <1>1
  <2>2. ASSUME NEW a \in 1..Len(G), NEW k \in 1..Len(G[a].kids)
        PROVE  ArrayKid(G, C, a, k)
    BY <1>1, <1>3, <1>4, <1>5, <2>1, <2>2, ArrayGrows
  <2>. QED BY <2>2 DEF ArrayInv, G, C
<1>6. ASSUME NEW type \in {"object", "array", "string"}, NEW text,
             NodePushed(r, r2, type, text)
      PROVE  ArrayInv(r2)
  <2>1. GrownTree(F, G, t, type, text)
    BY <1>6 DEF NodePushed, F, G, t
  <2>2. C \subseteq B \cup {Len(F) + 1}
    <3>1. PICK m \in Nat, new \in Nat : m = Len(S) /\ new = Len(F) + 1
      BY <1>1
    <3>2. r2.stack = Append(S, new)
      BY <1>6, <3>1 DEF NodePushed, F, S
    <3>3. \A d \in 1..(m + 1) : Append(S, new)[d] = IF d = m + 1 THEN new ELSE S[d]
      BY <1>1, <3>1, AppendProperties
    <3>4. Len(Append(S, new)) = m + 1
      BY <1>1, <3>1, AppendProperties
    <3>5. \A d \in 1..(m + 1) : d = m + 1 \/ d \in 1..m
      OBVIOUS
    <3>. QED BY <3>1, <3>2, <3>3, <3>4, <3>5 DEF OpenNodes, B, C
  <2>3. type = "string" /\ t # 0 => F[t].type # "array"
    BY <1>6 DEF NodePushed, Within, F, t
  <2>. QED BY <1>5, <2>1, <2>2, <2>3
<1>7. ASSUME NEW type, NEW text, LeafAdded(r, r2, type, text)
      PROVE  ArrayInv(r2)
  <2>1. GrownTree(F, G, t, type, text)
    BY <1>7 DEF LeafAdded, F, G, t
  <2>2. C \subseteq B
    <3>1. CASE r2.stack = S
      BY <3>1 DEF B, C
    <3>2. CASE t # 0 /\ r2.stack = Front(S)
      BY <1>1, <1>3, <3>2, OpenPopped DEF B, C
    <3>. QED BY <1>7, <3>1, <3>2 DEF LeafAdded, Within, S, t
  <2>3. Len(F) + 1 \notin C
    <3>1. Len(F) + 1 \notin 1..Len(F)
      BY <1>1
    <3>. QED BY <1>2, <2>2, <3>1
  <2>. QED BY <1>5, <2>1, <2>2, <2>3
<1>8. ASSUME NoNode(r, r2) PROVE ArrayInv(r2)
  <2>1. G = F /\ C \subseteq B
    BY <1>8 DEF NoNode, F, G, B, C, S
  <2>2. \A a \in 1..Len(G) : \A k \in 1..Len(G[a].kids) : ArrayKid(G, C, a, k)
    BY <1>4, <2>1 DEF ArrayKid
  <2>. QED BY <2>2 DEF ArrayInv, G, C
<1>9. \/ \E type \in {"object", "array", "string"}, text \in W :
            NodePushed(r, r2, type, text)
      \/ \E type, text : LeafAdded(r, r2, type, text)
      \/ NoNode(r, r2)
  BY ReaderSteps, Zenon
<1>. QED BY <1>6, <1>7, <1>8, <1>9

LEMMA ArraysRead ==
    ASSUME NEW W, Texts(W), NEW text \in Seq(LexemesOver(W))
    PROVE  ArrayInv(Read(text))
<1>. DEFINE n == Len(text)
<1>1. n \in Nat /\ \A i \in 1..n : text[i] \in LexemesOver(W)
  BY LenProperties, ElementOfSeq
<1>. HIDE DEF n
<1>2. PICK f \in [0..n -> ReadersOver(W)] :
              /\ f[0] = ReaderInit /\ Read(text) = f[n]
              /\ \A i \in 1..n : f[i] = Reads(f[i - 1], text[i])
  BY ReadIs DEF n
<1>. DEFINE S == {i \in 0..n : ArrayInv(f[i])}
<1>3. 0 \in S
  <2>1. Len(ReaderInit.tree) = 0
    BY EmptySeq DEF ReaderInit
  <2>. QED BY <1>1, <1>2, <2>1 DEF ArrayInv
<1>4. ASSUME NEW i \in 0..n, i < n, i \in S PROVE i + 1 \in S
  <2>1. i + 1 \in 1..n /\ i + 1 \in 0..n /\ (i + 1) - 1 = i
    BY <1>1, <1>4
  <2>2. /\ f[i + 1] = Reads(f[i], text[i + 1])
        /\ f[i] \in ReadersOver(W) /\ text[i + 1] \in LexemesOver(W)
    BY <1>1, <1>2, <2>1
  <2>3. ArrayInv(f[i + 1])
    BY <1>4, <2>2, ArrayStep
  <2>. QED BY <2>1, <2>3
<1>5. \A i \in 0..n : i \in S
  <2>. HIDE DEF S
  <2>. QED BY <1>1, <1>3, <1>4, Upwards
<1>6. n \in 0..n
  BY <1>1
<1>. QED BY <1>2, <1>5, <1>6

(* What ends in a primitive is nothing but a primitive. *)
LEMMA LastLexeme ==
    ASSUME NEW W, Texts(W), NEW r \in ReadersOver(W), NEW p \in SoundParsers(W),
           Alike(r, p), NEW lex \in LexemesOver(W), lex.c = "primitive",
           Reads(r, lex).mode # "bad", Reads(r, lex).stack = <<>>
    PROVE  /\ Len(Reads(r, lex).tree) = 1
           /\ Reads(r, lex).tree[1].type = "primitive"
<1>. PICK r2 : r2 = Reads(r, lex)
  OBVIOUS
<1>1. PICK text : LeafAdded(r, r2, "primitive", text)
  <2>1. OfNode(lex)
    BY Zenon DEF OfNode
  <2>. QED BY <2>1, ReaderSteps, Zenon
<1>2. /\ Len(r.tree) = Len(p.toks) /\ StackInv(r.tree, r.stack)
      /\ Marked(r.tree, p.toks, OpenNodes(r.stack), Top(r), r.mode, p.toksuper)
  BY DEF Alike, TreeInv
<1>3. Top(r) = 0
  <2>. SUFFICES ASSUME Top(r) # 0 PROVE FALSE
    OBVIOUS
  <2>1. r.stack # <<>> /\ r.stack \in Seq(Nat)
    BY TopIs DEF ReadersOver
  <2>2. /\ Len(r.stack) \in Nat /\ Len(r.stack) > 0
        /\ Top(r) = r.stack[Len(r.stack)]
    BY <2>1, TopIs
  <2>3. Within(r, "string") /\ Front(r.stack) = <<>>
    BY <1>1, <2>1 DEF LeafAdded
  <2>4. Len(r.stack) = 1
    <3>1. PICK m \in Nat : m = Len(r.stack)
      BY <2>2
    <3>2. Len(Front(r.stack)) = m - 1
      BY <2>1, <2>2, <3>1, FrontIs
    <3>3. Len(Front(r.stack)) = 0
      BY <2>3, EmptySeq
    <3>4. m - 1 = 0
      BY <3>2, <3>3
    <3>. QED BY <3>1, <3>4
  <2>5. r.tree[r.stack[1]].type = "string" /\ 1 \in 1..Len(r.stack)
    BY <2>2, <2>3, <2>4 DEF Within
  <2>. QED BY <1>2, <2>5 DEF StackInv
<1>4. Len(r.tree) = 0
  <2>1. r.mode = "next"
    BY <1>1, <1>3 DEF LeafAdded, ValueMayCome, Within
  <2>. QED BY <1>2, <1>3, <2>1 DEF Marked
<1>. QED BY <1>1, <1>4 DEF LeafAdded, GrownTree

(* The tokens of a text are its tree, when the table has room for all of    *)
(* them, and none otherwise.                                                *)
LEMMA WholeOrNothing ==
    ASSUME NEW W, Texts(W), NEW text \in Seq(LexemesOver(W)), WellFormed(text),
           Read(text).tree[1].type = "object"
    PROVE  LET F == Read(text).tree
               T == Tokenize(text)
           IN  /\ F \in Seq(NodesOver(W))
               /\ Len(F) > JP_MAX_TOKENS => T = <<>>
               /\ Len(F) <= JP_MAX_TOKENS =>
                     T \in Seq(TokensOver(W)) /\ TreeInv(F, T, {})
<1>. DEFINE n == Len(text)
<1>. PICK F, T, p : F = Read(text).tree /\ T = Tokenize(text) /\ p = Parsed(text)
  OBVIOUS
<1>1. PICK f \in [0..n -> ReadersOver(W)], h \in [0..n -> SoundParsers(W)] :
         /\ f[0] = ReaderInit /\ Read(text) = f[n]
         /\ \A i \in 1..n : f[i] = Reads(f[i - 1], text[i])
         /\ h[0] = ParserInit /\ p = h[n]
         /\ \A i \in 1..n : h[i] = Step(h[i - 1], text[i])
         /\ \A i \in 0..n : InStep(f[i], h[i])
  BY Lockstep
<1>2. /\ n \in Nat /\ n \in 0..n
      /\ \A i \in 1..n : text[i] \in LexemesOver(W)
  BY LenProperties, ElementOfSeq
<1>. HIDE DEF n
<1>3. PICK r : r = f[n] /\ r \in ReadersOver(W) /\ p \in SoundParsers(W)
  BY <1>1, <1>2
<1>4. r = Read(text) /\ r.mode = "rest" /\ r.stack = <<>> /\ F = r.tree
  BY <1>1, <1>3 DEF WellFormed
<1>5. /\ p.err \in {"none", "nomem"}
      /\ p.err = "none" => Alike(r, p)
      /\ p.err = "nomem" => Len(F) > JP_MAX_TOKENS
  <2>1. InStep(r, p)
    BY <1>1, <1>2, <1>3
  <2>. QED BY <1>4, <2>1 DEF InStep
<1>6. /\ F \in Seq(NodesOver(W)) /\ Len(F) \in Nat /\ JP_MAX_TOKENS \in Nat
      /\ p.toks \in Seq(TokensOver(W)) /\ Len(p.toks) <= JP_MAX_TOKENS
  BY <1>3, <1>4, LenProperties, TokensAssumption
     DEF ReadersOver, SoundParsers, ParsersOver
<1>7. T = IF p.err # "none" \/ CutShort(p, text) THEN <<>> ELSE p.toks
  BY DEF Tokenize
<1>8. CASE p.err = "nomem"
  BY <1>5, <1>6, <1>7, <1>8
<1>9. CASE p.err = "none"
  <2>1. Alike(r, p) /\ OpenNodes(r.stack) = {}
    <3>1. Len(<<>>) = 0
      BY EmptySeq
    <3>. QED BY <1>4, <1>5, <1>9, <3>1 DEF OpenNodes
  <2>2. TreeInv(F, p.toks, {}) /\ Len(F) = Len(p.toks)
    BY <1>4, <2>1 DEF Alike, TreeInv
  <2>3. Open(p.toks) = {}
    <3>1. \A i \in 1..Len(p.toks) : p.toks[i].end # -1
      BY <2>2 DEF TreeInv, TokenOf
    <3>. QED BY <1>6, <3>1, OpenIs
  <2>4. ASSUME text # <<>>, text[Len(text)].c = "primitive" PROVE FALSE
    <3>1. n \in 1..n /\ n - 1 \in 0..n
      <4>1. n # 0
        BY <2>4, EmptySeq DEF n
      <4>. QED BY <1>2, <4>1
    <3>2. PICK lex \in LexemesOver(W), s \in ReadersOver(W), q \in SoundParsers(W) :
             /\ lex = text[n] /\ s = f[n - 1] /\ q = h[n - 1]
             /\ r = Reads(s, lex) /\ p = Step(q, lex) /\ InStep(s, q)
      BY <1>1, <1>2, <1>3, <3>1
    <3>3. lex.c = "primitive" /\ Reads(s, lex).mode = "rest"
          /\ Reads(s, lex).stack = <<>>
      BY <1>4, <2>4, <3>2 DEF n
    <3>4. s.mode # "bad"
      BY <3>3, BadStays
    <3>5. q.err = "none"
      BY <1>9, <3>2, StepIs
    <3>6. Alike(s, q)
      BY <3>2, <3>4, <3>5 DEF InStep
    <3>7. Reads(s, lex).tree[1].type = "primitive"
      BY <3>3, <3>6, LastLexeme
    <3>. QED BY <1>4, <3>2, <3>7
  <2>5. T = p.toks
    BY <1>7, <1>9, <2>3, <2>4 DEF CutShort
  <2>. QED BY <1>6, <2>2, <2>5
<1>. QED BY <1>5, <1>8, <1>9

-----------------------------------------------------------------------------
(* The lookups of gateway.c and those in the document. *)
LEMMA MinOf ==
    ASSUME NEW S \in SUBSET Nat, NEW m \in S, \A i \in S : m <= i
    PROVE  Min(S) = m
<1>1. Min(S) \in S /\ \A i \in S : Min(S) <= i
  BY DEF Min
<1>2. Min(S) \in Nat /\ m \in Nat /\ m <= Min(S) /\ Min(S) <= m
  BY <1>1
<1>. QED BY <1>2

LEMMA MaxOf ==
    ASSUME NEW S \in SUBSET Nat, NEW m \in S, \A i \in S : i <= m
    PROVE  Max(S) = m
<1>1. Max(S) \in S /\ \A i \in S : i <= Max(S)
  BY DEF Max
<1>2. Max(S) \in Nat /\ m \in Nat /\ m <= Max(S) /\ Max(S) <= m
  BY <1>1
<1>. QED BY <1>2

LEMMA OddIs ==
    ASSUME NEW n \in Nat, NEW k \in 1..(2 * n), k % 2 = 1
    PROVE  \E j \in 1..n : k = 2 * j - 1
<1>1. k = 2 * (k \div 2) + 1 /\ k \div 2 \in Int
  OBVIOUS
<1>2. (k \div 2) + 1 \in 1..n /\ k = 2 * ((k \div 2) + 1) - 1
  BY <1>1
<1>. QED BY <1>2

LEMMA IsOdd == ASSUME NEW j \in Nat, j # 0 PROVE (2 * j - 1) % 2 = 1
OBVIOUS

(* The tokens T and the nodes N are of one document, whose tree is F.       *)
Tells(W, F, T, N) ==
    /\ T \in Seq(TokensOver(W)) /\ F \in Seq(NodesOver(W)) /\ TreeInv(F, T, {})
    /\ \A a \in 1..Len(F) : \A k \in 1..Len(F[a].kids) : ArrayKid(F, {}, a, k)
    /\ \A i \in 1..Len(F) : SameNode(N, F, i)

At(T, N, v, node) == \/ v = 0 /\ node = Missing
                     \/ v \in 1..Len(T) /\ node = N[v]

Looks(T, N, v, node) ==
    \A key : At(T, N, JpFind(T, v, key), Member(node, key))

LEMMA TellsNode ==
    ASSUME NEW W, NEW F, NEW T, NEW N, Tells(W, F, T, N), NEW i \in 1..Len(T)
    PROVE  /\ Len(T) \in Nat /\ Len(F) = Len(T) /\ i \in 1..Len(F)
           /\ N[i].type = T[i].type /\ N[i].text = T[i].text
           /\ F[i].type = T[i].type /\ F[i].text = T[i].text
           /\ T[i].type \in Types /\ T[i].size = Len(F[i].kids)
           /\ F[i].kids \in Seq(Nat) /\ Len(F[i].kids) \in Nat
           /\ DOMAIN F[i].kids = 1..Len(F[i].kids)
<1>1. /\ T \in Seq(TokensOver(W)) /\ Len(T) \in Nat /\ F \in Seq(NodesOver(W))
      /\ Len(F) = Len(T) /\ TokenOf(F, T, {}, i)
  BY LenProperties DEF Tells, TreeInv
<1>2. SameNode(N, F, i)
  BY <1>1 DEF Tells
<1>3. N[i].type = F[i].type /\ N[i].text = F[i].text
  BY <1>2 DEF SameNode
<1>4. F[i].kids \in Seq(Nat) /\ F[i].type \in Types
  BY <1>1, NodeIs
<1>. QED BY <1>1, <1>3, <1>4, LenProperties DEF TokenOf

(* A key of an object, and its value. *)
LEMMA KeyIs ==
    ASSUME NEW W, NEW F, NEW T, NEW N, Tells(W, F, T, N), NEW v \in 1..Len(T),
           T[v].type = "object", NEW k \in 1..Len(F[v].kids)
    PROVE  LET q == F[v].kids[k]
           IN  /\ q \in 1..Len(T) /\ F[q].kids[1] \in 1..Len(T)
               /\ N[v].kids[2 * k - 1] = N[q]
               /\ N[v].kids[2 * k] = N[F[q].kids[1]]
<1>. PICK q : q = F[v].kids[k]
  OBVIOUS
<1>1. /\ F[v].type = "object" /\ v \in 1..Len(F) /\ k \in DOMAIN F[v].kids
      /\ Len(F) = Len(T) /\ F \in Seq(NodesOver(W))
  <2>1. /\ v \in 1..Len(F) /\ Len(F) = Len(T) /\ F[v].type = T[v].type
        /\ DOMAIN F[v].kids = 1..Len(F[v].kids)
    BY TellsNode
  <2>2. F \in Seq(NodesOver(W))
    BY Zenon DEF Tells
  <2>. QED BY <2>1, <2>2
<1>2. KidIs(F, T, {}, v, k)
  BY DEF Tells, TreeInv
<1>3. q \in 1..Len(T) /\ Len(F[q].kids) # 0
  BY <1>1, <1>2 DEF KidIs
<1>4. 1 \in 1..Len(F[q].kids)
  <2>1. Len(F[q].kids) \in Nat
    BY <1>1, <1>3, NodeIs
  <2>. QED BY <1>3, <2>1
<1>5. KidIs(F, T, {}, q, 1)
  BY <1>3, <1>4 DEF Tells, TreeInv
<1>6. F[q].kids[1] \in 1..Len(T)
  BY <1>5 DEF KidIs
<1>7. SameNode(N, F, v)
  BY <1>1 DEF Tells
<1>8. N[v].kids[2 * k - 1] = N[q] /\ N[v].kids[2 * k] = N[F[q].kids[1]]
  BY <1>1, <1>7 DEF SameNode
<1>. QED BY <1>3, <1>6, <1>8

LEMMA FoundIs ==
    ASSUME NEW W, NEW F, NEW T, NEW N, Tells(W, F, T, N), NEW v \in 1..Len(T),
           T[v].type = "object", NEW key
    PROVE  At(T, N, JpFind(T, v, key), Member(N[v], key))
<1>. DEFINE K == F[v].kids
            n == Len(K)
            Named == {k \in DOMAIN K : F[K[k]].text = key}
            at == {k \in DOMAIN N[v].kids : k % 2 = 1 /\ N[v].kids[k].text = key}
<1>1. /\ n \in Nat /\ DOMAIN K = 1..n /\ N[v].type = "object"
      /\ F[v].type = "object" /\ v \in 1..Len(F)
  BY TellsNode
<1>2. JpFind(T, v, key) = IF Named = {} THEN 0 ELSE F[K[Min(Named)]].kids[1]
  <2>1. JpFind(T, v, key) = ValueOf(F, v, key)
    <3>1. /\ T \in Seq(TokensOver(W)) /\ F \in Seq(NodesOver(W))
          /\ TreeInv(F, T, {})
      BY Zenon DEF Tells
    <3>. QED BY <3>1, FindIs
  <2>. QED BY <2>1, Zenon DEF ValueOf
<1>3. DOMAIN N[v].kids = 1..(2 * n)
  <2>1. SameNode(N, F, v)
    BY <1>1 DEF Tells
  <2>. QED BY <1>1, <2>1 DEF SameNode
<1>4. ASSUME NEW k \in 1..n
      PROVE  /\ K[k] \in 1..Len(T) /\ F[K[k]].kids[1] \in 1..Len(T)
             /\ N[v].kids[2 * k - 1].text = F[K[k]].text
             /\ N[v].kids[2 * k] = N[F[K[k]].kids[1]]
  <2>1. /\ K[k] \in 1..Len(T) /\ F[K[k]].kids[1] \in 1..Len(T)
        /\ N[v].kids[2 * k - 1] = N[K[k]]
        /\ N[v].kids[2 * k] = N[F[K[k]].kids[1]]
    BY KeyIs
  <2>2. N[K[k]].text = F[K[k]].text
    BY <2>1, TellsNode
  <2>. QED BY <2>1, <2>2
<1>5. Member(N[v], key) = IF at = {} THEN Missing ELSE N[v].kids[Min(at) + 1]
  BY <1>1 DEF Member
<1>. HIDE DEF K, n
<1>6. ASSUME NEW k \in Named
      PROVE  k \in 1..n /\ k \in Nat /\ 2 * k - 1 \in at
  <2>1. k \in 1..n /\ k \in Nat /\ k # 0
    BY <1>1
  <2>2. 2 * k - 1 \in 1..(2 * n) /\ (2 * k - 1) % 2 = 1
    BY <1>1, <2>1, IsOdd
  <2>. QED BY <1>3, <1>4, <2>1, <2>2
<1>7. ASSUME NEW i \in at
      PROVE  i \in Nat /\ \E k \in Named : i = 2 * k - 1
  <2>1. i \in 1..(2 * n) /\ i % 2 = 1
    BY <1>3
  <2>2. PICK k \in 1..n : i = 2 * k - 1
    BY <1>1, <2>1, OddIs
  <2>3. k \in Named
    BY <1>1, <1>4, <2>2
  <2>. QED BY <2>1, <2>2, <2>3
<1>. HIDE DEF Named, at
<1>8. CASE Named = {}
  BY <1>2, <1>5, <1>7, <1>8 DEF At
<1>9. CASE Named # {}
  <2>1. Named \in SUBSET Nat /\ at \in SUBSET Nat
    BY <1>6, <1>7
  <2>2. PICK m \in Named : \A k \in Named : m <= k
    BY <1>9, <2>1, LeastOf
  <2>3. m \in 1..n /\ m \in Nat /\ 2 * m - 1 \in at
    BY <1>6
  <2>4. ASSUME NEW i \in at PROVE 2 * m - 1 <= i
    <3>1. PICK k \in Named : i = 2 * k - 1
      BY <1>7
    <3>2. k \in Nat /\ m <= k
      BY <1>6, <2>2
    <3>. QED BY <2>3, <3>1, <3>2
  <2>5. Min(Named) = m /\ Min(at) = 2 * m - 1
    BY <2>1, <2>2, <2>3, <2>4, MinOf
  <2>6. JpFind(T, v, key) = F[K[m]].kids[1]
    BY <1>2, <1>9, <2>5
  <2>7. Member(N[v], key) = N[v].kids[2 * m]
    <3>1. Min(at) + 1 = 2 * m /\ at # {}
      BY <2>3, <2>5
    <3>. QED BY <1>5, <3>1
  <2>. QED BY <1>4, <2>3, <2>6, <2>7 DEF At
<1>. QED BY <1>8, <1>9

(* jp_find() looks up what the document has there. *)
LEMMA Found ==
    ASSUME NEW W, NEW F, NEW T, NEW N, Tells(W, F, T, N), NEW v, NEW node,
           At(T, N, v, node)
    PROVE  Looks(T, N, v, node)
<1>. SUFFICES ASSUME NEW key
              PROVE  At(T, N, JpFind(T, v, key), Member(node, key))
  BY DEF Looks
<1>1. CASE v = 0 /\ node = Missing
  <2>1. JpFind(T, v, key) = 0
    BY <1>1 DEF JpFind
  <2>2. Member(node, key) = Missing
    BY <1>1 DEF Member, Missing, Leaf
  <2>. QED BY <2>1, <2>2 DEF At
<1>2. CASE v \in 1..Len(T) /\ node = N[v]
  <2>1. CASE T[v].type = "object"
    BY <1>2, <2>1, FoundIs
  <2>2. CASE T[v].type # "object"
    <3>1. JpFind(T, v, key) = 0
      BY <2>2 DEF JpFind
    <3>2. node.type # "object"
      BY <1>2, <2>2, TellsNode
    <3>3. Member(node, key) = Missing
      BY <3>2 DEF Member
    <3>. QED BY <3>1, <3>3 DEF At
  <2>. QED BY <2>1, <2>2
<1>. QED BY <1>1, <1>2 DEF At

LEMMA InboundSizes == /\ {ID_LEN, CONTENT_LEN} \subseteq Nat \ {0}
                      /\ {16, 48} \subseteq Nat \ {0}
                      /\ Len(NoText) = 0
<1>1. {ID_LEN, CONTENT_LEN} \subseteq Nat \ {0}
  BY Zenon, InboundAssumption
<1>2. Len(NoText) = 0
  BY Zenon, InboundAssumption DEF NoText
<1>. QED BY <1>1, <1>2

(* jp_str() and jp_int() are the text and the number of a member. *)
LEMMA StrIs ==
    ASSUME NEW W, NEW F, NEW T, NEW N, Tells(W, F, T, N), NEW u, NEW node,
           Looks(T, N, u, node), NEW key, NEW size \in Nat \ {0},
           Len(NoText) = 0
    PROVE  JpStr(T, u, key, size) = TextAt(node, key, size)
<1>. DEFINE v == JpFind(T, u, key)
            m == Member(node, key)
<1>1. At(T, N, v, m)
  BY DEF Looks
<1>2. JpStr(T, u, key, size) = IF v = 0 THEN NoText ELSE JpTokStr(T[v], size)
  BY Zenon DEF JpStr, NoText
<1>3. Missing.text = NoText
  BY Zenon DEF Missing, Leaf, NoText
<1>4. TextAt(node, key, size) = IF Len(m.text) < size THEN m.text
                                ELSE SubSeq(m.text, 1, size - 1)
  BY Zenon DEF TextAt
<1>. HIDE DEF v, m
<1>5. CASE v = 0 /\ m = Missing
  <2>1. m.text = NoText /\ v = 0
    BY <1>3, <1>5
  <2>2. Len(m.text) < size
    BY <2>1
  <2>. QED BY <1>2, <1>4, <2>1, <2>2
<1>6. CASE v \in 1..Len(T) /\ m = N[v]
  <2>1. m.text = T[v].text /\ v # 0
    BY <1>6, TellsNode
  <2>. QED BY <1>2, <1>4, <2>1, Zenon DEF JpTokStr
<1>. QED BY <1>1, <1>5, <1>6 DEF At

LEMMA IntIs ==
    ASSUME NEW W, NEW F, NEW T, NEW N, Tells(W, F, T, N), NEW u, NEW node,
           Looks(T, N, u, node), NEW key
    PROVE  JpInt(T, u, key, 0) = NumberAt(node, key)
<1>. DEFINE v == JpFind(T, u, key)
            m == Member(node, key)
<1>1. At(T, N, v, m)
  BY DEF Looks
<1>2. JpInt(T, u, key, 0) = IF v # 0 /\ T[v].type = "primitive"
                            THEN AtoI(T[v].text) ELSE 0
  BY Zenon DEF JpInt
<1>3. Missing.type = "missing"
  BY DEF Missing, Leaf
<1>4. NumberAt(node, key) = IF m.type = "primitive" THEN AtoI(m.text) ELSE 0
  BY Zenon DEF NumberAt
<1>. HIDE DEF v, m
<1>5. CASE v = 0 /\ m = Missing
  BY <1>2, <1>3, <1>4, <1>5
<1>6. CASE v \in 1..Len(T) /\ m = N[v]
  <2>1. m.text = T[v].text /\ m.type = T[v].type /\ v # 0
    BY <1>6, TellsNode
  <2>. QED BY <1>2, <1>4, <2>1
<1>. QED BY <1>1, <1>5, <1>6 DEF At

LEMMA ObjectLooks ==
    ASSUME NEW W, NEW F, NEW T, NEW N, Tells(W, F, T, N), NEW u, NEW node,
           Looks(T, N, u, node), NEW key
    PROVE  Looks(T, N, ObjectAt(T, u, key), Member(node, key))
<1>. PICK v, m : v = JpFind(T, u, key) /\ m = Member(node, key)
  OBVIOUS
<1>1. At(T, N, v, m)
  BY DEF Looks
<1>2. Looks(T, N, v, m)
  BY <1>1, Found
<1>3. ObjectAt(T, u, key) = IF v # 0 /\ T[v].type = "object" THEN v ELSE 0
  BY Zenon DEF ObjectAt
<1>4. CASE v # 0 /\ T[v].type # "object"
  <2>1. m.type # "object"
    BY <1>1, <1>4, TellsNode DEF At
  <2>2. ASSUME NEW k PROVE At(T, N, JpFind(T, 0, k), Member(m, k))
    BY <2>1 DEF At, JpFind, Member
  <2>. QED BY <1>3, <1>4, <2>2 DEF Looks
<1>. QED BY <1>2, <1>3, <1>4

LEMMA ArrayIs ==
    ASSUME NEW W, NEW F, NEW T, NEW N, Tells(W, F, T, N), NEW u, NEW node,
           Looks(T, N, u, node), NEW key
    PROVE  LET w == ArrayAt(T, u, key)
               items == Items(Member(node, key))
           IN  \/ w = 0 /\ items = <<>>
               \/ /\ w \in 1..Len(T)
                  /\ T[w].type = "array"
                  /\ N[w].type = "array"
                  /\ items = N[w].kids
<1>. PICK v, m : v = JpFind(T, u, key) /\ m = Member(node, key)
  OBVIOUS
<1>1. At(T, N, v, m)
  BY DEF Looks
<1>2. ArrayAt(T, u, key) = IF v # 0 /\ T[v].type = "array" THEN v ELSE 0
  BY Zenon DEF ArrayAt
<1>3. Items(m) = IF m.type = "array" THEN m.kids ELSE <<>>
  BY Zenon DEF Items
<1>4. Missing.type # "array"
  BY DEF Missing, Leaf
<1>5. CASE v = 0 /\ m = Missing
  BY <1>2, <1>3, <1>4, <1>5
<1>6. CASE v \in 1..Len(T) /\ m = N[v]
  <2>1. m.type = T[v].type /\ v # 0
    BY <1>6, TellsNode
  <2>. QED BY <1>2, <1>3, <1>6, <2>1
<1>. QED BY <1>1, <1>5, <1>6 DEF At

(* The items of an array, as many as its token says *)
LEMMA ItemsAre ==
    ASSUME NEW W, NEW F, NEW T, NEW N, Tells(W, F, T, N), NEW w \in 1..Len(T),
           T[w].type = "array"
    PROVE  /\ T[w].size \in Nat /\ Len(N[w].kids) = T[w].size
           /\ DOMAIN N[w].kids = 1..T[w].size
           /\ \A k \in 1..T[w].size : /\ F[w].kids[k] \in 1..Len(T)
                                      /\ N[w].kids[k] = N[F[w].kids[k]]
<1>1. /\ w \in 1..Len(F) /\ F[w].type = "array" /\ Len(F) = Len(T)
      /\ T[w].size = Len(F[w].kids) /\ Len(F[w].kids) \in Nat
      /\ DOMAIN F[w].kids = 1..Len(F[w].kids)
  BY TellsNode
<1>. PICK n, K : n = T[w].size /\ K = F[w].kids
  OBVIOUS
<1>2. n \in Nat /\ DOMAIN K = 1..n
  BY <1>1
<1>3. N[w].kids = [k \in 1..n |-> N[K[k]]]
  <2>1. SameNode(N, F, w)
    BY <1>1 DEF Tells
  <2>. QED BY <1>1, <1>2, <2>1 DEF SameNode
<1>4. Len(N[w].kids) = n /\ DOMAIN N[w].kids = 1..n
  BY <1>2, <1>3
<1>5. ASSUME NEW k \in 1..n PROVE K[k] \in 1..Len(T)
  <2>1. ArrayKid(F, {}, w, k)
    BY <1>1 DEF Tells
  <2>2. KidIs(F, T, {}, w, k)
    BY <1>1 DEF Tells, TreeInv
  <2>. QED BY <2>2 DEF KidIs
<1>. QED BY <1>2, <1>3, <1>4, <1>5

(* jp_skip() leads from each item of an array to the next one. *)
LEMMA ItemNext ==
    ASSUME NEW W, NEW F, NEW T, NEW N, Tells(W, F, T, N), NEW w \in 1..Len(T),
           T[w].type = "array", NEW k \in 1..T[w].size
    PROVE  LET K == F[w].kids
           IN  /\ K[k] \in 1..Len(T) /\ K[k] \in Nat
               /\ k = 1 => K[k] = w + 1
               /\ k < T[w].size =>
                     K[k + 1] = JpSkip(T, K[k]) /\ K[k] < K[k + 1]
<1>. PICK n, K : n = T[w].size /\ K = F[w].kids
  OBVIOUS
<1>1. /\ w \in 1..Len(F) /\ F[w].type = "array" /\ Len(F) = Len(T)
      /\ n = Len(K) /\ n \in Nat /\ Len(T) \in Nat
  BY TellsNode
<1>2. PICK q : q = K[k]
  OBVIOUS
<1>3. ArrayKid(F, {}, w, k)
  BY <1>1 DEF Tells
<1>4. KidIs(F, T, {}, w, k)
  BY <1>1 DEF Tells, TreeInv
<1>5. /\ q \in 1..Len(T) /\ (k = 1 => q = w + 1)
      /\ k < n => K[k + 1] = Past(F, T, q)
  BY <1>1, <1>2, <1>4 DEF KidIs
<1>6. ~(F[q].type = "string" /\ Len(F[q].kids) # 0)
  BY <1>1, <1>2, <1>3 DEF ArrayKid
<1>7. Past(F, T, q) = JpSkip(T, q)
  BY <1>6, Zenon DEF Past
<1>8. JpSkip(T, q) \in (q + 1)..(Len(T) + 1)
  <2>1. T \in Seq(TokensOver(W))
    BY DEF Tells
  <2>. QED BY <1>5, <2>1, SkipStops DEF StopsAt
<1>. PICK j : j = JpSkip(T, q)
  OBVIOUS
<1>9. j \in (q + 1)..(Len(T) + 1) /\ (k < n => K[k + 1] = j)
  BY <1>5, <1>7, <1>8
<1>10. q \in Nat /\ q < j
  BY <1>1, <1>5, <1>9
<1>. QED BY <1>2, <1>5, <1>9, <1>10

LEMMA ItemsUp ==
    ASSUME NEW W, NEW F, NEW T, NEW N, Tells(W, F, T, N), NEW w \in 1..Len(T),
           T[w].type = "array", NEW i \in 1..T[w].size, NEW j \in 1..T[w].size,
           i < j
    PROVE  F[w].kids[i] < F[w].kids[j]
<1>. PICK n, K : n = T[w].size /\ K = F[w].kids
  OBVIOUS
<1>1. /\ n \in Nat
      /\ \A k \in 1..n : /\ K[k] \in Nat
                         /\ k < n => K[k] < K[k + 1]
  BY ItemsAre, ItemNext
<1>. DEFINE S == {k \in 0..n : i < k => K[i] < K[k]}
<1>2. 0 \in S
  BY <1>1
<1>3. ASSUME NEW k \in 0..n, k < n, k \in S PROVE k + 1 \in S
  <2>1. k + 1 \in 0..n
    BY <1>1, <1>3
  <2>2. CASE i < k
    <3>1. /\ k \in 1..n /\ k + 1 \in 1..n
          /\ K[i] < K[k] /\ K[k] < K[k + 1]
      BY <1>1, <1>3, <2>2
    <3>2. K[i] \in Nat /\ K[k] \in Nat /\ K[k + 1] \in Nat
      BY <1>1, <3>1
    <3>3. K[i] < K[k + 1]
      BY <3>1, <3>2
    <3>. QED BY <2>1, <3>3
  <2>3. CASE i = k
    BY <1>1, <1>3, <2>1, <2>3
  <2>4. CASE k < i
    <3>1. ~(i < k + 1)
      BY <1>1, <2>4
    <3>. QED BY <2>1, <3>1
  <2>. QED BY <1>1, <2>2, <2>3, <2>4
<1>4. \A k \in 0..n : k \in S
  <2>. HIDE DEF S
  <2>. QED BY <1>1, <1>2, <1>3, Upwards
<1>5. j \in 0..n
  BY <1>1
<1>. QED BY <1>4, <1>5

LEMMA PlacesAre ==
    ASSUME NEW W, NEW F, NEW T, NEW N, Tells(W, F, T, N), NEW w \in 1..Len(T),
           T[w].type = "array"
    PROVE  OptionPlaces(T, w) = {F[w].kids[k] : k \in 1..T[w].size}
<1>. DEFINE n == T[w].size
            K == F[w].kids
            Eq(f) == f = [k \in 1..n |-> IF k = 1 THEN w + 1
                                         ELSE JpSkip(T, f[k - 1])]
            h == CHOOSE f : Eq(f)
            g == [k \in 1..n |-> K[k]]
<1>1. n \in Nat /\ Len(T) \in Nat
  BY ItemsAre, TellsNode
<1>2. ASSUME NEW k \in 1..n
      PROVE  /\ K[k] \in 1..Len(T)
             /\ k = 1 => K[k] = w + 1
             /\ k < n => K[k + 1] = JpSkip(T, K[k])
  BY ItemNext
<1>3. OptionPlaces(T, w) = {i \in {h[k] : k \in 1..n} : i <= Len(T)}
  BY Zenon DEF OptionPlaces
<1>. HIDE DEF n, K
<1>4. Eq(g)
  <2>1. ASSUME NEW k \in 1..n
        PROVE  g[k] = IF k = 1 THEN w + 1 ELSE JpSkip(T, g[k - 1])
    <3>1. CASE k = 1
      BY <1>2, <3>1
    <3>2. CASE k # 1
      <4>1. k - 1 \in 1..n /\ k - 1 < n /\ (k - 1) + 1 = k
        BY <1>1, <3>2
      <4>2. K[k] = JpSkip(T, K[k - 1])
        BY <1>2, <4>1
      <4>. QED BY <3>2, <4>1, <4>2
    <3>. QED BY <3>1, <3>2
  <2>. QED BY <2>1
<1>5. Eq(h)
  <2>. HIDE DEF g
  <2>. QED BY <1>4
<1>. HIDE DEF h
<1>6. ASSUME NEW k \in 1..n PROVE h[k] = K[k]
  <2>. DEFINE S == {i \in 0..n : i # 0 => h[i] = K[i]}
  <2>1. 0 \in S
    BY <1>1
  <2>2. ASSUME NEW i \in 0..n, i < n, i \in S PROVE i + 1 \in S
    <3>1. i + 1 \in 1..n /\ i + 1 \in 0..n /\ (i + 1) - 1 = i
      BY <1>1, <2>2
    <3>2. h[i + 1] = IF i + 1 = 1 THEN w + 1 ELSE JpSkip(T, h[i])
      BY <1>5, <3>1
    <3>3. CASE i = 0
      BY <1>2, <3>1, <3>2, <3>3
    <3>4. CASE i # 0
      <4>1. i \in 1..n /\ h[i] = K[i] /\ i + 1 # 1
        BY <1>1, <2>2, <3>4
      <4>2. K[i + 1] = JpSkip(T, K[i])
        BY <1>2, <2>2, <4>1
      <4>. QED BY <3>1, <3>2, <4>1, <4>2
    <3>. QED BY <3>3, <3>4
  <2>3. \A i \in 0..n : i \in S
    <3>. HIDE DEF S
    <3>. QED BY <1>1, <2>1, <2>2, Upwards
  <2>4. k \in 0..n /\ k # 0
    BY <1>1
  <2>. QED BY <2>3, <2>4
<1>7. \A k \in 1..n : K[k] <= Len(T)
  BY <1>1, <1>2
<1>8. OptionPlaces(T, w) = {K[k] : k \in 1..n}
  BY <1>3, <1>6, <1>7
<1>. QED BY <1>8 DEF n, K

(* The last option of a name is the same in the tokens and in the document. *)
LEMMA OptionIs ==
    ASSUME NEW W, NEW F, NEW T, NEW N, Tells(W, F, T, N), NEW u, NEW data,
           Looks(T, N, u, data), NEW name, name # NoText, Len(NoText) = 0
    PROVE  Option(T, ArrayAt(T, u, "options"), name) = OptionOf(data, name)
<1>. DEFINE w == ArrayAt(T, u, "options")
            items == Items(Member(data, "options"))
            there == {i \in (IF w = 0 THEN {} ELSE OptionPlaces(T, w)) :
                         T[i].type = "object" /\ JpStr(T, i, "name", 16) = name}
            named == {i \in DOMAIN items : TextAt(items[i], "name", 16) = name}
<1>1. Option(T, w, name) = IF there = {} THEN NoText
                           ELSE JpStr(T, Max(there), "value", ID_LEN)
  BY Zenon DEF Option, NoText
<1>2. OptionOf(data, name) = IF named = {} THEN NoText
                             ELSE TextAt(items[Max(named)], "value", ID_LEN)
  BY Zenon DEF OptionOf, NoText
<1>3. \/ w = 0 /\ items = <<>>
      \/ /\ w \in 1..Len(T)
         /\ T[w].type = "array"
         /\ N[w].type = "array"
         /\ items = N[w].kids
  BY ArrayIs
<1>4. ID_LEN \in Nat \ {0} /\ 16 \in Nat \ {0}
  BY InboundSizes
<1>. HIDE DEF w, items
<1>5. CASE w = 0 /\ items = <<>>
  <2>1. there = {} /\ named = {}
    BY <1>5
  <2>. QED BY <1>1, <1>2, <2>1 DEF w
<1>6. CASE w # 0
  <2>. PICK n, K : n = T[w].size /\ K = F[w].kids
    OBVIOUS
  <2>1. /\ w \in 1..Len(T) /\ T[w].type = "array" /\ items = N[w].kids
    BY <1>3, <1>6
  <2>2. /\ n \in Nat /\ DOMAIN items = 1..n /\ Len(T) \in Nat
        /\ \A k \in 1..n : K[k] \in 1..Len(T) /\ items[k] = N[K[k]]
    BY <2>1, ItemsAre, TellsNode
  <2>3. OptionPlaces(T, w) = {K[k] : k \in 1..n}
    BY <2>1, PlacesAre
  <2>4. ASSUME NEW k \in 1..n, NEW key, NEW size \in Nat \ {0}
        PROVE  JpStr(T, K[k], key, size) = TextAt(items[k], key, size)
    <3>1. At(T, N, K[k], items[k])
      BY <2>2 DEF At
    <3>2. Looks(T, N, K[k], items[k])
      BY <3>1, Found
    <3>. QED BY <3>2, StrIs
  <2>5. ASSUME NEW k \in 1..n, JpStr(T, K[k], "name", 16) = name
        PROVE  T[K[k]].type = "object"
    <3>. PICK q : q = K[k]
      OBVIOUS
    <3>1. SUFFICES ASSUME T[q].type # "object" PROVE FALSE
      OBVIOUS
    <3>2. JpFind(T, q, "name") = 0
      BY <3>1 DEF JpFind
    <3>3. JpStr(T, q, "name", 16) = NoText
      BY <3>2, Zenon DEF JpStr, NoText
    <3>. QED BY <2>5, <3>3
  <2>6. /\ \A k \in named : k \in 1..n /\ K[k] \in there
        /\ \A i \in there : \E k \in named : i = K[k]
    <3>1. ASSUME NEW k \in named PROVE k \in 1..n /\ K[k] \in there
      <4>1. k \in 1..n /\ TextAt(items[k], "name", 16) = name
        BY <2>2
      <4>2. JpStr(T, K[k], "name", 16) = name
        BY <1>4, <2>4, <4>1
      <4>3. T[K[k]].type = "object" /\ K[k] \in OptionPlaces(T, w)
        BY <2>3, <2>5, <4>1, <4>2
      <4>. QED BY <1>6, <4>1, <4>2, <4>3
    <3>2. ASSUME NEW i \in there PROVE \E k \in named : i = K[k]
      <4>1. i \in OptionPlaces(T, w) /\ JpStr(T, i, "name", 16) = name
        BY <1>6
      <4>2. PICK k \in 1..n : i = K[k]
        BY <2>3, <4>1
      <4>3. TextAt(items[k], "name", 16) = name
        BY <1>4, <2>4, <4>1, <4>2
      <4>. QED BY <2>2, <4>2, <4>3
    <3>. QED BY <3>1, <3>2
  <2>. HIDE DEF there, named
  <2>7. CASE named = {}
    <3>1. there = {}
      BY <2>6, <2>7
    <3>. QED BY <1>1, <1>2, <2>7, <3>1 DEF w
  <2>8. CASE named # {}
    <3>1. named \in SUBSET (1..n) /\ named \in SUBSET Nat
      BY <2>6
    <3>2. there \in SUBSET Nat
      <4>. SUFFICES ASSUME NEW i \in there PROVE i \in Nat
        OBVIOUS
      <4>1. PICK k \in 1..n : i = K[k]
        BY <2>6
      <4>. QED BY <2>2, <4>1
    <3>3. PICK m \in named : \A k \in named : k <= m
      BY <2>2, <2>8, <3>1, GreatestOf
    <3>4. m \in 1..n /\ K[m] \in there /\ m \in Nat /\ K[m] \in Nat
      BY <2>6, <3>1, <3>2
    <3>5. ASSUME NEW i \in there PROVE i <= K[m]
      <4>1. PICK k \in named : i = K[k]
        BY <2>6
      <4>2. k \in 1..n /\ k \in Nat /\ k <= m /\ K[k] \in Nat
        BY <2>6, <3>1, <3>2, <3>3, <4>1
      <4>3. CASE k = m
        BY <3>4, <4>1, <4>3
      <4>4. CASE k # m
        <5>1. k < m
          BY <3>4, <4>2, <4>4
        <5>2. K[k] < K[m]
          BY <2>1, <3>4, <4>2, <5>1, ItemsUp
        <5>. QED BY <3>4, <4>1, <4>2, <5>2
      <4>. QED BY <4>3, <4>4
    <3>6. Max(named) = m /\ Max(there) = K[m] /\ there # {}
      BY <3>1, <3>2, <3>3, <3>4, <3>5, MaxOf
    <3>7. JpStr(T, K[m], "value", ID_LEN) = TextAt(items[m], "value", ID_LEN)
      BY <1>4, <2>4, <3>4
    <3>. QED BY <1>1, <1>2, <2>8, <3>6, <3>7 DEF w
  <2>. QED BY <2>7, <2>8
<1>. QED BY <1>3, <1>5, <1>6 DEF w

LEMMA FitsAByte == ASSUME NEW n \in Nat, n < 256 PROVE n % 256 = n
OBVIOUS

(* The parsers of gateway.c hand on what the document says. *)
LEMMA MessageIs ==
    ASSUME NEW W, NEW F, NEW T, NEW N, Tells(W, F, T, N), NEW v, NEW d,
           Looks(T, N, v, d),
           \A i \in 1..Len(T) : N[i].type = "array" => Len(N[i].kids) < 256
    PROVE  MessageCreate(T, v) = MessageOf(d)
<1>1. /\ ID_LEN \in Nat \ {0} /\ CONTENT_LEN \in Nat \ {0}
      /\ Len(NoText) = 0
  BY InboundSizes
<1>2. /\ JpStr(T, v, "content", CONTENT_LEN) = TextAt(d, "content", CONTENT_LEN)
      /\ JpStr(T, v, "id", ID_LEN) = TextAt(d, "id", ID_LEN)
  BY <1>1, StrIs
<1>3. JpStr(T, ObjectAt(T, v, "author"), "id", ID_LEN)
         = TextAt(Member(d, "author"), "id", ID_LEN)
  <2>1. Looks(T, N, ObjectAt(T, v, "author"), Member(d, "author"))
    BY ObjectLooks
  <2>. QED BY <1>1, <2>1, StrIs
<1>4. LET w == ArrayAt(T, v, "mentions")
      IN (IF w = 0 THEN 0 ELSE T[w].size % 256)
            = Len(Items(Member(d, "mentions")))
  <2>. PICK w, items : /\ w = ArrayAt(T, v, "mentions")
                       /\ items = Items(Member(d, "mentions"))
    OBVIOUS
  <2>1. \/ w = 0 /\ items = <<>>
        \/ /\ w \in 1..Len(T)
           /\ T[w].type = "array"
           /\ N[w].type = "array"
           /\ items = N[w].kids
    BY ArrayIs
  <2>2. CASE w = 0 /\ items = <<>>
    <3>1. Len(items) = 0
      BY <2>2, EmptySeq
    <3>. QED BY <2>2, <3>1
  <2>3. CASE w # 0
    <3>1. /\ T[w].size \in Nat /\ Len(items) = T[w].size
          /\ Len(items) < 256 /\ Len(T) \in Nat
      BY <2>1, <2>3, ItemsAre, TellsNode
    <3>2. T[w].size % 256 = T[w].size
      <4>1. T[w].size \in Nat /\ T[w].size < 256
        BY <3>1
      <4>. QED BY <4>1, FitsAByte
    <3>. QED BY <2>3, <3>1, <3>2
  <2>. QED BY <2>1, <2>2, <2>3
<1>. QED BY <1>2, <1>3, <1>4, Zenon DEF MessageCreate, MessageOf

LEMMA InteractionIs ==
    ASSUME NEW W, NEW F, NEW T, NEW N, Tells(W, F, T, N), NEW v, NEW d,
           Looks(T, N, v, d)
    PROVE  InteractionCreate(T, v) = IF NumberAt(d, "type") # 2 THEN NoEvent
                                     ELSE InteractionOf(d)
<1>1. ID_LEN \in Nat \ {0} /\ Len(NoText) = 0
  BY InboundSizes
<1>2. JpInt(T, v, "type", 0) = NumberAt(d, "type")
  BY IntIs
<1>3. JpStr(T, v, "id", ID_LEN) = TextAt(d, "id", ID_LEN)
  BY <1>1, StrIs
<1>. PICK x, data : x = ObjectAt(T, v, "data") /\ data = Member(d, "data")
  OBVIOUS
<1>4. Looks(T, N, x, data)
  BY ObjectLooks
<1>5. JpStr(T, x, "name", ID_LEN) = TextAt(data, "name", ID_LEN)
  BY <1>1, <1>4, StrIs
<1>6. /\ Option(T, ArrayAt(T, x, "options"), "action") = OptionOf(data, "action")
      /\ Option(T, ArrayAt(T, x, "options"), "user") = OptionOf(data, "user")
  <2>1. "action" # NoText /\ "user" # NoText
    BY DEF NoText
  <2>. QED BY <1>1, <1>4, <2>1, OptionIs
<1>7. JpStr(T, ObjectAt(T, ObjectAt(T, v, "member"), "user"), "id", ID_LEN)
         = TextAt(Member(Member(d, "member"), "user"), "id", ID_LEN)
  <2>1. Looks(T, N, ObjectAt(T, v, "member"), Member(d, "member"))
    BY ObjectLooks
  <2>2. Looks(T, N, ObjectAt(T, ObjectAt(T, v, "member"), "user"),
              Member(Member(d, "member"), "user"))
    BY <2>1, ObjectLooks
  <2>. QED BY <1>1, <2>2, StrIs
<1>8. InteractionCreate(T, v) =
         IF JpInt(T, v, "type", 0) # 2 THEN NoEvent
         ELSE [kind    |-> "interaction",
               id      |-> JpStr(T, v, "id", ID_LEN),
               invoker |-> JpStr(T, ObjectAt(T, ObjectAt(T, v, "member"), "user"),
                                 "id", ID_LEN),
               command |-> JpStr(T, x, "name", ID_LEN),
               action  |-> Option(T, ArrayAt(T, x, "options"), "action"),
               user    |-> Option(T, ArrayAt(T, x, "options"), "user")]
  BY Zenon DEF InteractionCreate
<1>9. InteractionOf(d) =
         [kind |-> "interaction", id |-> TextAt(d, "id", ID_LEN),
          invoker |-> TextAt(Member(Member(d, "member"), "user"), "id", ID_LEN),
          command |-> TextAt(data, "name", ID_LEN),
          action |-> OptionOf(data, "action"), user |-> OptionOf(data, "user")]
  BY Zenon DEF InteractionOf
<1>. QED BY <1>2, <1>3, <1>5, <1>6, <1>7, <1>8, <1>9, Zenon

LEMMA EventIs ==
    ASSUME NEW W, NEW F, NEW T, NEW N, Tells(W, F, T, N), 1 \in 1..Len(T),
           \A i \in 1..Len(T) : N[i].type = "array" => Len(N[i].kids) < 256
    PROVE  /\ EventOf(T) = Expected(N[1])
           /\ NumberAt(N[1], "s") > 0 => NextSeq(T) = NumberAt(N[1], "s")
<1>. PICK doc : doc = N[1]
  OBVIOUS
<1>1. Looks(T, N, 1, doc)
  <2>1. At(T, N, 1, doc)
    BY DEF At
  <2>. QED BY <2>1, Found
<1>2. /\ JpInt(T, 1, "op", 0) = NumberAt(doc, "op")
      /\ JpInt(T, 1, "s", 0) = NumberAt(doc, "s")
  BY <1>1, IntIs
<1>. PICK t, v, d : /\ t = TextAt(doc, "t", 48) /\ d = Member(doc, "d")
                    /\ v = JpFind(T, 1, "d")
  OBVIOUS
<1>3. t = JpStr(T, 1, "t", 48)
  <2>1. 48 \in Nat \ {0} /\ Len(NoText) = 0
    BY InboundSizes
  <2>. QED BY <1>1, <2>1, StrIs
<1>4. At(T, N, v, d) /\ Looks(T, N, v, d)
  <2>1. At(T, N, v, d)
    BY <1>1 DEF Looks
  <2>. QED BY <2>1, Found
<1>5. d = Missing <=> v = 0
  <2>1. Missing.type = "missing"
    BY DEF Missing, Leaf
  <2>2. ASSUME v \in 1..Len(T), d = N[v] PROVE v # 0 /\ d # Missing
    <3>1. d.type = T[v].type /\ T[v].type \in Types
      BY <2>2, TellsNode
    <3>. QED BY <2>1, <2>2, <3>1 DEF Types
  <2>. QED BY <1>4, <2>2 DEF At
<1>6. MessageCreate(T, v) = MessageOf(d)
  BY <1>4, MessageIs
<1>7. InteractionCreate(T, v) = IF NumberAt(d, "type") # 2 THEN NoEvent
                                ELSE InteractionOf(d)
  BY <1>4, InteractionIs
<1>8. EventOf(T) =
         IF JpInt(T, 1, "op", 0) # 0 \/ v = 0 THEN NoEvent
         ELSE CASE t = "MESSAGE_CREATE"     -> MessageCreate(T, v)
                [] t = "INTERACTION_CREATE" -> InteractionCreate(T, v)
                [] OTHER                    -> NoEvent
  BY <1>3, Zenon DEF EventOf
<1>9. Expected(doc) =
         IF NumberAt(doc, "op") # 0 \/ d = Missing THEN NoEvent
         ELSE CASE t = "MESSAGE_CREATE" -> MessageOf(d)
                [] t = "INTERACTION_CREATE" /\ NumberAt(d, "type") = 2 ->
                      InteractionOf(d)
                [] OTHER -> NoEvent
  BY Zenon DEF Expected
<1>10. EventOf(T) = Expected(doc)
  BY <1>2, <1>5, <1>6, <1>7, <1>8, <1>9
<1>11. NumberAt(doc, "s") > 0 => NextSeq(T) = NumberAt(doc, "s")
  BY <1>2, Zenon DEF NextSeq
<1>. QED BY <1>10, <1>11

(* What is handed on of a document that Discord may send. *)
LEMMA DocumentIs ==
    ASSUME NEW k \in 1..MaxFrames, NEW doc \in Documents[k]
    PROVE  doc.type = "object" /\ Written(doc) /\ ShortLists(doc)
BY Zenon, InboundAssumption

LEMMA Processed ==
    ASSUME NEW doc, doc.type = "object", Written(doc), ShortLists(doc)
    PROVE  LET T == Tokenize(Lexemes(doc))
           IN  IF Len(Nodes(doc)) > JP_MAX_TOKENS THEN T = <<>>
               ELSE /\ T # <<>> /\ EventOf(T) = Expected(doc)
                    /\ NumberAt(doc, "s") > 0 => NextSeq(T) = NumberAt(doc, "s")
<1>. PICK text, N, F, T, W : /\ text = Lexemes(doc) /\ N = Nodes(doc)
                             /\ F = Read(text).tree /\ T = Tokenize(text)
                             /\ W = Words(text)
  OBVIOUS
<1>1. /\ text \in Seq(LexemesOver(W)) /\ Texts(W) /\ WellFormed(text)
      /\ Len(N) = Len(F) /\ DOMAIN N = DOMAIN F /\ 1 \in DOMAIN N /\ N[1] = doc
      /\ \A i \in DOMAIN F : SameNode(N, F, i)
  BY Zenon DEF Written
<1>2. \A i \in DOMAIN N : N[i].type = "array" => Len(N[i].kids) < 256
  BY Zenon DEF ShortLists
<1>3. F[1].type = "object"
  <2>1. SameNode(N, F, 1) /\ N[1].type = "object"
    BY <1>1
  <2>2. N[1].type = F[1].type
    BY <2>1, Zenon DEF SameNode
  <2>. QED BY <2>1, <2>2
<1>4. /\ F \in Seq(NodesOver(W))
      /\ Len(F) > JP_MAX_TOKENS => T = <<>>
      /\ Len(F) <= JP_MAX_TOKENS =>
            T \in Seq(TokensOver(W)) /\ TreeInv(F, T, {})
  BY <1>1, <1>3, WholeOrNothing
<1>5. Len(F) \in Nat /\ DOMAIN F = 1..Len(F) /\ JP_MAX_TOKENS \in Nat
  BY <1>4, LenProperties, TokensAssumption
<1>6. CASE Len(N) > JP_MAX_TOKENS
  BY <1>1, <1>4, <1>6
<1>7. CASE ~(Len(N) > JP_MAX_TOKENS)
  <2>1. T \in Seq(TokensOver(W)) /\ TreeInv(F, T, {}) /\ Len(F) = Len(T)
    BY <1>1, <1>4, <1>5, <1>7 DEF TreeInv
  <2>2. \A a \in 1..Len(F) : \A k \in 1..Len(F[a].kids) : ArrayKid(F, {}, a, k)
    <3>1. ArrayInv(Read(text))
      BY <1>1, ArraysRead
    <3>2. Read(text).stack = <<>> /\ Len(<<>>) = 0
      BY <1>1, EmptySeq DEF WellFormed
    <3>3. OpenNodes(Read(text).stack) = {}
      BY <3>2 DEF OpenNodes
    <3>. QED BY <3>1, <3>3 DEF ArrayInv
  <2>3. Tells(W, F, T, N)
    BY <1>1, <1>4, <1>5, <2>1, <2>2 DEF Tells
  <2>4. 1 \in 1..Len(T) /\ DOMAIN N = 1..Len(T)
    BY <1>1, <1>5, <2>1
  <2>5. /\ EventOf(T) = Expected(doc)
        /\ NumberAt(doc, "s") > 0 => NextSeq(T) = NumberAt(doc, "s")
    BY <1>1, <1>2, <2>3, <2>4, EventIs
  <2>6. T # <<>>
    BY <2>4, EmptySeq
  <2>. QED BY <1>7, <2>5, <2>6
<1>. QED BY <1>6, <1>7

FieldsInv ==
    /\ OneFrame => document \in Documents[sent.id]
    /\ \A i \in 1..Len(handled) : handled[i] <= sent.id
    /\ FieldsExact

LEMMA FieldsBegin == InboundInit => FieldsInv
<1>. SUFFICES ASSUME InboundInit PROVE FieldsInv
  OBVIOUS
<1>1. sent.op = "control" /\ handled = <<>>
  BY DEF InboundInit, FramesInit
<1>2. ~OneFrame /\ Len(handled) = 0
  BY <1>1, EmptySeq DEF OneFrame
<1>. QED BY <1>1, <1>2 DEF FieldsInv, FieldsExact

LEMMA FieldsKept ==
    ASSUME FieldsInv, sent'.id = sent.id, sent'.op = sent.op, sent'.fin = sent.fin,
           UNCHANGED <<handled, document, s_seq, event>>
    PROVE  FieldsInv'
BY DEF FieldsInv, FieldsExact, OneFrame

LEMMA FieldsSent ==
    ASSUME FramesInv, FieldsInv, NEW len, SendFrames(len),
           IF sent'.op = "text" THEN document' \in Documents[sent.id + 1]
           ELSE UNCHANGED document
    PROVE  FieldsInv'
<1>1. /\ sent.id \in Nat /\ sent'.id = sent.id + 1 /\ handled' = handled
      /\ handled \in Seq(0..MaxFrames) /\ Len(handled) \in Nat
  BY FrameLimits, LenProperties DEF FramesInv, FramesShape, SentFrames, SendFrames
<1>2. \A i \in 1..Len(handled) : handled[i] \in Int /\ handled[i] <= sent.id
  BY <1>1, FrameLimits, ElementOfSeq DEF FieldsInv
<1>3. \A i \in 1..Len(handled) : handled[i] <= sent'.id /\ handled[i] # sent'.id
  BY <1>1, <1>2
<1>4. ~(handled' # <<>> /\ handled'[Len(handled')] = sent'.id)
  <2>1. SUFFICES ASSUME handled # <<>> PROVE handled[Len(handled)] # sent'.id
    BY <1>1
  <2>2. Len(handled) \in 1..Len(handled)
    BY <1>1, <2>1, EmptySeq
  <2>. QED BY <1>3, <2>2
<1>5. OneFrame' => document' \in Documents[sent'.id]
  BY <1>1 DEF OneFrame
<1>. QED BY <1>1, <1>3, <1>4, <1>5 DEF FieldsInv, FieldsExact

LEMMA FieldsTaken ==
    ASSUME FramesInv, FramesInv', FieldsInv, NEW n, Data(n), UNCHANGED document,
           IF Arrives THEN Process(recv_buf') ELSE UNCHANGED <<s_seq, event>>
    PROVE  FieldsInv'
<1>1. /\ sent'.id = sent.id /\ sent.id \in 0..MaxFrames
      /\ sent'.op = sent.op /\ sent'.fin = sent.fin
      /\ handled \in Seq(0..MaxFrames) /\ handled' \in Seq(1..MaxFrames)
      /\ Len(handled) \in Nat
  <2>1. sent'.id = sent.id /\ sent'.op = sent.op /\ sent'.fin = sent.fin
    BY DEF Data, FramesInv, FramesShape, SentFrames
  <2>2. handled' \in Seq(1..MaxFrames)
    BY DEF FramesInv, FramesShape, FramesWhole
  <2>. QED BY <2>1, <2>2, LenProperties DEF FramesInv, FramesShape, SentFrames
<1>2. CASE ~Arrives
  <2>1. handled' = handled
    BY <1>2 DEF Data
  <2>. QED BY <1>1, <1>2, <2>1, FieldsKept
<1>3. CASE Arrives
  <2>. PICK buf : buf = recv_buf'
    OBVIOUS
  <2>1. Process(buf)
    BY <1>3
  <2>2. PICK x \in 0..MaxFrames :
           /\ handled' = Append(handled, x)
           /\ x = IF Complete(buf) THEN sent.id ELSE 0
    <3>1. handled' = Append(handled, IF Complete(buf) THEN sent.id ELSE 0)
      BY <1>3 DEF Data
    <3>2. 0 \in 0..MaxFrames
      BY FrameLimits
    <3>. QED BY <1>1, <3>1, <3>2
  <2>3. /\ Len(handled') = Len(handled) + 1
        /\ handled'[Len(handled) + 1] = x
        /\ \A i \in 1..Len(handled) : handled'[i] = handled[i]
    BY <1>1, <2>2, AppendProperties
  <2>4. x \in 1..MaxFrames
    <3>1. Len(handled) + 1 \in 1..Len(handled')
      BY <1>1, <2>3
    <3>. QED BY <1>1, <2>3, <3>1, ElementOfSeq
  <2>5. Complete(buf) /\ x = sent.id /\ sent.id \in 1..MaxFrames
    BY <2>2, <2>4
  <2>6. \A i \in 1..Len(handled') : handled'[i] <= sent'.id
    <3>1. \A i \in 1..Len(handled) : handled[i] <= sent.id
      BY DEF FieldsInv
    <3>. QED BY <1>1, <2>3, <2>5, <3>1
  <2>7. OneFrame' = OneFrame /\ document' = document
    BY <1>1 DEF OneFrame
  <2>8. CASE ~OneFrame
    BY <1>1, <2>6, <2>7, <2>8 DEF FieldsInv, FieldsExact
  <2>9. CASE OneFrame
    <3>1. document \in Documents[sent.id]
      BY <2>9 DEF FieldsInv
    <3>. PICK T : T = Tokenize(Lexemes(document))
      OBVIOUS
    <3>2. IF T = <<>> THEN event' = NoEvent /\ UNCHANGED s_seq
          ELSE event' = EventOf(T) /\ s_seq' = NextSeq(T)
      BY <2>1, <2>5, <2>9, Zenon DEF Process
    <3>3. IF Len(Nodes(document)) > JP_MAX_TOKENS THEN T = <<>>
          ELSE /\ T # <<>> /\ EventOf(T) = Expected(document)
               /\ NumberAt(document, "s") > 0 =>
                     NextSeq(T) = NumberAt(document, "s")
      BY <2>5, <3>1, DocumentIs, Processed
    <3>4. IF Len(Nodes(document)) > JP_MAX_TOKENS THEN event' = NoEvent
          ELSE /\ event' = Expected(document)
               /\ NumberAt(document, "s") > 0 =>
                     s_seq' = NumberAt(document, "s")
      BY <3>2, <3>3
    <3>. QED BY <1>1, <2>6, <2>7, <3>1, <3>4 DEF FieldsInv, FieldsExact
  <2>. QED BY <2>8, <2>9
<1>. QED BY <1>2, <1>3

LEMMA FieldsStep == FramesInv /\ FieldsInv /\ [InboundNext]_inbound => FieldsInv'
<1>. SUFFICES ASSUME FramesInv, FieldsInv, [InboundNext]_inbound PROVE FieldsInv'
  OBVIOUS
<1>1. FramesInv'
  BY InboundStepIsFrames, FramesNextSafe
<1>2. ASSUME NEW len \in Lengths, SendFrames(len),
             IF sent'.op = "text" THEN document' \in Documents[sent.id + 1]
             ELSE UNCHANGED document
      PROVE  FieldsInv'
  BY <1>2, FieldsSent
<1>3. CASE DropFrames /\ UNCHANGED <<document, s_seq, event>>
  <2>1. /\ sent'.id = sent.id /\ sent'.op = sent.op /\ sent'.fin = sent.fin
        /\ handled' = handled
    BY <1>3 DEF DropFrames, FramesInv, FramesShape, SentFrames
  <2>. QED BY <1>3, <2>1, FieldsKept
<1>4. ASSUME NEW n \in 1..Piece, Data(n), UNCHANGED document,
             IF Arrives THEN Process(recv_buf') ELSE UNCHANGED <<s_seq, event>>
      PROVE  FieldsInv'
  BY <1>1, <1>4, FieldsTaken
<1>5. CASE UNCHANGED inbound
  BY <1>5, FieldsKept DEF inbound, frames
<1>. QED BY <1>2, <1>3, <1>4, <1>5 DEF InboundNext

(* The fields handed on, and the sequence number, are those of the document *)
(* that Discord sent in one frame, whatever its members, their order and    *)
(* what is nested in them, and for every table of tokens, which passes over *)
(* a document that is larger as a whole (jsmn_parse, jp_find, jp_skip and   *)
(* the parsers of gateway.c, over whole frames alone: ws_event_handler).    *)
THEOREM InboundFieldsExact == InboundSpec => []FieldsExact
<1>1. InboundSpec => []FramesInv
  BY InboundImplementsFrames, FramesBegin, FramesNextSafe, PTL DEF FramesSpec
<1>2. FieldsInv => FieldsExact
  BY DEF FieldsInv
<1>. QED BY <1>1, <1>2, FieldsBegin, FieldsStep, PTL DEF InboundSpec

==============================================================================
