------------------------------- MODULE Gateway -------------------------------
(***************************************************************************)
(* The Discord gateway connection, discord/gateway.c: the gateway task     *)
(* that connects and reconnects, the event handlers that run on the        *)
(* WebSocket client's own task, and the heartbeat callback that runs on    *)
(* the esp_timer task.  The three share the static struct s with no lock.  *)
(*                                                                         *)
(* A handler is one action, split where another task can run in between:   *)
(* the heartbeat callback before it sends or closes, INVALID_SESSION       *)
(* around its two-second delay, connect_ws() around destroy and start.     *)
(* Message contents are abstracted to what the connection's control reads. *)
(***************************************************************************)
EXTENDS IdentifyCounter

CONSTANTS
    IDENTIFY_LIMIT,   \* the count at which HELLO refuses to IDENTIFY: 950
    REFRESH_EVERY,    \* reconnects between two refreshes of the URL: 10
    RETRY_MS,         \* the WebSocket client's own reconnect delay, which
                      \* connect_ws() leaves at the library's default
    Timely,           \* TRUE: Discord's ACK on a healthy connection takes
                      \* less than a heartbeat interval
    MaxDisruptions,   \* bound: drops, silences, closes and RECONNECTs by
                      \* Discord, INVALID_SESSIONs, and Strikes when Timely
    MaxDay,           \* bound: days of uptime
    MaxOwed           \* bound: unanswered heartbeats Discord asks for

ASSUME LimitAssumption   == IDENTIFY_LIMIT \in Nat
ASSUME RefreshAssumption == REFRESH_EVERY \in Nat \ {0}
ASSUME RetryAssumption   == RETRY_MS \in Nat
ASSUME TimelyAssumption  == Timely \in BOOLEAN
ASSUME BoundsAssumption  == /\ MaxDisruptions \in Nat
                            /\ MaxDay \in Nat
                            /\ MaxOwed \in Nat

VARIABLES
  \* gateway task: where it is, and its locals
    gwPc, url, backoff_ms, reconnect_count,
  \* the WebSocket client: its handle, its connection, Discord's end of it
    ws, link, srv, owed,
  \* struct s
    state, connected, resumable, session_id, seq,
    hb_ack_received, hb_sent, hb_timer, evg,
  \* where the heartbeat callback and the WebSocket task's handler are
    hbPc, wsPc,
  \* the counter in flash and the day number it is compared with
    budget, today,
  \* bound: what the environment did to the connection so far
    disruptions

taskVars  == <<gwPc, url, backoff_ms, reconnect_count>>
linkVars  == <<ws, link, srv, owed>>
sessVars  == <<resumable, session_id, seq>>
hbVars    == <<hb_ack_received, hb_sent, hb_timer, hbPc>>
countVars == <<budget, today>>
vars == <<taskVars, linkVars, state, connected, sessVars, hbVars, evg, wsPc,
          countVars, disruptions>>

GwPcs  == {"boot", "top", "connect", "clear", "start", "wait", "backoff",
           "halt", "gone"}
Links  == {"dead",      \* no client, or the client was destroyed
           "opening",   \* TCP, TLS and the WebSocket handshake
           "up",
           "silent",    \* Discord answers nothing more and nothing says so
           "closing",   \* a close is under way, not yet reported
           "retry",     \* reported down; the client will retry by itself
           "finished"}  \* the client has ended, and said so only by an event
                        \* that the handler does not know
States == {"DISCONNECTED", "CONNECTING", "IDENTIFYING", "READY", "RESUMING"}
(* What Discord does next on this connection: send HELLO, await an IDENTIFY *)
(* or RESUME, answer one or the other, or dispatch events.                  *)
Phases == {"greet", "await", "identified", "resumed", "open"}

TypeOK ==
    /\ gwPc \in GwPcs
    /\ url \in {"gateway", "resume"}
    /\ backoff_ms \in Nat /\ reconnect_count \in 0..(REFRESH_EVERY - 1)
    /\ ws \in {"null", "live", "freed"}
    /\ link \in Links /\ srv \in Phases /\ owed \in Nat
    /\ state \in States
    /\ connected \in BOOLEAN /\ resumable \in BOOLEAN
    /\ session_id \in BOOLEAN /\ seq \in BOOLEAN
    /\ hb_ack_received \in BOOLEAN /\ hb_sent \in BOOLEAN
    /\ hb_timer \in {"none", "once", "spent", "periodic"}
    /\ evg \in SUBSET {"DISCONNECTED", "STOP"}
    /\ hbPc \in {"idle", "send", "close"}
    /\ wsPc \in {"idle", "invalidWait"}
    /\ budget \in IdentifyRecord /\ today \in Nat
    /\ disruptions \in [other : Nat, invalids : Nat]

Init ==
    /\ gwPc = "boot" /\ url = "gateway"
    /\ backoff_ms = 1000 /\ reconnect_count = 0
    /\ ws = "null" /\ link = "dead" /\ srv = "greet" /\ owed = 0
    /\ state = "DISCONNECTED" /\ connected = FALSE
    /\ resumable = FALSE /\ session_id = FALSE /\ seq = FALSE
    /\ hb_ack_received = FALSE /\ hb_sent = FALSE /\ hb_timer = "none"
    /\ evg = {} /\ hbPc = "idle" /\ wsPc = "idle"
    /\ budget = [count |-> 0, day |-> 0] /\ today = 0
    /\ disruptions = [other |-> 0, invalids |-> 0]

-----------------------------------------------------------------------------
(* Sending. *)

(* send_frame() returns at once when s.connected is false; what it hands to *)
(* the client arrives when the connection is up.                            *)
FrameReaches == connected /\ ws = "live" /\ link = "up"

(* send_heartbeat(): a heartbeat that goes out, or into silence, is owed an *)
(* ACK.                                                                     *)
SendHeartbeat ==
    /\ hb_sent' = TRUE
    /\ owed' = IF connected /\ ws = "live" /\ link \in {"up", "silent"}
               THEN owed + 1 ELSE owed

(* send_identify() *)
SendIdentify ==
    /\ state' = "IDENTIFYING"
    /\ budget' = Bumped(budget, today)
    /\ srv' = IF FrameReaches THEN "identified" ELSE "await"

(* send_resume() *)
SendResume ==
    /\ state' = "RESUMING"
    /\ srv' = IF FrameReaches THEN "resumed" ELSE "await"

(* Mutant: the flags of the last connection survive HELLO. *)
StartHeartbeatKeepsFlags ==
    /\ hb_timer' = "once"
    /\ UNCHANGED <<hb_ack_received, hb_sent>>

(* start_heartbeat(): the timer is made anew, to fire once. *)
StartHeartbeat ==
    /\ hb_ack_received' = TRUE
    /\ hb_sent' = FALSE
    /\ hb_timer' = "once"

(* Mutant: READY and RESUMED leave the one-shot timer of HELLO. *)
RestartPeriodicForgotten == UNCHANGED hb_timer

(* restart_heartbeat_periodic() *)
RestartPeriodic == hb_timer' = IF hb_timer = "none" THEN "none" ELSE "periodic"

Disrupt(kind) ==
    /\ disruptions.other + disruptions.invalids < MaxDisruptions
    /\ disruptions' = [disruptions EXCEPT ![kind] = @ + 1]

-----------------------------------------------------------------------------
(* The gateway task. *)

(* The first GET /gateway/bot: without an answer the task deletes itself. *)
FetchInitial ==
    /\ gwPc = "boot"
    /\ gwPc' \in {"top", "gone"}
    /\ UNCHANGED <<url, backoff_ms, reconnect_count, linkVars, state,
                   connected, sessVars, hbVars, evg, wsPc, countVars,
                   disruptions>>

(* The top of the loop. *)
ChooseUrl ==
    /\ gwPc = "top"
    /\ evg' = {}
    /\ IF resumable /\ session_id
       THEN url' = "resume" /\ state' = "RESUMING"
       ELSE url' = "gateway" /\ state' = "CONNECTING"
    /\ gwPc' = IF ws = "null" THEN "start" ELSE "connect"
    /\ UNCHANGED <<backoff_ms, reconnect_count, linkVars, connected,
                   sessVars, hbVars, wsPc, countVars, disruptions>>

(* esp_websocket_client_destroy() waits for the client's task to finish the *)
(* handler it is in; nothing resets s.connected.                            *)
DestroyClient ==
    /\ gwPc \in {"connect", "halt"}
    /\ wsPc = "idle"
    /\ ws' = "freed" /\ link' = "dead"
    /\ gwPc' = IF gwPc = "halt" THEN "gone" ELSE "clear"
    /\ UNCHANGED <<url, backoff_ms, reconnect_count, srv, owed, state,
                   connected, sessVars, hbVars, evg, wsPc, countVars,
                   disruptions>>

ClearHandle ==
    /\ gwPc = "clear"
    /\ ws' = "null"
    /\ gwPc' = "start"
    /\ UNCHANGED <<url, backoff_ms, reconnect_count, link, srv, owed, state,
                   connected, sessVars, hbVars, evg, wsPc, countVars,
                   disruptions>>

StartClient ==
    /\ gwPc = "start"
    /\ ws' = "live" /\ link' = "opening"
    /\ gwPc' = "wait"
    /\ UNCHANGED <<url, backoff_ms, reconnect_count, srv, owed, state,
                   connected, sessVars, hbVars, evg, wsPc, countVars,
                   disruptions>>

(* xEventGroupWaitBits() clears both bits; STOP wins over DISCONNECTED. *)
WakeUp ==
    /\ gwPc = "wait" /\ evg # {}
    /\ evg' = {}
    /\ gwPc' = IF "STOP" \in evg THEN "halt" ELSE "backoff"
    /\ UNCHANGED <<url, backoff_ms, reconnect_count, linkVars, state,
                   connected, sessVars, hbVars, wsPc, countVars, disruptions>>

(* Mutant: the counter of reconnects is not reset at a refresh. *)
NextReconnectUnreset == reconnect_count + 1

(* The counter starts again when the URL is refreshed. *)
NextReconnect == (reconnect_count + 1) % REFRESH_EVERY

(* The delay, at least a second, outlasts a close() that the heartbeat      *)
(* callback is in, whose own timeout is a second.  The refresh of the URL   *)
(* changes nothing the model keeps, whether it succeeds or fails.           *)
BackoffElapsed ==
    /\ gwPc = "backoff" /\ hbPc # "close"
    /\ backoff_ms' = IF backoff_ms < 60000 THEN backoff_ms * 2 ELSE 60000
    /\ reconnect_count' = NextReconnect
    /\ gwPc' = "top"
    /\ UNCHANGED <<url, linkVars, state, connected, sessVars, hbVars, evg,
                   wsPc, countVars, disruptions>>

-----------------------------------------------------------------------------
(* ws_event_handler() and gateway_process_message(), on the client's task. *)

HandlerIdle == ws = "live" /\ wsPc = "idle"

(* The callback closes right after its test, sooner than a handshake ends.  *)
WsConnected ==
    /\ HandlerIdle /\ link = "opening" /\ hbPc # "close"
    /\ link' = "up" /\ srv' = "greet" /\ owed' = 0
    /\ connected' = TRUE
    /\ state' = "CONNECTING"
    /\ UNCHANGED <<taskVars, ws, sessVars, hbVars, evg, wsPc, countVars,
                   disruptions>>

(* Mutant: the task is woken only by the end of an open connection. *)
SignalDownIfConnected ==
    evg' = IF connected THEN evg \cup {"DISCONNECTED"} ELSE evg

SignalDown == evg' = evg \cup {"DISCONNECTED"}

(* WEBSOCKET_EVENT_DISCONNECTED or _ERROR, reported by the client. *)
WsDown ==
    /\ HandlerIdle
    /\ connected' = FALSE
    /\ SignalDown
    /\ link' = "retry"
    /\ UNCHANGED <<taskVars, ws, srv, owed, state, sessVars, hbVars, wsPc,
                   countVars>>

(* The connection, or the attempt to open it, fails. *)
WsDrops == /\ link \in {"opening", "up"}
           /\ WsDown
           /\ Disrupt("other")

(* A close that did not go smoothly, or a silent connection, is reported. *)
WsReports == /\ link \in {"closing", "silent"}
             /\ WsDown
             /\ UNCHANGED disruptions

(* Discord closes the connection. *)
WsCloses ==
    /\ HandlerIdle /\ link = "up" /\ Disrupt("other")
    /\ link' = "closing"
    /\ UNCHANGED <<taskVars, ws, srv, owed, state, connected, sessVars,
                   hbVars, evg, wsPc, countVars>>

(* A close, by either side, that went smoothly: the client ends with the    *)
(* events CLOSED and FINISH, for which the handler has no case.             *)
WsFinishes ==
    /\ HandlerIdle /\ link = "closing"
    /\ link' = "finished"
    /\ UNCHANGED <<taskVars, ws, srv, owed, state, connected, sessVars,
                   hbVars, evg, wsPc, countVars, disruptions>>

MessageIn(phases) == HandlerIdle /\ link = "up" /\ srv \in phases

(* Mutant: off by one. *)
LimitReachedLate == Rolled(budget, today).count > IDENTIFY_LIMIT

LimitReached == Rolled(budget, today).count >= IDENTIFY_LIMIT

Hello ==
    /\ MessageIn({"greet"})
    /\ StartHeartbeat
    /\ IF state = "RESUMING" /\ session_id
       THEN /\ SendResume
            /\ UNCHANGED <<budget, evg>>
       ELSE IF LimitReached
            THEN /\ evg' = evg \cup {"STOP"}
                 /\ budget' = Rolled(budget, today)
                 /\ srv' = "await"
                 /\ UNCHANGED state
            ELSE /\ SendIdentify
                 /\ UNCHANGED evg
    /\ UNCHANGED <<taskVars, ws, link, owed, connected, sessVars, hbPc, wsPc,
                   today, disruptions>>

(* DISPATCH READY, which carries the session and the first sequence number. *)
Ready ==
    /\ MessageIn({"identified"})
    /\ session_id' = TRUE /\ seq' = TRUE
    /\ state' = "READY"
    /\ RestartPeriodic
    /\ srv' = "open"
    /\ UNCHANGED <<taskVars, ws, link, owed, connected, resumable,
                   hb_ack_received, hb_sent, hbPc, evg, wsPc, countVars,
                   disruptions>>

(* DISPATCH RESUMED *)
Resumed ==
    /\ MessageIn({"resumed"})
    /\ seq' = TRUE
    /\ state' = "READY"
    /\ RestartPeriodic
    /\ srv' = "open"
    /\ UNCHANGED <<taskVars, ws, link, owed, connected, resumable, session_id,
                   hb_ack_received, hb_sent, hbPc, evg, wsPc, countVars,
                   disruptions>>

(* OP_HEARTBEAT: Discord asks for a heartbeat out of turn. *)
HeartbeatRequest ==
    /\ MessageIn({"open"}) /\ owed < MaxOwed
    /\ SendHeartbeat
    /\ UNCHANGED <<taskVars, ws, link, srv, state, connected, sessVars,
                   hb_ack_received, hb_timer, hbPc, evg, wsPc, countVars,
                   disruptions>>

(* OP_HEARTBEAT_ACK *)
HeartbeatAck ==
    /\ MessageIn(Phases) /\ owed > 0
    /\ owed' = owed - 1
    /\ hb_ack_received' = TRUE
    /\ UNCHANGED <<taskVars, ws, link, srv, state, connected, sessVars,
                   hb_sent, hb_timer, hbPc, evg, wsPc, countVars,
                   disruptions>>

(* OP_RECONNECT; Discord closes its end as well. *)
Reconnect ==
    /\ MessageIn({"open"}) /\ Disrupt("other")
    /\ resumable' = TRUE
    /\ state' = "DISCONNECTED"
    /\ link' = "closing"
    /\ UNCHANGED <<taskVars, ws, srv, owed, connected, session_id, seq,
                   hbVars, evg, wsPc, countVars>>

(* Mutant: the sequence number outlives its session. *)
ForgetSessionOnly(d) ==
    /\ resumable' = d
    /\ session_id' = (session_id /\ d)
    /\ UNCHANGED seq

ForgetSession(d) ==
    /\ resumable' = d
    /\ session_id' = (session_id /\ d)
    /\ seq' = (seq /\ d)

(* OP_INVALID_SESSION up to its delay. *)
InvalidSession ==
    /\ MessageIn({"identified", "resumed", "open"})
    /\ Disrupt("invalids")
    /\ \E d \in BOOLEAN : ForgetSession(d)
    /\ srv' = "await"
    /\ wsPc' = "invalidWait"
    /\ UNCHANGED <<taskVars, ws, link, owed, state, connected, hbVars, evg,
                   countVars>>

(* ... and after it: send_identify(), with no look at the daily count. *)
InvalidResume ==
    /\ wsPc = "invalidWait"
    /\ wsPc' = "idle"
    /\ SendIdentify
    /\ UNCHANGED <<taskVars, ws, link, owed, connected, sessVars, hbVars, evg,
                   today, disruptions>>

-----------------------------------------------------------------------------
(* hb_timer_cb(), on the esp_timer task. *)

(* A heartbeat sent on a healthy connection has its ACK before the timer    *)
(* fires again.                                                             *)
AnswerDue == link = "up" /\ owed > 0

(* The timer of an earlier connection, which nothing stops, may close the    *)
(* one that is being made or has just been made.                             *)
Strikes == link \in {"dead", "opening", "up"}

(* The flag goes down before the heartbeat goes out. *)
ExpectAck == hb_ack_received' = FALSE

HbFire ==
    /\ hb_timer \in {"once", "periodic"} /\ hbPc = "idle"
    /\ Timely => ~AnswerDue
    /\ hb_timer' = IF hb_timer = "once" THEN "spent" ELSE hb_timer
    /\ IF ~connected
       THEN UNCHANGED <<connected, hb_ack_received, hbPc, disruptions>>
       ELSE IF ~hb_ack_received /\ hb_sent
            THEN /\ connected' = FALSE
                 /\ hbPc' = "close"
                 /\ IF Timely /\ Strikes THEN Disrupt("other")
                    ELSE UNCHANGED disruptions
                 /\ UNCHANGED hb_ack_received
            ELSE /\ ExpectAck
                 /\ hbPc' = "send"
                 /\ UNCHANGED <<connected, disruptions>>
    /\ UNCHANGED <<taskVars, linkVars, state, sessVars, hb_sent, evg, wsPc,
                   countVars>>

HbSend ==
    /\ hbPc = "send"
    /\ SendHeartbeat
    /\ hbPc' = "idle"
    /\ UNCHANGED <<taskVars, ws, link, srv, state, connected, sessVars,
                   hb_ack_received, hb_timer, evg, wsPc, countVars,
                   disruptions>>

HbClose ==
    /\ hbPc = "close"
    /\ hbPc' = "idle"
    /\ link' = IF ws = "live" /\ link \in {"opening", "up", "silent"}
               THEN "closing" ELSE link
    /\ UNCHANGED <<taskVars, ws, srv, owed, state, connected, sessVars,
                   hb_ack_received, hb_sent, hb_timer, evg, wsPc, countVars,
                   disruptions>>

-----------------------------------------------------------------------------
(* The network, the client library and the clock. *)

GoesSilent ==
    /\ link = "up" /\ Disrupt("other")
    /\ link' = "silent"
    /\ UNCHANGED <<taskVars, ws, srv, owed, state, connected, sessVars,
                   hbVars, evg, wsPc, countVars>>

(* The client reconnects on its own after RETRY_MS, which happens when the  *)
(* gateway task sleeps longer than that.                                    *)
WsAutoRetry ==
    /\ ws = "live" /\ link = "retry"
    /\ gwPc = "backoff" /\ backoff_ms > RETRY_MS
    /\ link' = "opening"
    /\ UNCHANGED <<taskVars, ws, srv, owed, state, connected, sessVars,
                   hbVars, evg, wsPc, countVars, disruptions>>

DayPasses ==
    /\ today < MaxDay
    /\ today' = today + 1
    /\ UNCHANGED <<taskVars, linkVars, state, connected, sessVars, hbVars,
                   evg, wsPc, budget, disruptions>>

-----------------------------------------------------------------------------
GatewayTask == FetchInitial \/ ChooseUrl \/ DestroyClient \/ ClearHandle
                  \/ StartClient \/ WakeUp \/ BackoffElapsed
Message     == Hello \/ Ready \/ Resumed \/ HeartbeatRequest \/ HeartbeatAck
                  \/ Reconnect \/ InvalidSession \/ InvalidResume
WsEvent     == WsConnected \/ WsDrops \/ WsReports \/ WsCloses
                  \/ WsFinishes \/ Message
HbTimer     == HbFire \/ HbSend \/ HbClose
Environment == GoesSilent \/ WsAutoRetry \/ DayPasses

Next == GatewayTask \/ WsEvent \/ HbTimer \/ Environment

Spec == Init /\ [][Next]_vars

(* The tasks run: FreeRTOS and esp_timer schedule a task or a timer that is *)
(* ready.                                                                   *)
TimerFairness == WF_vars(HbFire) /\ WF_vars(HbSend) /\ WF_vars(HbClose)
TaskFairness  == WF_vars(GatewayTask) /\ WF_vars(InvalidResume)

(* Discord answers on a healthy connection, the client opens connections    *)
(* and brings a close to its end, one way or the other.  A silent           *)
(* connection it reports when its own ping fails, which is counted on only  *)
(* before READY, where no heartbeat looks.                                  *)
LiveSpec == /\ Spec /\ TimerFairness /\ TaskFairness
            /\ WF_vars(WsConnected)
            /\ WF_vars(/\ link = "closing" \/ state # "READY"
                       /\ WsReports \/ WsFinishes)
            /\ WF_vars(Hello) /\ WF_vars(Ready) /\ WF_vars(Resumed)
            /\ WF_vars(HeartbeatAck)

-----------------------------------------------------------------------------
(* Properties. *)

(* A READY session is kept alive: whenever the state says READY the         *)
(* heartbeat timer is periodic, never the one-shot timer of HELLO or none,  *)
(* over every reconnect (parse_ready, RESUMED and start_heartbeat).         *)
ReadyHeartbeats == state = "READY" => hb_timer = "periodic"

(* The gateway task never sleeps on a connection that has been reported     *)
(* down by DISCONNECTED or ERROR: the bit that wakes it is still set,       *)
(* although the top of the loop and the wait both clear it (gateway_task    *)
(* against ws_event_handler).                                               *)
NoLostWakeup ==
    gwPc = "wait" /\ link \in {"dead", "retry"} => "DISCONNECTED" \in evg

(* A session and its sequence number are present or absent together: a      *)
(* heartbeat or a RESUME never carries the number of a session that is      *)
(* gone (READY, INVALID_SESSION).                                           *)
SessionSeqAgree == session_id <=> seq

(* The daily count passes the limit only by IDENTIFYs that an               *)
(* INVALID_SESSION asked for, one for each: no other path of reconnecting   *)
(* overshoots (HELLO and INVALID_SESSION in gateway_process_message).       *)
OvershootPaid == budget.count <= IDENTIFY_LIMIT + disruptions.invalids

(* When Discord's ACKs beat the heartbeat interval, the missed-ACK test     *)
(* condemns no healthy connection once HELLO has come: not when a heartbeat *)
(* is under way across a reconnect, not when the timer fires before READY,  *)
(* not when Discord asks for a heartbeat out of turn (hb_timer_cb against   *)
(* HELLO, HEARTBEAT and HEARTBEAT_ACK).  Between CONNECTED and HELLO it     *)
(* may, for an ACK that only an earlier connection owed: nothing stops the  *)
(* timer at a disconnect.                                                   *)
HealthyNotCondemned ==
    [][hbPc = "idle" /\ hbPc' = "close" /\ link = "up"
          => srv = "greet" /\ owed = 0]_vars

(* A READY session that goes silent is given up, by the heartbeat alone     *)
(* (hb_timer_cb).                                                           *)
ZombieAbandoned ==
    (state = "READY" /\ connected /\ link = "silent")
        ~> (~connected \/ state # "READY" \/ link # "silent")

(* Once disruptions stop, the bot is READY for good, unless a close went    *)
(* smoothly while the gateway task waited, of which nothing wakes it: no    *)
(* reconnect, no heartbeat and no client retry leaves it stuck in another   *)
(* way or keeps it cycling (gateway_task, ws_event_handler, hb_timer_cb).   *)
EventuallyReady ==
    gwPc = "top" ~> \/ [](state = "READY" /\ connected /\ link = "up")
                    \/ gwPc = "wait" /\ link = "finished" /\ evg = {}

(* What the comments claim and the code does not do. *)

(* Comments at 272 and 442: a connection made to the resume URL, with a     *)
(* session to resume, answers HELLO with RESUME.                            *)
ResumesOnResumeUrl ==
    [][url = "resume" /\ session_id /\ srv = "greet" => srv' # "identified"]_vars
==============================================================================
