------------------------------ MODULE Commands ------------------------------
(***************************************************************************)
(* commands/dispatcher.c: the way of a slash command through the device.   *)
(* The WebSocket task puts an interaction in front of the ACK queue, the   *)
(* cmd_ack task acknowledges it to Discord and passes it on, the commands  *)
(* task carries it out and leaves requests with rest.c, whose queue is     *)
(* here as module Outbox describes it.  Discord accepts one ACK for an     *)
(* interaction, and only within its time window.                           *)
(***************************************************************************)
EXTENDS Integers, SequencesExt

CONSTANTS
    Interactions,   \* a slash command a user sends
    Kind,           \* what each of them asks for
    ACK_QUEUE,      \* 8
    CMD_QUEUE,      \* 8
    QUEUE_DEPTH,    \* 8, rest.c's
    MaxDeliveries,  \* bound: deliveries of one interaction (a replay)
    MaxFailures     \* bound: HTTP calls that fail, windows that close

(* "other" is a command, or an action of /mod, that dispatcher.c does not   *)
(* know: what is registered with Discord may be older or newer.             *)
Kinds == {"ping", "warn", "kick", "ban", "other"}

ASSUME CommandsAssumption ==
    /\ Kind \in [Interactions -> Kinds]
    /\ "none" \notin Interactions
    /\ {ACK_QUEUE, CMD_QUEUE, QUEUE_DEPTH} \subseteq Nat \ {0}
    /\ MaxDeliveries \in Nat /\ MaxFailures \in Nat

VARIABLES
    s_ack_queue, s_queue, rest_queue,
    ack,        \* cmd_ack task: [pc, ia]
    cmd,        \* commands task: [pc, ia], pc the requests still to make
    acked,      \* Discord: interactions it has accepted an ACK for
    expired,    \* Discord: interactions whose window has closed
    effects,    \* Discord: requests that took effect, [what, ia]
    runs,       \* history: how often a command was taken to be carried out
    lost,       \* history: interactions of which a call failed, was refused
                \* or was dropped at a full queue
    deliveries, failures

vars == <<s_ack_queue, s_queue, rest_queue, ack, cmd, acked, expired, effects,
          runs, lost, deliveries, failures>>

None == "none"
Effects == [what : {"kick", "ban", "log", "reply"}, ia : Interactions]

TypeOK ==
    /\ s_ack_queue \in Seq(Interactions) /\ Len(s_ack_queue) <= ACK_QUEUE
    /\ s_queue \in Seq(Interactions) /\ Len(s_queue) <= CMD_QUEUE
    /\ rest_queue \in Seq(Effects) /\ Len(rest_queue) <= QUEUE_DEPTH
    /\ ack \in [pc : {"idle", "post", "enqueue"}, ia : Interactions \cup {None}]
    /\ cmd \in [todo : Seq({"kick", "ban", "log", "reply"}),
                ia : Interactions \cup {None}]
    /\ acked \subseteq Interactions /\ expired \subseteq Interactions
    /\ effects \subseteq Effects
    /\ runs \in [Interactions -> Nat] /\ lost \subseteq Interactions
    /\ deliveries \in [Interactions -> 0..MaxDeliveries]
    /\ failures \in 0..MaxFailures

Init ==
    /\ s_ack_queue = <<>> /\ s_queue = <<>> /\ rest_queue = <<>>
    /\ ack = [pc |-> "idle", ia |-> None]
    /\ cmd = [todo |-> <<>>, ia |-> None]
    /\ acked = {} /\ expired = {} /\ effects = {}
    /\ runs = [i \in Interactions |-> 0] /\ lost = {}
    /\ deliveries = [i \in Interactions |-> 0]
    /\ failures = 0

Fails == failures < MaxFailures /\ failures' = failures + 1

Lose(i) == lost' = lost \cup {i}
LoseUnless(ok, i) == lost' = IF ok THEN lost ELSE lost \cup {i}

-----------------------------------------------------------------------------
(* events_dispatch_interaction(), commands_ack_interaction(): to the front, *)
(* with no wait; what does not fit is logged and lost.                      *)
Deliver(i) ==
    /\ deliveries[i] < MaxDeliveries
    /\ deliveries' = [deliveries EXCEPT ![i] = @ + 1]
    /\ s_ack_queue' = IF Len(s_ack_queue) < ACK_QUEUE
                      THEN <<i>> \o s_ack_queue ELSE s_ack_queue
    /\ LoseUnless(Len(s_ack_queue) < ACK_QUEUE, i)
    /\ UNCHANGED <<s_queue, rest_queue, ack, cmd, acked, expired, effects,
                   runs, failures>>

(* commands_ack_task *)
AckReceive ==
    /\ ack.pc = "idle" /\ s_ack_queue # <<>>
    /\ ack' = [pc |-> "post", ia |-> Head(s_ack_queue)]
    /\ s_ack_queue' = Tail(s_ack_queue)
    /\ UNCHANGED <<s_queue, rest_queue, cmd, acked, expired, effects, runs,
                   lost, deliveries, failures>>

AckOpen(i) == i \notin acked \cup expired

(* rest_interaction_ack_sync() returns ESP_OK: Discord took the ACK. *)
AckAccepted ==
    /\ ack.pc = "post" /\ AckOpen(ack.ia)
    /\ acked' = acked \cup {ack.ia}
    /\ ack' = [ack EXCEPT !.pc = "enqueue"]
    /\ UNCHANGED <<s_ack_queue, s_queue, rest_queue, cmd, expired, effects,
                   runs, lost, deliveries, failures>>

(* Mutant: a refused ACK does not stop the command. *)
AfterRefusal == [ack EXCEPT !.pc = "enqueue"]

AfterError == [pc |-> "idle", ia |-> None]

(* Discord refuses: acknowledged before, or too late. *)
AckRefused ==
    /\ ack.pc = "post" /\ ~AckOpen(ack.ia)
    /\ ack' = AfterError
    /\ LoseUnless(ack.ia \in acked, ack.ia)
    /\ UNCHANGED <<s_ack_queue, s_queue, rest_queue, cmd, acked, expired,
                   effects, runs, deliveries, failures>>

(* The call fails or times out, before or after Discord took the ACK. *)
AckLost ==
    /\ ack.pc = "post" /\ Fails
    /\ acked' \in {acked, IF AckOpen(ack.ia) THEN acked \cup {ack.ia}
                                             ELSE acked}
    /\ ack' = AfterError
    /\ Lose(ack.ia)
    /\ UNCHANGED <<s_ack_queue, s_queue, rest_queue, cmd, expired, effects,
                   runs, deliveries>>

(* Mutant: nothing is passed on while the commands task is at work. *)
CanPass == Len(s_queue) < CMD_QUEUE /\ cmd.ia = None

(* Mutant: off by one. *)
HasRoomForOneMore == Len(s_queue) <= CMD_QUEUE

HasRoom == Len(s_queue) < CMD_QUEUE

(* commands_enqueue(): after 200 ms without room the command is dropped.    *)
PassOn ==
    /\ ack.pc = "enqueue"
    /\ s_queue' = IF HasRoom THEN Append(s_queue, ack.ia) ELSE s_queue
    /\ LoseUnless(Len(s_queue) < CMD_QUEUE, ack.ia)
    /\ ack' = [pc |-> "idle", ia |-> None]
    /\ UNCHANGED <<s_ack_queue, rest_queue, cmd, acked, expired, effects,
                   runs, deliveries, failures>>

-----------------------------------------------------------------------------
(* commands_task: cmd_ping() and cmd_mod(), as the requests they make, in   *)
(* their order.  Nothing looks at what becomes of a request.                *)

(* Mutant: the reply is sent first. *)
ReplyFirst(k) == CASE k = "kick" -> <<"reply", "kick">>
                   [] k = "ban"  -> <<"reply", "ban">>
                   [] k = "warn" -> <<"reply", "log">>
                   [] k = "ping" -> <<"reply">>
                   [] k = "other" -> <<>>

RequestsOf(k) == CASE k = "kick" -> <<"kick", "reply">>
                   [] k = "ban"  -> <<"ban", "reply">>
                   [] k = "warn" -> <<"reply", "log">>
                   [] k = "ping" -> <<"reply">>
                   [] k = "other" -> <<>>

(* A command that asks for nothing is over as soon as it is taken. *)
Work(i) == IF RequestsOf(Kind[i]) = <<>> THEN [todo |-> <<>>, ia |-> None]
           ELSE [todo |-> RequestsOf(Kind[i]), ia |-> i]

CmdReceive ==
    /\ cmd.ia = None /\ s_queue # <<>>
    /\ cmd' = Work(Head(s_queue))
    /\ runs' = [runs EXCEPT ![Head(s_queue)] = @ + 1]
    /\ s_queue' = Tail(s_queue)
    /\ UNCHANGED <<s_ack_queue, rest_queue, ack, acked, expired, effects,
                   lost, deliveries, failures>>

Request == [what |-> Head(cmd.todo), ia |-> cmd.ia]

NextTodo == IF Len(cmd.todo) = 1 THEN [todo |-> <<>>, ia |-> None]
            ELSE [cmd EXCEPT !.todo = Tail(@)]

(* rest_delete(), rest_post(), rest_patch_unauth(): queued, or dropped when *)
(* the queue stays full for 100 ms.                                         *)
CmdQueues ==
    /\ cmd.todo # <<>> /\ Head(cmd.todo) # "ban"
    /\ rest_queue' = IF Len(rest_queue) < QUEUE_DEPTH
                     THEN Append(rest_queue, Request) ELSE rest_queue
    /\ LoseUnless(Len(rest_queue) < QUEUE_DEPTH, cmd.ia)
    /\ cmd' = NextTodo
    /\ UNCHANGED <<s_ack_queue, s_queue, ack, acked, expired, effects, runs,
                   deliveries, failures>>

(* rest_put_sync(): done, or failed, before the command goes on. *)
CmdBans ==
    /\ cmd.todo # <<>> /\ Head(cmd.todo) = "ban"
    /\ \/ effects' = effects \cup {Request} /\ UNCHANGED <<lost, failures>>
       \/ effects' = effects /\ Fails /\ Lose(cmd.ia)
    /\ cmd' = NextTodo
    /\ UNCHANGED <<s_ack_queue, s_queue, rest_queue, ack, acked, expired,
                   runs, deliveries>>

-----------------------------------------------------------------------------
(* rest_task with Discord behind it: a request takes effect or is refused.  *)
RestServes ==
    /\ rest_queue # <<>>
    /\ rest_queue' = Tail(rest_queue)
    /\ \/ effects' = effects \cup {Head(rest_queue)}
          /\ UNCHANGED <<lost, failures>>
       \/ effects' = effects /\ Fails /\ Lose(Head(rest_queue).ia)
    /\ UNCHANGED <<s_ack_queue, s_queue, ack, cmd, acked, expired, runs,
                   deliveries>>

(* Discord's three seconds are over. *)
Expire(i) ==
    /\ deliveries[i] > 0 /\ AckOpen(i) /\ Fails
    /\ expired' = expired \cup {i}
    /\ UNCHANGED <<s_ack_queue, s_queue, rest_queue, ack, cmd, acked, effects,
                   runs, lost, deliveries>>

AckTask == AckReceive \/ AckAccepted \/ AckRefused \/ AckLost \/ PassOn
CmdTask == CmdReceive \/ CmdQueues \/ CmdBans

Next == \/ AckTask \/ CmdTask \/ RestServes
        \/ \E i \in Interactions : Deliver(i) \/ Expire(i)

Spec == Init /\ [][Next]_vars

(* The three tasks run. *)
LiveSpec == Spec /\ WF_vars(AckTask) /\ WF_vars(CmdTask) /\ WF_vars(RestServes)

-----------------------------------------------------------------------------
(* Properties. *)

(* A command is carried out once at most, however often it is delivered and *)
(* however its ACK fails, and never without an ACK that Discord took in     *)
(* time: two warnings or a kick nobody asked for cannot come of a replay    *)
(* (commands_ack_task passes on only what ESP_OK came back for).            *)
OncePerAck == \A i \in Interactions :
                 /\ runs[i] <= 1
                 /\ runs[i] = 1 => i \in acked

(* The user is never told of a kick or a ban whose request is still to be   *)
(* sent: the reply comes behind it on every path, across two queues and a   *)
(* synchronous call (cmd_mod, followup, rest_task).                         *)
ReplyFollowsAction ==
    \A i \in Interactions :
       [what |-> "reply", ia |-> i] \in effects =>
          /\ \A n \in DOMAIN rest_queue :
                rest_queue[n].ia = i => rest_queue[n].what = "log"
          /\ cmd.ia = i => \A n \in DOMAIN cmd.todo : cmd.todo[n] = "log"

(* Every interaction that arrives is answered, unless one of its own calls   *)
(* failed, was refused or found a queue full, which the code logs: none is  *)
(* stuck between the three queues or lost for another's sake, although the  *)
(* ACK queue is last in, first out (the three tasks' loops).  The exception *)
(* is one that asks for what dispatcher.c does not know: commands_task      *)
(* takes it, after its ACK, and never replies.                              *)
Unknown(i) == Kind[i] = "other"

EveryoneAnswered ==
    \A i \in Interactions :
       (deliveries[i] > 0)
          ~> \/ i \in lost \/ [what |-> "reply", ia |-> i] \in effects
             \/ Unknown(i) /\ i \in acked /\ runs[i] = 1
=============================================================================
