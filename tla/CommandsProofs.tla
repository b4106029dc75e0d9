--------------------------- MODULE CommandsProofs ---------------------------
(***************************************************************************)
(* The safety properties of Commands, for every value of its constants.    *)
(***************************************************************************)
EXTENDS Commands, SequenceTheorems, TLAPS

Whats == {"kick", "ban", "log", "reply"}

(* A task that is at work has an interaction. *)
BusyInv ==
    /\ ack.pc # "idle" => ack.ia \in Interactions
    /\ cmd.todo # <<>> => cmd.ia \in Interactions
    /\ cmd.todo = <<>> => cmd.ia = None

(* The right to carry out an interaction: it comes with the ACK that        *)
(* Discord took, and is in one place, with the cmd_ack task, in the command *)
(* queue or, used up, with the commands task.                               *)
TokenInv ==
    /\ ack.pc = "enqueue" =>
          /\ ack.ia \in acked /\ runs[ack.ia] = 0
          /\ \A n \in 1..Len(s_queue) : s_queue[n] # ack.ia
    /\ \A n \in 1..Len(s_queue) :
          s_queue[n] \in acked /\ runs[s_queue[n]] = 0
    /\ \A m, n \in 1..Len(s_queue) : s_queue[m] = s_queue[n] => m = n
    /\ OncePerAck

(* What there is of an interaction behind the commands task.                *)
RunInv ==
    /\ cmd.ia # None => runs[cmd.ia] # 0
    /\ \A n \in 1..Len(rest_queue) : runs[rest_queue[n].ia] # 0
    /\ \A e \in effects : runs[e.ia] # 0

(* A reply has only a log entry behind it: in what is still to be made, in  *)
(* the queue, and over the two.                                             *)
OrderInv ==
    /\ \A m, n \in 1..Len(cmd.todo) :
          m < n /\ cmd.todo[m] = "reply" => cmd.todo[n] = "log"
    /\ \A m, n \in 1..Len(rest_queue) :
          m < n /\ rest_queue[m].what = "reply"
                /\ rest_queue[m].ia = rest_queue[n].ia
             => rest_queue[n].what = "log"
    /\ \A m \in 1..Len(rest_queue), n \in 1..Len(cmd.todo) :
          rest_queue[m].what = "reply" /\ rest_queue[m].ia = cmd.ia
             => cmd.todo[n] = "log"

(* ReplyFollowsAction, with the domains written out.                        *)
RepliedInv ==
    \A e \in effects : e.what = "reply" =>
       /\ \A n \in 1..Len(rest_queue) :
             rest_queue[n].ia = e.ia => rest_queue[n].what = "log"
       /\ cmd.ia = e.ia => \A n \in 1..Len(cmd.todo) : cmd.todo[n] = "log"
-----------------------------------------------------------------------------
LEMMA TailFacts ==
    ASSUME NEW S, NEW q \in Seq(S), q # <<>>
    PROVE  /\ Len(q) \in Nat \ {0} /\ Head(q) = q[1] /\ Head(q) \in S
           /\ Tail(q) \in Seq(S) /\ Len(Tail(q)) = Len(q) - 1
           /\ \A n \in 1..Len(Tail(q)) : /\ n + 1 \in 1..Len(q)
                                        /\ Tail(q)[n] = q[n + 1]
BY HeadTailProperties, LenProperties, EmptySeq

LEMMA AppendFacts ==
    ASSUME NEW S, NEW q \in Seq(S), NEW x \in S
    PROVE  /\ Append(q, x) \in Seq(S) /\ Len(Append(q, x)) = Len(q) + 1
           /\ \A n \in 1..Len(q) : Append(q, x)[n] = q[n]
           /\ Append(q, x)[Len(q) + 1] = x
BY LenProperties

LEMMA Requests ==
    ASSUME NEW k \in Kinds
    PROVE  /\ RequestsOf(k) \in Seq(Whats)
           /\ \A m, n \in 1..Len(RequestsOf(k)) :
                 m < n /\ RequestsOf(k)[m] = "reply"
                    => RequestsOf(k)[n] = "log"
<1>1. CASE k = "kick"
  <2>1. RequestsOf(k) = <<"kick", "reply">> BY <1>1 DEF RequestsOf
  <2>. QED BY <2>1 DEF Whats
<1>2. CASE k = "ban"
  <2>1. RequestsOf(k) = <<"ban", "reply">> BY <1>2 DEF RequestsOf
  <2>. QED BY <2>1 DEF Whats
<1>3. CASE k = "warn"
  <2>1. RequestsOf(k) = <<"reply", "log">> BY <1>3 DEF RequestsOf
  <2>. QED BY <2>1 DEF Whats
<1>4. CASE k = "ping"
  <2>1. RequestsOf(k) = <<"reply">> BY <1>4 DEF RequestsOf
  <2>. QED BY <2>1 DEF Whats
<1>5. CASE k = "other"
  <2>1. RequestsOf(k) = <<>> BY <1>5 DEF RequestsOf
  <2>. QED BY <2>1 DEF Whats
<1>. QED BY <1>1, <1>2, <1>3, <1>4, <1>5 DEF Kinds

(* The work on a command: its requests, in their order; none makes it over.  *)
LEMMA WorkFacts ==
    ASSUME NEW i \in Interactions
    PROVE  /\ Work(i) \in [todo : Seq(Whats), ia : Interactions \cup {None}]
           /\ Work(i).todo = RequestsOf(Kind[i])
           /\ Work(i).todo # <<>> => Work(i).ia = i
           /\ Work(i).todo = <<>> => Work(i).ia = None
           /\ \A m, n \in 1..Len(Work(i).todo) :
                 m < n /\ Work(i).todo[m] = "reply" => Work(i).todo[n] = "log"
<1>1. Kind[i] \in Kinds
  BY CommandsAssumption
<1>. DEFINE r == RequestsOf(Kind[i])
<1>2. /\ r \in Seq(Whats)
      /\ \A m, n \in 1..Len(r) : m < n /\ r[m] = "reply" => r[n] = "log"
  BY <1>1, Requests
<1>. HIDE DEF r
<1>3. Work(i) = IF r = <<>> THEN [todo |-> <<>>, ia |-> None]
                ELSE [todo |-> r, ia |-> i]
  BY DEF Work, r
<1>4. Work(i) = [todo |-> r, ia |-> IF r = <<>> THEN None ELSE i]
  BY <1>3
<1>5. Work(i).todo = r /\ Work(i).ia = IF r = <<>> THEN None ELSE i
  BY <1>4
<1>. QED BY <1>2, <1>4, <1>5 DEF r

LEMMA TypeInit == Init => TypeOK /\ BusyInv
BY CommandsAssumption, EmptySeq DEF Init, TypeOK, BusyInv, None

(* What a task leaves of its work after one request.                        *)
LEMMA NextTodoFacts ==
    ASSUME TypeOK, BusyInv, cmd.todo # <<>>
    PROVE  /\ NextTodo \in [todo : Seq(Whats), ia : Interactions \cup {None}]
           /\ NextTodo.todo # <<>> => NextTodo.ia = cmd.ia
           /\ NextTodo.todo = <<>> => NextTodo.ia = None
           /\ NextTodo.ia = cmd.ia \/ NextTodo.ia = None
           /\ \A n \in 1..Len(NextTodo.todo) :
                 /\ n + 1 \in 1..Len(cmd.todo)
                 /\ NextTodo.todo[n] = cmd.todo[n + 1]
<1>1. cmd \in [todo : Seq(Whats), ia : Interactions \cup {None}]
  BY DEF TypeOK, Whats
<1>2. cmd.todo \in Seq(Whats) /\ cmd.ia \in Interactions \cup {None}
  BY <1>1
<1>3. /\ Len(cmd.todo) \in Nat \ {0} /\ Tail(cmd.todo) \in Seq(Whats)
      /\ Len(Tail(cmd.todo)) = Len(cmd.todo) - 1
      /\ \A n \in 1..Len(Tail(cmd.todo)) :
            /\ n + 1 \in 1..Len(cmd.todo)
            /\ Tail(cmd.todo)[n] = cmd.todo[n + 1]
  BY <1>2, TailFacts
<1>4. CASE Len(cmd.todo) = 1
  <2>1. NextTodo = [todo |-> <<>>, ia |-> None]
    BY <1>4 DEF NextTodo
  <2>2. <<>> \in Seq(Whats) /\ Len(<<>>) = 0
    BY EmptySeq
  <2>. QED BY <2>1, <2>2
<1>5. CASE Len(cmd.todo) # 1
  <2>1. NextTodo = [cmd EXCEPT !.todo = Tail(@)]
    BY <1>5 DEF NextTodo
  <2>2. /\ NextTodo.todo = Tail(cmd.todo) /\ NextTodo.ia = cmd.ia
        /\ NextTodo \in [todo : Seq(Whats), ia : Interactions \cup {None}]
    BY <1>1, <1>3, <2>1
  <2>3. Tail(cmd.todo) # <<>>
    <3>1. Len(Tail(cmd.todo)) # 0 /\ Len(<<>>) = 0
      BY <1>3, <1>5
    <3>. QED BY <3>1, Zenon
  <2>. QED BY <1>3, <2>2, <2>3
<1>. QED BY <1>4, <1>5

LEMMA TypeStep == TypeOK /\ BusyInv /\ [Next]_vars => TypeOK' /\ BusyInv'
<1>. SUFFICES ASSUME TypeOK, BusyInv, [Next]_vars PROVE TypeOK' /\ BusyInv'
  OBVIOUS
<1>q. /\ s_ack_queue \in Seq(Interactions) /\ s_queue \in Seq(Interactions)
      /\ rest_queue \in Seq(Effects)
      /\ {Len(s_ack_queue), Len(s_queue), Len(rest_queue)} \subseteq Nat
      /\ Len(s_ack_queue) <= ACK_QUEUE /\ Len(s_queue) <= CMD_QUEUE
      /\ Len(rest_queue) <= QUEUE_DEPTH
      /\ {ACK_QUEUE, CMD_QUEUE, QUEUE_DEPTH} \subseteq Nat
  BY CommandsAssumption, LenProperties DEF TypeOK
<1>l. ASSUME NEW i \in Interactions, NEW ok,
             LoseUnless(ok, i) \/ Lose(i) \/ lost' = lost
      PROVE  lost' \subseteq Interactions
  BY <1>l DEF LoseUnless, Lose, TypeOK
<1>f. ASSUME Fails \/ failures' = failures
      PROVE  failures' \in 0..MaxFailures
  BY <1>f, CommandsAssumption DEF Fails, TypeOK
<1>r. ASSUME NEW S, NEW q \in Seq(S), q # <<>>, NEW N \in Nat, Len(q) <= N
      PROVE  Tail(q) \in Seq(S) /\ Len(Tail(q)) <= N
  BY <1>r, TailFacts
<1>1. CASE AckReceive
  <2>1. /\ s_ack_queue' \in Seq(Interactions) /\ Len(s_ack_queue') <= ACK_QUEUE
        /\ Head(s_ack_queue) \in Interactions
    BY <1>1, <1>q, TailFacts DEF AckReceive
  <2>. QED BY <1>1, <2>1 DEF AckReceive, TypeOK, BusyInv
<1>2. CASE AckAccepted
  BY <1>2 DEF AckAccepted, TypeOK, BusyInv
<1>3. CASE AckRefused
  <2>1. lost' \subseteq Interactions
    BY <1>3, <1>l DEF AckRefused, BusyInv
  <2>. QED BY <1>3, <2>1 DEF AckRefused, AfterError, TypeOK, BusyInv
<1>4. CASE AckLost
  <2>1. lost' \subseteq Interactions /\ failures' \in 0..MaxFailures
    BY <1>4, <1>l, <1>f DEF AckLost, BusyInv
  <2>2. acked' \subseteq Interactions
    BY <1>4 DEF AckLost, BusyInv, TypeOK
  <2>. QED BY <1>4, <2>1, <2>2 DEF AckLost, AfterError, TypeOK, BusyInv
<1>5. CASE PassOn
  <2>1. ack.ia \in Interactions
    BY <1>5 DEF PassOn, BusyInv
  <2>2. lost' \subseteq Interactions
    BY <1>5, <1>l, <2>1 DEF PassOn
  <2>3. s_queue' \in Seq(Interactions) /\ Len(s_queue') <= CMD_QUEUE
    BY <1>5, <1>q, <2>1, AppendFacts DEF PassOn, HasRoom
  <2>. QED BY <1>5, <2>2, <2>3 DEF PassOn, TypeOK, BusyInv
<1>6. CASE CmdReceive
  <2>1. /\ s_queue' \in Seq(Interactions) /\ Len(s_queue') <= CMD_QUEUE
        /\ Head(s_queue) \in Interactions
    BY <1>6, <1>q, TailFacts DEF CmdReceive
  <2>2. /\ cmd' = Work(Head(s_queue))
        /\ cmd' \in [todo : Seq(Whats), ia : Interactions \cup {None}]
        /\ cmd'.todo # <<>> => cmd'.ia \in Interactions
        /\ cmd'.todo = <<>> => cmd'.ia = None
    BY <1>6, <2>1, WorkFacts DEF CmdReceive
  <2>3. runs' \in [Interactions -> Nat]
    BY <1>6, <2>1 DEF CmdReceive, TypeOK
  <2>. QED BY <1>6, <2>1, <2>2, <2>3 DEF CmdReceive, TypeOK, BusyInv, Whats
<1>c. ASSUME cmd.todo # <<>>, cmd' = NextTodo
      PROVE  /\ cmd' \in [todo : Seq({"kick", "ban", "log", "reply"}),
                          ia : Interactions \cup {None}]
             /\ cmd'.todo # <<>> => cmd'.ia \in Interactions
             /\ cmd'.todo = <<>> => cmd'.ia = None
             /\ cmd.ia \in Interactions /\ Request \in Effects
  <2>1. cmd.ia \in Interactions /\ cmd.todo \in Seq(Whats)
    BY <1>c DEF BusyInv, TypeOK, Whats
  <2>2. Head(cmd.todo) \in Whats
    BY <1>c, <2>1, TailFacts
  <2>3. Request \in Effects
    BY <2>1, <2>2 DEF Request, Effects, Whats
  <2>. QED BY <1>c, <2>1, <2>3, NextTodoFacts DEF Whats
<1>7. CASE CmdQueues
  <2>1. rest_queue' \in Seq(Effects) /\ Len(rest_queue') <= QUEUE_DEPTH
    BY <1>7, <1>c, <1>q, AppendFacts DEF CmdQueues
  <2>2. lost' \subseteq Interactions
    BY <1>7, <1>c, <1>l DEF CmdQueues
  <2>. QED BY <1>7, <1>c, <2>1, <2>2 DEF CmdQueues, TypeOK, BusyInv
<1>8. CASE CmdBans
  <2>1. effects' \subseteq Effects
    BY <1>8, <1>c DEF CmdBans, TypeOK
  <2>2. lost' \subseteq Interactions /\ failures' \in 0..MaxFailures
    BY <1>8, <1>c, <1>l, <1>f DEF CmdBans
  <2>. QED BY <1>8, <1>c, <2>1, <2>2 DEF CmdBans, TypeOK, BusyInv
<1>9. CASE RestServes
  <2>1. /\ rest_queue' \in Seq(Effects) /\ Len(rest_queue') <= QUEUE_DEPTH
        /\ Head(rest_queue) \in Effects
    BY <1>9, <1>q, TailFacts DEF RestServes
  <2>2. Head(rest_queue).ia \in Interactions /\ effects' \subseteq Effects
    BY <1>9, <2>1 DEF RestServes, Effects, TypeOK
  <2>3. lost' \subseteq Interactions /\ failures' \in 0..MaxFailures
    BY <1>9, <2>2, <1>l, <1>f DEF RestServes
  <2>. QED BY <1>9, <2>1, <2>2, <2>3 DEF RestServes, TypeOK, BusyInv
<1>10. ASSUME NEW i \in Interactions, Deliver(i) PROVE TypeOK' /\ BusyInv'
  <2>1. <<i>> \in Seq(Interactions) /\ Len(<<i>>) = 1
    OBVIOUS
  <2>2. /\ s_ack_queue' \in Seq(Interactions)
        /\ Len(s_ack_queue') <= ACK_QUEUE
    BY <1>10, <1>q, <2>1, ConcatProperties DEF Deliver
  <2>3. lost' \subseteq Interactions
    BY <1>10, <1>l DEF Deliver
  <2>4. deliveries' \in [Interactions -> 0..MaxDeliveries]
    <3>1. /\ deliveries \in [Interactions -> 0..MaxDeliveries]
          /\ deliveries[i] < MaxDeliveries
          /\ deliveries' = [deliveries EXCEPT ![i] = deliveries[i] + 1]
      BY <1>10 DEF Deliver, TypeOK
    <3>2. deliveries[i] + 1 \in 0..MaxDeliveries
      BY <3>1, CommandsAssumption
    <3>. QED BY <3>1, <3>2
  <2>. QED BY <1>10, <2>2, <2>3, <2>4 DEF Deliver, TypeOK, BusyInv
<1>11. ASSUME NEW i \in Interactions, Expire(i) PROVE TypeOK' /\ BusyInv'
  <2>1. failures' \in 0..MaxFailures /\ expired' \subseteq Interactions
    BY <1>11, <1>f DEF Expire, TypeOK
  <2>. QED BY <1>11, <2>1 DEF Expire, TypeOK, BusyInv
<1>12. CASE UNCHANGED vars BY <1>12 DEF vars, TypeOK, BusyInv
<1>. QED
  BY <1>1, <1>2, <1>3, <1>4, <1>5, <1>6, <1>7, <1>8, <1>9, <1>10, <1>11,
     <1>12 DEF Next, AckTask, CmdTask

(* Every variable keeps its type and every queue its depth, whatever the    *)
(* interactions, the depths and the bounds (the three tasks of              *)
(* dispatcher.c).                                                           *)
THEOREM TypeCorrect == Spec => []TypeOK
BY TypeInit, TypeStep, PTL DEF Spec

-----------------------------------------------------------------------------
LEMMA TokenStep ==
    TypeOK /\ BusyInv /\ TokenInv /\ [Next]_vars => TokenInv'
<1>. SUFFICES ASSUME TypeOK, BusyInv, TokenInv, [Next]_vars PROVE TokenInv'
  OBVIOUS
<1>t. s_queue \in Seq(Interactions) /\ runs \in [Interactions -> Nat]
  BY DEF TypeOK
<1>u. /\ ack.pc = "enqueue" =>
            /\ ack.ia \in acked /\ runs[ack.ia] = 0
            /\ \A n \in 1..Len(s_queue) : s_queue[n] # ack.ia
      /\ \A n \in 1..Len(s_queue) :
            s_queue[n] \in acked /\ runs[s_queue[n]] = 0
      /\ \A m, n \in 1..Len(s_queue) : s_queue[m] = s_queue[n] => m = n
      /\ \A i \in Interactions : runs[i] <= 1 /\ (runs[i] = 1 => i \in acked)
  BY DEF TokenInv, OncePerAck
<1>s. ASSUME UNCHANGED <<s_queue, runs>>, acked \subseteq acked',
             ack'.pc = "enqueue" => ack' = ack
      PROVE  TokenInv'
  BY <1>s, <1>u DEF TokenInv, OncePerAck
<1>1. CASE AckReceive
  BY <1>1, <1>s DEF AckReceive
<1>2. CASE AckAccepted
  <2>1. ack'.ia = ack.ia /\ ack.ia \in Interactions /\ ack.ia \notin acked
    BY <1>2 DEF AckAccepted, AckOpen, BusyInv, TypeOK
  <2>2. runs[ack.ia] = 0
    BY <2>1, <1>t, <1>u
  <2>3. \A n \in 1..Len(s_queue) : s_queue[n] # ack.ia
    BY <2>1, <1>u
  <2>4. UNCHANGED <<s_queue, runs>> /\ acked' = acked \cup {ack.ia}
    BY <1>2 DEF AckAccepted
  <2>. QED BY <2>1, <2>2, <2>3, <2>4, <1>u DEF TokenInv, OncePerAck
<1>3. CASE AckRefused \/ AckLost
  BY <1>3, <1>s DEF AckRefused, AckLost, AfterError
<1>4. CASE PassOn
  <2>1. /\ ack.pc = "enqueue" /\ ack.ia \in Interactions
        /\ ack'.pc = "idle" /\ UNCHANGED <<acked, runs>>
    BY <1>4 DEF PassOn, BusyInv
  <2>2. CASE HasRoom
    <3>1. /\ Len(s_queue') = Len(s_queue) + 1 /\ Len(s_queue) \in Nat
          /\ \A n \in 1..Len(s_queue) : s_queue'[n] = s_queue[n]
          /\ s_queue'[Len(s_queue) + 1] = ack.ia
      BY <1>4, <1>t, <2>1, <2>2, AppendFacts, LenProperties DEF PassOn
    <3>2. \A n \in 1..Len(s_queue') :
             n \in 1..Len(s_queue) \/ n = Len(s_queue) + 1
      BY <3>1
    <3>3. \A n \in 1..Len(s_queue') :
             s_queue'[n] \in acked /\ runs[s_queue'[n]] = 0
      BY <1>u, <2>1, <3>1, <3>2
    <3>4. \A m, n \in 1..Len(s_queue') : s_queue'[m] = s_queue'[n] => m = n
      BY <1>u, <2>1, <3>1, <3>2
    <3>. QED BY <1>u, <2>1, <3>3, <3>4 DEF TokenInv, OncePerAck
  <2>3. CASE ~HasRoom
    BY <1>4, <1>s, <2>1, <2>3 DEF PassOn
  <2>. QED BY <2>2, <2>3
<1>5. CASE CmdReceive
  <2>1. /\ UNCHANGED <<ack, acked>> /\ s_queue # <<>>
        /\ s_queue' = Tail(s_queue)
        /\ runs' = [runs EXCEPT ![Head(s_queue)] = @ + 1]
    BY <1>5 DEF CmdReceive
  <2>2. /\ Len(s_queue) \in Nat \ {0} /\ Head(s_queue) = s_queue[1]
        /\ Head(s_queue) \in Interactions
        /\ \A n \in 1..Len(s_queue') : /\ n + 1 \in 1..Len(s_queue)
                                      /\ s_queue'[n] = s_queue[n + 1]
    BY <1>t, <2>1, TailFacts
  <2>3. /\ runs'[s_queue[1]] = 1
        /\ \A i \in Interactions \ {s_queue[1]} : runs'[i] = runs[i]
    BY <1>t, <1>u, <2>1, <2>2
  <2>4. \A n \in 1..Len(s_queue') :
           s_queue'[n] # s_queue[1] /\ s_queue'[n] \in Interactions
    <3>. SUFFICES ASSUME NEW n \in 1..Len(s_queue')
                  PROVE  s_queue'[n] # s_queue[1] /\ s_queue'[n] \in Interactions
      OBVIOUS
    <3>1. /\ n + 1 \in 1..Len(s_queue) /\ 1 \in 1..Len(s_queue) /\ n + 1 # 1
          /\ s_queue'[n] = s_queue[n + 1]
      BY <2>2
    <3>2. s_queue[n + 1] \in Interactions
      BY <1>t, <3>1, ElementOfSeq
    <3>3. s_queue[n + 1] # s_queue[1]
      BY <1>u, <3>1
    <3>. QED BY <3>1, <3>2, <3>3
  <2>5. \A n \in 1..Len(s_queue') :
           s_queue'[n] \in acked /\ runs'[s_queue'[n]] = 0
    BY <1>u, <2>2, <2>3, <2>4
  <2>6. \A m, n \in 1..Len(s_queue') : s_queue'[m] = s_queue'[n] => m = n
    <3>. TAKE m, n \in 1..Len(s_queue')
    <3>. HAVE s_queue'[m] = s_queue'[n]
    <3>1. m + 1 = n + 1
      BY <1>u, <2>2
    <3>. QED BY <3>1
  <2>7. ack.pc = "enqueue" =>
           /\ ack.ia \in acked /\ runs'[ack.ia] = 0
           /\ \A n \in 1..Len(s_queue') : s_queue'[n] # ack.ia
    BY <1>u, <2>2, <2>3 DEF BusyInv
  <2>8. \A i \in Interactions : runs'[i] <= 1 /\ (runs'[i] = 1 => i \in acked)
    BY <1>u, <2>2, <2>3
  <2>. QED BY <2>1, <2>5, <2>6, <2>7, <2>8 DEF TokenInv, OncePerAck
<1>6. CASE CmdQueues \/ CmdBans \/ RestServes
  BY <1>6, <1>s DEF CmdQueues, CmdBans, RestServes
<1>7. ASSUME NEW i \in Interactions, Deliver(i) \/ Expire(i) PROVE TokenInv'
  BY <1>7, <1>s DEF Deliver, Expire
<1>8. CASE UNCHANGED vars BY <1>8, <1>s DEF vars
<1>. QED
  BY <1>1, <1>2, <1>3, <1>4, <1>5, <1>6, <1>7, <1>8 DEF Next, AckTask, CmdTask

(* A command is carried out once at most, and only with an ACK that Discord *)
(* took: what came back ESP_OK is passed on once, and Discord takes one ACK *)
(* of an interaction, however often it is delivered and whatever is lost    *)
(* (commands_ack_task, commands_enqueue, commands_task).                    *)
THEOREM OnlyOncePerAck == Spec => []OncePerAck
<1>1. Init => TokenInv
  BY CommandsAssumption DEF Init, TokenInv, OncePerAck
<1>2. TokenInv => OncePerAck
  BY DEF TokenInv
<1>. QED BY TypeInit, TypeStep, TokenStep, <1>1, <1>2, PTL DEF Spec

-----------------------------------------------------------------------------
LEMMA RunStep ==
    TypeOK /\ BusyInv /\ RunInv /\ [Next]_vars => RunInv'
<1>. SUFFICES ASSUME TypeOK, BusyInv, RunInv, [Next]_vars PROVE RunInv'
  OBVIOUS
<1>t. /\ runs \in [Interactions -> Nat] /\ rest_queue \in Seq(Effects)
      /\ effects \subseteq Effects
      /\ \A n \in 1..Len(rest_queue) : rest_queue[n] \in Effects
  BY ElementOfSeq DEF TypeOK
<1>s. ASSUME UNCHANGED <<runs, cmd, rest_queue, effects>> PROVE RunInv'
  BY <1>s DEF RunInv
<1>c. ASSUME cmd.todo # <<>>, cmd' = NextTodo, UNCHANGED runs
      PROVE  /\ cmd'.ia # None => runs'[cmd'.ia] # 0
             /\ runs[Request.ia] # 0 /\ Request \in Effects
  <2>1. cmd.ia \in Interactions /\ cmd.ia # None
    BY <1>c, CommandsAssumption DEF BusyInv, None
  <2>2. cmd'.ia = cmd.ia \/ cmd'.ia = None
    BY <1>c, NextTodoFacts
  <2>3. Head(cmd.todo) \in Whats
    BY <1>c, TailFacts DEF TypeOK, Whats
  <2>4. Request \in Effects /\ Request.ia = cmd.ia
    BY <2>1, <2>3 DEF Request, Effects, Whats
  <2>. QED BY <1>c, <2>1, <2>2, <2>4 DEF RunInv
<1>1. CASE AckTask
  BY <1>1, <1>s DEF AckTask, AckReceive, AckAccepted, AckRefused, AckLost, PassOn
<1>2. CASE CmdReceive
  <2>1. /\ UNCHANGED <<rest_queue, effects>>
        /\ runs' = [runs EXCEPT ![Head(s_queue)] = @ + 1]
        /\ cmd'.ia \in {Head(s_queue), None} /\ Head(s_queue) \in Interactions
    BY <1>2, TailFacts, WorkFacts DEF CmdReceive, TypeOK
  <2>2. /\ cmd'.ia # None => runs'[cmd'.ia] # 0
        /\ \A i \in Interactions : runs[i] # 0 => runs'[i] # 0
    BY <1>t, <2>1
  <2>3. \A e \in Effects : e.ia \in Interactions
    BY DEF Effects
  <2>. QED BY <1>t, <2>1, <2>2, <2>3 DEF RunInv
<1>3. CASE CmdQueues
  <2>1. UNCHANGED <<runs, effects>> /\ cmd.todo # <<>> /\ cmd' = NextTodo
    BY <1>3 DEF CmdQueues
  <2>2. CASE Len(rest_queue) < QUEUE_DEPTH
    <3>1. /\ Len(rest_queue') = Len(rest_queue) + 1
          /\ Len(rest_queue) \in Nat
          /\ \A n \in 1..Len(rest_queue) : rest_queue'[n] = rest_queue[n]
          /\ rest_queue'[Len(rest_queue) + 1] = Request
      BY <1>3, <1>t, <1>c, <2>1, <2>2, AppendFacts, LenProperties
      DEF CmdQueues
    <3>2. \A n \in 1..Len(rest_queue') :
             n \in 1..Len(rest_queue) \/ n = Len(rest_queue) + 1
      BY <3>1
    <3>3. \A n \in 1..Len(rest_queue') : runs[rest_queue'[n].ia] # 0
      BY <1>c, <2>1, <3>1, <3>2 DEF RunInv
    <3>. QED BY <1>c, <2>1, <3>3 DEF RunInv
  <2>3. CASE ~(Len(rest_queue) < QUEUE_DEPTH)
    BY <1>3, <1>c, <2>1, <2>3 DEF CmdQueues, RunInv
  <2>. QED BY <2>2, <2>3
<1>4. CASE CmdBans
  <2>1. /\ UNCHANGED <<runs, rest_queue>> /\ cmd.todo # <<>>
        /\ cmd' = NextTodo /\ effects' \subseteq effects \cup {Request}
    BY <1>4 DEF CmdBans
  <2>. QED BY <1>c, <2>1 DEF RunInv
<1>5. CASE RestServes
  <2>1. /\ UNCHANGED <<runs, cmd>> /\ rest_queue # <<>>
        /\ rest_queue' = Tail(rest_queue)
        /\ effects' \subseteq effects \cup {Head(rest_queue)}
    BY <1>5 DEF RestServes
  <2>2. /\ Len(rest_queue) \in Nat \ {0} /\ Head(rest_queue) = rest_queue[1]
        /\ \A n \in 1..Len(rest_queue') :
              /\ n + 1 \in 1..Len(rest_queue)
              /\ rest_queue'[n] = rest_queue[n + 1]
    BY <1>t, <2>1, TailFacts
  <2>. QED BY <2>1, <2>2 DEF RunInv
<1>6. ASSUME NEW i \in Interactions, Deliver(i) \/ Expire(i) PROVE RunInv'
  BY <1>6, <1>s DEF Deliver, Expire
<1>7. CASE UNCHANGED vars BY <1>7, <1>s DEF vars
<1>. QED BY <1>1, <1>2, <1>3, <1>4, <1>5, <1>6, <1>7 DEF Next, CmdTask

LEMMA OrderStep ==
    TypeOK /\ BusyInv /\ TokenInv /\ RunInv /\ OrderInv /\ RepliedInv
        /\ [Next]_vars
      => OrderInv' /\ RepliedInv'
<1>. SUFFICES ASSUME TypeOK, BusyInv, TokenInv, RunInv, OrderInv, RepliedInv,
                     [Next]_vars
              PROVE  OrderInv' /\ RepliedInv'
  OBVIOUS
<1>t. /\ rest_queue \in Seq(Effects) /\ Len(rest_queue) \in Nat
      /\ cmd.todo \in Seq(Whats) /\ Len(cmd.todo) \in Nat
  BY LenProperties DEF TypeOK, Whats
<1>s. ASSUME UNCHANGED <<cmd, rest_queue, effects>>
      PROVE  OrderInv' /\ RepliedInv'
  BY <1>s DEF OrderInv, RepliedInv
<1>c. ASSUME cmd.todo # <<>>, cmd' = NextTodo
      PROVE  /\ Request \in Effects /\ Request.ia = cmd.ia
             /\ Request.what = cmd.todo[1] /\ Len(cmd.todo) \in Nat \ {0}
             /\ Len(cmd'.todo) \in Nat
             /\ \A n \in 1..Len(cmd'.todo) :
                   /\ n + 1 \in 1..Len(cmd.todo) /\ cmd'.ia = cmd.ia
                   /\ cmd'.todo[n] = cmd.todo[n + 1]
  <2>1. cmd.ia \in Interactions
    BY <1>c DEF BusyInv
  <2>2. /\ Head(cmd.todo) \in Whats /\ Head(cmd.todo) = cmd.todo[1]
        /\ Len(cmd.todo) \in Nat \ {0}
    BY <1>c, <1>t, TailFacts
  <2>3. /\ Request \in Effects /\ Request.ia = cmd.ia
        /\ Request.what = cmd.todo[1]
    BY <2>1, <2>2 DEF Request, Effects, Whats
  <2>4. cmd'.todo = <<>> => 1..Len(cmd'.todo) = {}
    OBVIOUS
  <2>5. Len(cmd'.todo) \in Nat
    BY <1>c, NextTodoFacts, LenProperties
  <2>. QED BY <1>c, <2>2, <2>3, <2>4, <2>5, NextTodoFacts
<1>d. ASSUME cmd.todo # <<>>, cmd' = NextTodo
      PROVE  \A m, n \in 1..Len(cmd'.todo) :
                m < n /\ cmd'.todo[m] = "reply" => cmd'.todo[n] = "log"
  <2>. SUFFICES ASSUME NEW m \in 1..Len(cmd'.todo),
                       NEW n \in 1..Len(cmd'.todo),
                       m < n, cmd'.todo[m] = "reply"
                PROVE  cmd'.todo[n] = "log"
    OBVIOUS
  <2>1. /\ m + 1 \in 1..Len(cmd.todo) /\ n + 1 \in 1..Len(cmd.todo)
        /\ cmd'.todo[n] = cmd.todo[n + 1] /\ cmd.todo[m + 1] = "reply"
    BY <1>c, <1>d
  <2>2. m + 1 < n + 1
    BY <1>c, <1>d
  <2>. QED BY <2>1, <2>2 DEF OrderInv
<1>1. CASE AckTask
  BY <1>1, <1>s DEF AckTask, AckReceive, AckAccepted, AckRefused, AckLost, PassOn
<1>2. CASE CmdReceive
  <2>. DEFINE i == Head(s_queue)
  <2>1. /\ UNCHANGED <<rest_queue, effects>> /\ s_queue # <<>>
        /\ cmd' = Work(i)
    BY <1>2 DEF CmdReceive
  <2>2. i \in Interactions /\ i = s_queue[1] /\ 1 \in 1..Len(s_queue)
    BY <2>1, TailFacts DEF TypeOK
  <2>3. runs[i] = 0
    BY <2>2 DEF TokenInv
  <2>4. /\ \A n \in 1..Len(rest_queue) : rest_queue[n].ia # i
        /\ \A e \in effects : e.ia # i
    BY <2>3 DEF RunInv
  <2>5. \A m, n \in 1..Len(cmd'.todo) :
           m < n /\ cmd'.todo[m] = "reply" => cmd'.todo[n] = "log"
    BY <2>1, <2>2, WorkFacts
  <2>6. cmd'.ia = i \/ Len(cmd'.todo) = 0
    <3>1. cmd'.todo = <<>> \/ cmd'.ia = i
      BY <2>1, <2>2, WorkFacts
    <3>. QED BY <3>1, EmptySeq
  <2>. QED BY <2>1, <2>4, <2>5, <2>6 DEF OrderInv, RepliedInv
<1>3. CASE CmdQueues
  <2>1. UNCHANGED effects /\ cmd.todo # <<>> /\ cmd' = NextTodo
    BY <1>3 DEF CmdQueues
  <2>k. \A m, n \in 1..Len(cmd'.todo) :
           m < n /\ cmd'.todo[m] = "reply" => cmd'.todo[n] = "log"
    BY <1>d, <2>1
  <2>2. CASE Len(rest_queue) < QUEUE_DEPTH
    <3>. DEFINE new == Len(rest_queue) + 1
    <3>1. /\ Len(rest_queue') = new
          /\ \A n \in 1..Len(rest_queue) : rest_queue'[n] = rest_queue[n]
          /\ rest_queue'[new].ia = cmd.ia
          /\ rest_queue'[new].what = cmd.todo[1]
      BY <1>3, <1>t, <1>c, <2>1, <2>2, AppendFacts DEF CmdQueues
    <3>2. \A n \in 1..Len(rest_queue') : n \in 1..Len(rest_queue) \/ n = new
      BY <1>t, <3>1
    <3>. HIDE DEF new
    <3>3. \A m \in 1..Len(rest_queue) :
             rest_queue[m].what = "reply" /\ rest_queue[m].ia = cmd.ia
                => cmd.todo[1] = "log"
      BY <1>c, <2>1 DEF OrderInv
    <3>4. \A m, n \in 1..Len(rest_queue') :
             m < n /\ rest_queue'[m].what = "reply"
                   /\ rest_queue'[m].ia = rest_queue'[n].ia
                => rest_queue'[n].what = "log"
      <4>. TAKE m, n \in 1..Len(rest_queue')
      <4>. HAVE /\ m < n /\ rest_queue'[m].what = "reply"
                /\ rest_queue'[m].ia = rest_queue'[n].ia
      <4>1. m \in 1..Len(rest_queue)
        BY <1>t, <3>1, <3>2 DEF new
      <4>2. CASE n \in 1..Len(rest_queue)
        BY <3>1, <4>1, <4>2 DEF OrderInv
      <4>3. CASE n = new
        BY <3>1, <3>3, <4>1, <4>3
      <4>. QED BY <3>2, <4>2, <4>3
    <3>5. \A m \in 1..Len(rest_queue'), n \in 1..Len(cmd'.todo) :
             rest_queue'[m].what = "reply" /\ rest_queue'[m].ia = cmd'.ia
                => cmd'.todo[n] = "log"
      <4>. TAKE m \in 1..Len(rest_queue'), n \in 1..Len(cmd'.todo)
      <4>. HAVE rest_queue'[m].what = "reply" /\ rest_queue'[m].ia = cmd'.ia
      <4>1. /\ n + 1 \in 1..Len(cmd.todo) /\ cmd'.ia = cmd.ia
            /\ cmd'.todo[n] = cmd.todo[n + 1]
        BY <1>c, <2>1
      <4>2. CASE m \in 1..Len(rest_queue)
        BY <3>1, <4>1, <4>2 DEF OrderInv
      <4>3. CASE m = new
        <5>1. 1 \in 1..Len(cmd.todo) /\ 1 < n + 1 /\ cmd.todo[1] = "reply"
          BY <1>c, <2>1, <3>1, <4>3
        <5>. QED BY <4>1, <5>1 DEF OrderInv
      <4>. QED BY <3>2, <4>2, <4>3
    <3>6. RepliedInv'
      <4>. SUFFICES ASSUME NEW e \in effects, e.what = "reply"
                    PROVE  /\ \A n \in 1..Len(rest_queue') :
                                 rest_queue'[n].ia = e.ia
                                    => rest_queue'[n].what = "log"
                           /\ cmd'.ia = e.ia => \A n \in 1..Len(cmd'.todo) :
                                                  cmd'.todo[n] = "log"
        BY <2>1 DEF RepliedInv
      <4>1. /\ \A n \in 1..Len(rest_queue) :
                  rest_queue[n].ia = e.ia => rest_queue[n].what = "log"
            /\ cmd.ia = e.ia => \A n \in 1..Len(cmd.todo) :
                                    cmd.todo[n] = "log"
        BY DEF RepliedInv
      <4>2. cmd.ia = e.ia => cmd.todo[1] = "log"
        BY <1>c, <2>1, <4>1
      <4>3. \A n \in 1..Len(rest_queue') :
               rest_queue'[n].ia = e.ia => rest_queue'[n].what = "log"
        BY <3>1, <3>2, <4>1, <4>2
      <4>. QED BY <1>c, <2>1, <4>1, <4>3
    <3>. QED BY <2>k, <3>4, <3>5, <3>6 DEF OrderInv
  <2>3. CASE ~(Len(rest_queue) < QUEUE_DEPTH)
    <3>1. UNCHANGED rest_queue
      BY <1>3, <2>3 DEF CmdQueues
    <3>2. \A m \in 1..Len(rest_queue), n \in 1..Len(cmd'.todo) :
             rest_queue[m].what = "reply" /\ rest_queue[m].ia = cmd'.ia
                => cmd'.todo[n] = "log"
      BY <1>c, <2>1 DEF OrderInv
    <3>3. OrderInv'
      BY <2>k, <3>1, <3>2 DEF OrderInv
    <3>4. RepliedInv'
      BY <1>c, <2>1, <3>1 DEF RepliedInv
    <3>. QED BY <3>3, <3>4
  <2>. QED BY <2>2, <2>3
<1>4. CASE CmdBans
  <2>1. /\ UNCHANGED rest_queue /\ cmd.todo # <<>> /\ cmd' = NextTodo
        /\ Head(cmd.todo) = "ban" /\ effects' \subseteq effects \cup {Request}
    BY <1>4 DEF CmdBans
  <2>2. Request.what # "reply"
    BY <2>1 DEF Request
  <2>3. \A m, n \in 1..Len(cmd'.todo) :
           m < n /\ cmd'.todo[m] = "reply" => cmd'.todo[n] = "log"
    BY <1>d, <2>1
  <2>4. OrderInv'
    BY <1>c, <2>1, <2>3 DEF OrderInv
  <2>5. RepliedInv'
    BY <1>c, <2>1, <2>2 DEF RepliedInv
  <2>. QED BY <2>4, <2>5
<1>5. CASE RestServes
  <2>1. /\ UNCHANGED cmd /\ rest_queue # <<>>
        /\ rest_queue' = Tail(rest_queue)
        /\ effects' \subseteq effects \cup {Head(rest_queue)}
    BY <1>5 DEF RestServes
  <2>2. /\ Len(rest_queue) \in Nat \ {0} /\ Head(rest_queue) = rest_queue[1]
        /\ \A n \in 1..Len(rest_queue') :
              /\ n + 1 \in 1..Len(rest_queue) /\ 1 < n + 1
              /\ rest_queue'[n] = rest_queue[n + 1]
    BY <1>t, <2>1, TailFacts
  <2>3. OrderInv'
    <3>1. \A m, n \in 1..Len(rest_queue') :
             m < n /\ rest_queue'[m].what = "reply"
                   /\ rest_queue'[m].ia = rest_queue'[n].ia
                => rest_queue'[n].what = "log"
      <4>. TAKE m, n \in 1..Len(rest_queue')
      <4>. HAVE /\ m < n /\ rest_queue'[m].what = "reply"
                /\ rest_queue'[m].ia = rest_queue'[n].ia
      <4>. QED BY <2>2 DEF OrderInv
    <3>. QED BY <2>1, <2>2, <3>1 DEF OrderInv
  <2>4. RepliedInv'
    <3>. SUFFICES ASSUME NEW e \in effects', e.what = "reply"
                  PROVE  /\ \A n \in 1..Len(rest_queue') :
                               rest_queue'[n].ia = e.ia
                                  => rest_queue'[n].what = "log"
                         /\ cmd.ia = e.ia => \A n \in 1..Len(cmd.todo) :
                                               cmd.todo[n] = "log"
      BY <2>1 DEF RepliedInv
    <3>1. CASE e \in effects
      BY <2>1, <2>2, <3>1 DEF RepliedInv
    <3>2. CASE e = rest_queue[1]
      <4>1. 1 \in 1..Len(rest_queue)
        BY <2>2
      <4>. QED BY <2>2, <3>2, <4>1 DEF OrderInv
    <3>. QED BY <2>1, <2>2, <3>1, <3>2
  <2>. QED BY <2>3, <2>4
<1>6. ASSUME NEW i \in Interactions, Deliver(i) \/ Expire(i)
      PROVE  OrderInv' /\ RepliedInv'
  BY <1>6, <1>s DEF Deliver, Expire
<1>7. CASE UNCHANGED vars BY <1>7, <1>s DEF vars
<1>. QED BY <1>1, <1>2, <1>3, <1>4, <1>5, <1>6, <1>7 DEF Next, CmdTask

(* The user is never told of a kick or a ban whose request is still to be   *)
(* sent: an interaction is carried out once, the reply is made behind the   *)
(* action, and neither the queue nor the synchronous call turns the two     *)
(* round (cmd_mod, followup, rest_put_sync, rest_task).                     *)
THEOREM ReplyIsLast == Spec => []ReplyFollowsAction
<1>1. Init => TokenInv /\ RunInv /\ OrderInv /\ RepliedInv
  BY CommandsAssumption
  DEF Init, TokenInv, OncePerAck, RunInv, OrderInv, RepliedInv
<1>2. TypeOK /\ RepliedInv => ReplyFollowsAction
  <2>. SUFFICES ASSUME TypeOK, RepliedInv PROVE ReplyFollowsAction
    OBVIOUS
  <2>1. /\ DOMAIN rest_queue = 1..Len(rest_queue)
        /\ DOMAIN cmd.todo = 1..Len(cmd.todo)
    BY LenProperties DEF TypeOK
  <2>. QED BY <2>1 DEF RepliedInv, ReplyFollowsAction
<1>. QED
  BY TypeInit, TypeStep, TokenStep, RunStep, OrderStep, <1>1, <1>2, PTL
  DEF Spec

-----------------------------------------------------------------------------
(* The safety half of EveryoneAnswered: where an interaction is.            *)

In(q, x) == \E n \in 1..Len(q) : q[n] = x

Reply(i) == [what |-> "reply", ia |-> i]

(* An interaction that Discord took the ACK of and that was passed on.      *)
Answering(i) ==
    \/ i \in lost
    \/ In(s_queue, i)
    \/ cmd.ia = i /\ In(cmd.todo, "reply")
    \/ In(rest_queue, Reply(i))
    \/ Reply(i) \in effects
    \/ Unknown(i) /\ runs[i] # 0

AckedInv == \A i \in acked :
               Answering(i) \/ (ack.pc = "enqueue" /\ ack.ia = i)

ArrivedInv == \A i \in Interactions : deliveries[i] > 0 =>
                 \/ i \in acked \cup lost
                 \/ In(s_ack_queue, i)
                 \/ ack.pc = "post" /\ ack.ia = i

NobodyForgotten ==
    \A i \in Interactions : deliveries[i] > 0 =>
       \/ In(s_ack_queue, i)
       \/ ack.pc # "idle" /\ ack.ia = i
       \/ Answering(i)

LEMMA InTail ==
    ASSUME NEW S, NEW q \in Seq(S), q # <<>>, NEW x, In(q, x), x # Head(q)
    PROVE  In(Tail(q), x)
<1>1. /\ Len(q) \in Nat \ {0} /\ Head(q) = q[1]
      /\ Len(Tail(q)) = Len(q) - 1
      /\ \A n \in 1..Len(Tail(q)) : Tail(q)[n] = q[n + 1]
  BY TailFacts
<1>2. PICK n \in 1..Len(q) : q[n] = x
  BY DEF In
<1>3. n # 1
  BY <1>1, <1>2
<1>4. n - 1 \in 1..Len(Tail(q)) /\ (n - 1) + 1 = n
  BY <1>1, <1>3
<1>5. Tail(q)[n - 1] = x
  BY <1>1, <1>2, <1>4
<1>. QED BY <1>4, <1>5 DEF In

LEMMA InAppend ==
    ASSUME NEW S, NEW q \in Seq(S), NEW x \in S
    PROVE  /\ In(Append(q, x), x)
           /\ \A y : In(q, y) => In(Append(q, x), y)
<1>1. /\ Len(q) \in Nat /\ Len(Append(q, x)) = Len(q) + 1
      /\ \A n \in 1..Len(q) : Append(q, x)[n] = q[n]
      /\ Append(q, x)[Len(q) + 1] = x
  BY AppendFacts, LenProperties
<1>2. /\ Len(q) + 1 \in 1..Len(Append(q, x))
      /\ \A n \in 1..Len(q) : n \in 1..Len(Append(q, x))
  BY <1>1
<1>. QED BY <1>1, <1>2 DEF In

LEMMA InFront ==
    ASSUME NEW S, NEW q \in Seq(S), NEW x \in S
    PROVE  /\ In(<<x>> \o q, x)
           /\ \A y : In(q, y) => In(<<x>> \o q, y)
<1>1. /\ Len(q) \in Nat /\ <<x>> \in Seq(S) /\ Len(<<x>>) = 1
      /\ <<x>>[1] = x
  BY LenProperties
<1>2. /\ Len(<<x>> \o q) = Len(q) + 1 /\ (<<x>> \o q)[1] = x
      /\ \A n \in 1..Len(q) : (<<x>> \o q)[n + 1] = q[n]
  BY <1>1, ConcatProperties
<1>3. /\ 1 \in 1..Len(<<x>> \o q)
      /\ \A n \in 1..Len(q) : n + 1 \in 1..Len(<<x>> \o q)
  BY <1>1, <1>2
<1>. QED BY <1>2, <1>3 DEF In

(* The reply of every known kind of command is among its requests.          *)
LEMMA RequestsReply ==
    ASSUME NEW k \in Kinds, k # "other" PROVE In(RequestsOf(k), "reply")
<1>1. CASE k = "kick"
  <2>1. RequestsOf(k) = <<"kick", "reply">> BY <1>1 DEF RequestsOf
  <2>. QED BY <2>1 DEF In
<1>2. CASE k = "ban"
  <2>1. RequestsOf(k) = <<"ban", "reply">> BY <1>2 DEF RequestsOf
  <2>. QED BY <2>1 DEF In
<1>3. CASE k = "warn"
  <2>1. RequestsOf(k) = <<"reply", "log">> BY <1>3 DEF RequestsOf
  <2>. QED BY <2>1 DEF In
<1>4. CASE k = "ping"
  <2>1. RequestsOf(k) = <<"reply">> BY <1>4 DEF RequestsOf
  <2>. QED BY <2>1 DEF In
<1>. QED BY <1>1, <1>2, <1>3, <1>4 DEF Kinds

(* A request that is made is the reply, or leaves the reply to be made.     *)
LEMMA TodoReply ==
    ASSUME TypeOK, BusyInv, cmd.todo # <<>>, cmd' = NextTodo,
           In(cmd.todo, "reply"), Head(cmd.todo) # "reply"
    PROVE  cmd'.ia = cmd.ia /\ In(cmd'.todo, "reply")
<1>1. cmd.todo \in Seq(Whats)
  BY DEF TypeOK, Whats
<1>2. In(Tail(cmd.todo), "reply")
  BY <1>1, InTail
<1>3. ~(Len(cmd.todo) = 1)
  <2>. SUFFICES ASSUME Len(cmd.todo) = 1 PROVE FALSE
    OBVIOUS
  <2>1. Len(Tail(cmd.todo)) = 0
    BY <1>1, TailFacts
  <2>2. PICK n \in 1..Len(Tail(cmd.todo)) : Tail(cmd.todo)[n] = "reply"
    BY <1>2 DEF In
  <2>. QED BY <2>1, <2>2
<1>4. cmd' = [cmd EXCEPT !.todo = Tail(cmd.todo)]
  BY <1>3 DEF NextTodo
<1>5. cmd'.ia = cmd.ia /\ cmd'.todo = Tail(cmd.todo)
  BY <1>4 DEF TypeOK
<1>. QED BY <1>2, <1>5

(* Whatever a task does, an interaction on its way to an answer stays so.   *)
LEMMA AnsweringKept ==
    ASSUME TypeOK, BusyInv, [Next]_vars, NEW i \in Interactions, Answering(i)
    PROVE  Answering(i)'
<1>t. /\ s_queue \in Seq(Interactions) /\ rest_queue \in Seq(Effects)
      /\ Reply(i) \in Effects
  BY DEF TypeOK, Effects, Reply
<1>g. lost \subseteq lost' /\ effects \subseteq effects'
  BY DEF Next, AckTask, CmdTask, AckReceive, AckAccepted, AckRefused, AckLost,
         PassOn, CmdReceive, CmdQueues, CmdBans, RestServes, Deliver, Expire,
         LoseUnless, Lose, vars
<1>r. runs[i] # 0 => runs'[i] # 0
  <2>1. CASE CmdReceive
    <3>1. /\ runs' = [runs EXCEPT ![Head(s_queue)] = @ + 1]
          /\ Head(s_queue) \in Interactions
      BY <2>1, TailFacts DEF CmdReceive, TypeOK
    <3>. QED BY <3>1 DEF TypeOK
  <2>2. CASE UNCHANGED runs
    BY <2>2
  <2>. QED BY <2>1, <2>2
    DEF Next, AckTask, CmdTask, AckReceive, AckAccepted, AckRefused, AckLost,
        PassOn, CmdQueues, CmdBans, RestServes, Deliver, Expire, vars
<1>s. ASSUME i \in lost' \/ Reply(i) \in effects' PROVE Answering(i)'
  BY <1>s DEF Answering, Reply
<1>k. ASSUME Unknown(i), runs'[i] # 0 PROVE Answering(i)'
  BY <1>k DEF Answering, Unknown
<1>e. Answering(i)' <=> \/ i \in lost'
                        \/ In(s_queue', i)
                        \/ cmd'.ia = i /\ In(cmd'.todo, "reply")
                        \/ In(rest_queue', Reply(i))
                        \/ Reply(i) \in effects'
                        \/ Unknown(i) /\ runs'[i] # 0
  BY DEF Answering, In, Reply, Unknown
<1>u. CASE UNCHANGED <<s_queue, cmd, rest_queue>>
  BY <1>u, <1>g, <1>r, <1>e DEF Answering
<1>1. CASE PassOn
  <2>1. ack.ia \in Interactions /\ UNCHANGED <<cmd, rest_queue>>
    BY <1>1 DEF PassOn, BusyInv
  <2>2. In(s_queue, i) => In(s_queue', i)
    BY <1>1, <1>t, <2>1, InAppend DEF PassOn
  <2>. QED BY <2>1, <2>2, <1>g, <1>r, <1>e DEF Answering
<1>2. CASE CmdReceive
  <2>1. /\ s_queue # <<>> /\ s_queue' = Tail(s_queue) /\ UNCHANGED rest_queue
        /\ cmd' = Work(Head(s_queue)) /\ cmd.ia = None
        /\ runs' = [runs EXCEPT ![Head(s_queue)] = @ + 1]
    BY <1>2 DEF CmdReceive
  <2>2. cmd.ia # i
    BY <2>1, CommandsAssumption DEF None
  <2>3. CASE In(s_queue, i) /\ i # Head(s_queue)
    BY <2>1, <2>3, <1>t, <1>e, InTail
  <2>4. CASE i = Head(s_queue)
    <3>1. Kind[i] \in Kinds
      BY CommandsAssumption
    <3>2. CASE Unknown(i)
      <4>1. runs'[i] # 0
        BY <2>1, <2>4 DEF TypeOK
      <4>. QED BY <1>e, <3>2, <4>1
    <3>3. CASE ~Unknown(i)
      <4>1. In(RequestsOf(Kind[i]), "reply")
        BY <3>1, <3>3, RequestsReply DEF Unknown
      <4>2. cmd'.todo = RequestsOf(Kind[i]) /\ cmd'.todo # <<>>
        BY <2>1, <2>4, <4>1, WorkFacts, EmptySeq DEF In
      <4>3. cmd'.ia = i
        BY <2>1, <2>4, <4>2, WorkFacts
      <4>. QED BY <1>e, <4>1, <4>2, <4>3
    <3>. QED BY <3>2, <3>3
  <2>. QED BY <2>1, <2>2, <2>3, <2>4, <1>g, <1>r, <1>e DEF Answering
<1>3. CASE CmdQueues
  <2>1. /\ cmd.todo # <<>> /\ cmd' = NextTodo /\ UNCHANGED s_queue
        /\ rest_queue' = IF Len(rest_queue) < QUEUE_DEPTH
                         THEN Append(rest_queue, Request) ELSE rest_queue
        /\ lost' = IF Len(rest_queue) < QUEUE_DEPTH THEN lost
                   ELSE lost \cup {cmd.ia}
    BY <1>3 DEF CmdQueues, LoseUnless
  <2>2. Request \in Effects
    <3>1. cmd.ia \in Interactions /\ Head(cmd.todo) \in Whats
      BY <2>1, TailFacts DEF BusyInv, TypeOK, Whats
    <3>. QED BY <3>1 DEF Request, Effects, Whats
  <2>3. In(rest_queue, Reply(i)) => In(rest_queue', Reply(i))
    BY <2>1, <2>2, <1>t, InAppend
  <2>4. CASE cmd.ia = i /\ In(cmd.todo, "reply")
    <3>1. CASE Head(cmd.todo) = "reply"
      <4>1. Request = Reply(i)
        BY <2>4, <3>1 DEF Request, Reply
      <4>2. In(rest_queue', Reply(i)) \/ i \in lost'
        BY <2>1, <2>2, <2>4, <4>1, <1>t, InAppend
      <4>. QED BY <4>2, <1>e
    <3>2. CASE Head(cmd.todo) # "reply"
      BY <2>1, <2>4, <3>2, <1>e, TodoReply
    <3>. QED BY <3>1, <3>2
  <2>. QED BY <2>1, <2>3, <2>4, <1>g, <1>r, <1>e DEF Answering
<1>4. CASE CmdBans
  <2>1. /\ cmd.todo # <<>> /\ cmd' = NextTodo /\ Head(cmd.todo) = "ban"
        /\ UNCHANGED <<s_queue, rest_queue>>
    BY <1>4 DEF CmdBans
  <2>2. CASE cmd.ia = i /\ In(cmd.todo, "reply")
    BY <2>1, <2>2, <1>e, TodoReply
  <2>. QED BY <2>1, <2>2, <1>g, <1>r, <1>e DEF Answering
<1>5. CASE RestServes
  <2>1. /\ rest_queue # <<>> /\ rest_queue' = Tail(rest_queue)
        /\ UNCHANGED <<s_queue, cmd>>
        /\ \/ effects' = effects \cup {Head(rest_queue)}
           \/ lost' = lost \cup {Head(rest_queue).ia}
    BY <1>5 DEF RestServes, Lose
  <2>2. CASE In(rest_queue, Reply(i))
    <3>1. CASE Head(rest_queue) = Reply(i)
      <4>1. Head(rest_queue).ia = i
        BY <3>1 DEF Reply
      <4>. QED BY <2>1, <3>1, <4>1, <1>e
    <3>2. CASE Head(rest_queue) # Reply(i)
      BY <2>1, <2>2, <3>2, <1>t, <1>e, InTail
    <3>. QED BY <3>1, <3>2
  <2>. QED BY <2>1, <2>2, <1>g, <1>r, <1>e DEF Answering
<1>. QED
  BY <1>u, <1>1, <1>2, <1>3, <1>4, <1>5
  DEF Next, AckTask, CmdTask, AckReceive, AckAccepted, AckRefused, AckLost,
      Deliver, Expire, vars

LEMMA AckedStep ==
    TypeOK /\ BusyInv /\ AckedInv /\ [Next]_vars => AckedInv'
<1>. SUFFICES ASSUME TypeOK, BusyInv, AckedInv, [Next]_vars,
                     NEW i \in acked'
              PROVE  Answering(i)' \/ (ack'.pc = "enqueue" /\ ack'.ia = i)
  BY DEF AckedInv
<1>t. acked' \subseteq Interactions
  BY TypeStep DEF TypeOK
<1>a. CASE Answering(i)
  BY <1>a, <1>t, AnsweringKept
<1>l. i \in lost' => Answering(i)'
  BY DEF Answering
<1>o. i \in acked => Answering(i) \/ (ack.pc = "enqueue" /\ ack.ia = i)
  BY DEF AckedInv
<1>1. CASE AckAccepted
  <2>1. /\ ack.pc = "post" /\ acked' = acked \cup {ack.ia}
        /\ ack' = [ack EXCEPT !.pc = "enqueue"]
    BY <1>1 DEF AckAccepted
  <2>2. ack'.pc = "enqueue" /\ ack'.ia = ack.ia
    BY <2>1 DEF TypeOK
  <2>. QED BY <1>a, <1>o, <2>1, <2>2
<1>2. CASE AckLost
  <2>1. /\ ack.pc = "post" /\ acked' \subseteq acked \cup {ack.ia}
        /\ lost' = lost \cup {ack.ia}
    BY <1>2 DEF AckLost, Lose
  <2>. QED BY <1>a, <1>l, <1>o, <2>1
<1>3. CASE PassOn
  <2>1. ack.ia \in Interactions /\ UNCHANGED acked
    BY <1>3 DEF PassOn, BusyInv
  <2>2. CASE ack.ia = i
    <3>1. CASE HasRoom
      <4>1. s_queue' = Append(s_queue, i) /\ s_queue \in Seq(Interactions)
        BY <1>3, <2>2, <3>1 DEF PassOn, TypeOK
      <4>2. In(s_queue', i)
        BY <2>1, <2>2, <4>1, InAppend
      <4>. QED BY <4>2 DEF Answering, In
    <3>2. CASE ~HasRoom
      <4>1. i \in lost'
        BY <1>3, <2>2, <3>2 DEF PassOn, HasRoom, LoseUnless
      <4>. QED BY <4>1, <1>l
    <3>. QED BY <3>1, <3>2
  <2>. QED BY <1>a, <1>o, <2>1, <2>2
<1>4. CASE AckReceive \/ AckRefused
  <2>1. UNCHANGED acked /\ ack.pc # "enqueue"
    BY <1>4 DEF AckReceive, AckRefused
  <2>. QED BY <1>a, <1>o, <2>1
<1>5. CASE UNCHANGED <<ack, acked>>
  BY <1>a, <1>o, <1>5
<1>. QED
  BY <1>1, <1>2, <1>3, <1>4, <1>5
  DEF Next, AckTask, CmdTask, CmdReceive, CmdQueues, CmdBans, RestServes,
      Deliver, Expire, vars

LEMMA ArrivedStep ==
    TypeOK /\ BusyInv /\ ArrivedInv /\ [Next]_vars => ArrivedInv'
<1>. SUFFICES ASSUME TypeOK, BusyInv, ArrivedInv, [Next]_vars,
                     NEW i \in Interactions, deliveries'[i] > 0
              PROVE  \/ i \in acked' \cup lost'
                     \/ In(s_ack_queue', i)
                     \/ ack'.pc = "post" /\ ack'.ia = i
  BY DEF ArrivedInv, In
<1>t. s_ack_queue \in Seq(Interactions)
  BY DEF TypeOK
<1>g. lost \subseteq lost' /\ acked \subseteq acked'
  BY DEF Next, AckTask, CmdTask, AckReceive, AckAccepted, AckRefused, AckLost,
         PassOn, CmdReceive, CmdQueues, CmdBans, RestServes, Deliver, Expire,
         LoseUnless, Lose, vars
<1>o. deliveries[i] > 0 => \/ i \in acked \cup lost
                           \/ In(s_ack_queue, i)
                           \/ ack.pc = "post" /\ ack.ia = i
  BY DEF ArrivedInv
<1>1. ASSUME NEW j \in Interactions, Deliver(j)
      PROVE  \/ i \in acked' \cup lost'
             \/ In(s_ack_queue', i)
             \/ ack'.pc = "post" /\ ack'.ia = i
  <2>1. /\ s_ack_queue' = IF Len(s_ack_queue) < ACK_QUEUE
                          THEN <<j>> \o s_ack_queue ELSE s_ack_queue
        /\ lost' = IF Len(s_ack_queue) < ACK_QUEUE THEN lost
                   ELSE lost \cup {j}
        /\ UNCHANGED ack
        /\ deliveries' = [deliveries EXCEPT ![j] = @ + 1]
    BY <1>1 DEF Deliver, LoseUnless
  <2>2. CASE i = j
    <3>1. In(s_ack_queue', i) \/ i \in lost'
      BY <1>t, <2>1, <2>2, InFront
    <3>. QED BY <3>1
  <2>3. CASE i # j
    <3>1. deliveries'[i] = deliveries[i]
      BY <2>1, <2>3 DEF TypeOK
    <3>2. In(s_ack_queue, i) => In(s_ack_queue', i)
      BY <1>t, <2>1, InFront
    <3>. QED BY <1>g, <1>o, <2>1, <3>1, <3>2
  <2>. QED BY <2>2, <2>3
<1>2. CASE AckReceive
  <2>1. /\ s_ack_queue # <<>> /\ s_ack_queue' = Tail(s_ack_queue)
        /\ ack.pc = "idle" /\ UNCHANGED deliveries
        /\ ack'.pc = "post" /\ ack'.ia = Head(s_ack_queue)
    BY <1>2 DEF AckReceive
  <2>2. In(s_ack_queue, i) /\ i # Head(s_ack_queue) => In(s_ack_queue', i)
    BY <1>t, <2>1, InTail
  <2>. QED BY <1>g, <1>o, <2>1, <2>2
<1>3. CASE AckAccepted
  <2>1. /\ acked' = acked \cup {ack.ia} /\ UNCHANGED <<s_ack_queue, deliveries>>
    BY <1>3 DEF AckAccepted
  <2>. QED BY <1>g, <1>o, <2>1
<1>4. CASE AckRefused \/ AckLost
  <2>1. UNCHANGED <<s_ack_queue, deliveries>> /\ ack.ia \in acked' \cup lost'
    BY <1>4 DEF AckRefused, AckLost, Lose, LoseUnless
  <2>. QED BY <1>g, <1>o, <2>1
<1>5. CASE PassOn
  <2>1. UNCHANGED <<s_ack_queue, deliveries>> /\ ack.pc # "post"
    BY <1>5 DEF PassOn
  <2>. QED BY <1>g, <1>o, <2>1
<1>6. CASE UNCHANGED <<s_ack_queue, ack, deliveries>>
  BY <1>g, <1>o, <1>6
<1>. QED
  BY <1>1, <1>2, <1>3, <1>4, <1>5, <1>6
  DEF Next, AckTask, CmdTask, CmdReceive, CmdQueues, CmdBans, RestServes,
      Expire, vars

(* No interaction is forgotten: whatever arrived is in one of the three     *)
(* queues or in the hands of a task that is at work on it, until its reply  *)
(* takes effect or a call of its own fails, is refused or finds a queue     *)
(* full, for every number of interactions and every depth of the queues;   *)
(* one that asks for what dispatcher.c does not know is there until the     *)
(* commands task has taken it, which then forgets it (commands_ack_interaction, commands_ack_task, commands_enqueue,          *)
(* commands_task, rest_task).                                               *)
THEOREM NobodyIsForgotten == Spec => []NobodyForgotten
<1>1. Init => AckedInv /\ ArrivedInv
  BY DEF Init, AckedInv, ArrivedInv
<1>2. AckedInv /\ ArrivedInv => NobodyForgotten
  BY DEF AckedInv, ArrivedInv, NobodyForgotten, Answering
<1>. QED
  BY TypeInit, TypeStep, AckedStep, ArrivedStep, <1>1, <1>2, PTL DEF Spec

=============================================================================
