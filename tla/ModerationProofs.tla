--------------------------- MODULE ModerationProofs ---------------------------
(***************************************************************************)
(* The safety of the filter with the commands, the request queue and       *)
(* Discord around it, for every set of users, messages and settings.       *)
(***************************************************************************)
EXTENDS Moderation, FiniteSetTheorems, SequenceTheorems, NaturalsInduction,
        WellFoundedInduction, TLAPS

Reasons == {"mention spam", "link spam", "banned keyword"}

(* The messages there can be. *)
UserText(t)     == Post(t.author, "user", t.fits, t.mentions, t.text)
LogText(reason) == Post(Bot, "log", TRUE, 1, WordsOf(reason))
Message == {UserText(t) : t \in Talk} \cup {LogText(r) : r \in Reasons}
              \cup {WarnLog}

WsPcs == {"idle", "delete", "warn", "log", "beep", "tone"}

Shape ==
    /\ config \in Configs /\ s_keywords = Keywords(config.keywords)
    /\ messages \in Seq(Message) /\ Len(messages) <= MaxMessages
    /\ inbox \in Seq(1..MaxMessages)
    /\ \A i \in 1..Len(inbox) : inbox[i] <= Len(messages)
    /\ ws \in [pc : WsPcs, msg : 0..MaxMessages]
    /\ cmd \in BOOLEAN
    /\ rest_queue \in Seq(Request) /\ Len(rest_queue) <= QUEUE_DEPTH
    /\ rest_serving \in Request \cup {NoRequest}
    /\ rest_applied \in Seq(Request)
    /\ total \in [Users \cup {Bot} -> 0..255]
    /\ reply \in [{"ws", "commands"} -> 0..255]
    /\ lost \subseteq 0..MaxMessages
    /\ commands \in 0..MaxCommands /\ failures \in 0..MaxFailures

(* The messages that break a rule, for the code.  Only they are acted upon. *)
Bad == {m \in 1..Len(messages) : Checked(messages[m])}

WsOk == ws.pc # "idle" \/ ws.msg # 0 => ws.msg \in Bad

ModInv ==
    /\ WsOk
    /\ deleted \subseteq Bad
    /\ \A i \in 1..Len(rest_queue) :
          rest_queue[i].what \in {"delete", "log"} => rest_queue[i].msg \in Bad
    /\ rest_serving.what \in {"delete", "log"} => rest_serving.msg \in Bad

(* The deletion is over, or under way, or in the queue before place i. *)
Over == deleted \cup lost
Serves(m) == rest_serving.what = "delete" /\ rest_serving.msg = m
Before(m, i) == \E j \in 1..Len(rest_queue) :
                   j < i /\ rest_queue[j].what = "delete" /\ rest_queue[j].msg = m

Sorted(m, i) == m \in Over \/ Serves(m) \/ Before(m, i)

QueueSorted ==
    \A i \in 1..Len(rest_queue) :
       rest_queue[i].what = "log" => Sorted(rest_queue[i].msg, i)

ServedSorted ==
    /\ rest_serving.what = "log" => rest_serving.msg \in Over
    /\ \A i \in 1..Len(rest_applied) :
          /\ rest_applied[i].what = "log" => rest_applied[i].msg \in Over
          /\ rest_applied[i].what = "delete" => rest_applied[i].msg \in deleted

WsSorted == ws.pc \in {"warn", "log"} => Sorted(ws.msg, Len(rest_queue) + 1)

OrderInv == QueueSorted /\ ServedSorted /\ WsSorted
-----------------------------------------------------------------------------

(* The largest of a set of numbers that has a bound. *)
LEMMA Largest ==
    ASSUME NEW n \in Nat, NEW S \in SUBSET (1..n), S # {}
    PROVE  \E m \in S : \A i \in S : i <= m
<1>. DEFINE R == {ss \in Nat \X Nat : ss[1] < ss[2]}
            T == {n - i : i \in S}
<1>r. IsWellFoundedOn(R, Nat)
  BY NatLessThanWellFounded, Zenon DEF OpToRel
<1>1. T \subseteq Nat /\ T # {}
  <2>1. \A i \in S : n - i \in Nat
    OBVIOUS
  <2>. QED BY <2>1
<1>2. PICK x \in T : \A y \in T : ~(<<y, x>> \in R)
  <2>. HIDE DEF R, T
  <2>. QED BY <1>1, <1>r, WFMin, Zenon
<1>3. PICK m \in S : x = n - m
  BY <1>2
<1>4. ASSUME NEW i \in S PROVE i <= m
  <2>1. PICK y \in T : y = n - i
    OBVIOUS
  <2>2. x \in Nat /\ y \in Nat
    BY <1>1
  <2>3. <<y, x>> \notin R
    BY <1>2
  <2>4. ~(y < x)
    <3>. HIDE DEF T
    <3>. QED BY <2>2, <2>3
  <2>. QED BY <1>3, <2>1, <2>4
<1>. QED BY <1>4

(* filter_init() fills at most MAX_KEYWORDS places. *)
LEMMA KeywordsFit ==
    ASSUME NEW c \in Configs
    PROVE  Cardinality(DOMAIN Keywords(c.keywords)) <= MAX_KEYWORDS
<1>. DEFINE list == c.keywords
            F == Fields(list)
            P == Room(list)
<1>1. Len(list) \in Nat /\ DOMAIN list = 1..Len(list)
  BY ModerationAssumption
<1>2. DOMAIN Keywords(list) = P
  BY DEF Keywords
<1>3. F \subseteq 1..Len(list) /\ P \subseteq F
  BY <1>1 DEF Fields, Room
<1>4. IsFiniteSet(F) /\ IsFiniteSet(P)
  <2>. HIDE DEF F, P
  <2>1. IsFiniteSet(1..Len(list))
    BY <1>1, FS_Interval
  <2>2. IsFiniteSet(F)
    BY <1>3, <2>1, FS_Subset
  <2>. QED BY <1>3, <2>2, FS_Subset
<1>5. CASE P = {}
  BY <1>2, <1>5, FS_EmptySet, ModerationAssumption
<1>6. CASE P # {}
  <2>1. PICK m \in P : \A i \in P : i <= m
    BY <1>1, <1>3, <1>6, Largest
  <2>. DEFINE Up == {j \in F : j <= m}
  <2>2. P \subseteq Up /\ Up \subseteq F
    BY <1>3, <2>1
  <2>3. Cardinality(Up) <= MAX_KEYWORDS
    BY <2>1 DEF Room
  <2>4. /\ Cardinality(P) <= Cardinality(Up)
        /\ Cardinality(P) \in Nat /\ Cardinality(Up) \in Nat
    <3>. HIDE DEF Up, P, F
    <3>1. IsFiniteSet(Up)
      BY <1>4, <2>2, FS_Subset
    <3>. QED BY <1>4, <2>2, <3>1, FS_Subset, FS_CardinalityType
  <2>. QED BY <1>2, <2>3, <2>4, ModerationAssumption
<1>. QED BY <1>5, <1>6

-----------------------------------------------------------------------------
(* Sequences that grow and shrink by one. *)
LEMMA Appended ==
    ASSUME NEW S, NEW q \in Seq(S), NEW e \in S, NEW r, r = Append(q, e)
    PROVE  /\ r \in Seq(S) /\ Len(q) \in Nat /\ Len(r) = Len(q) + 1
           /\ \A i \in 1..Len(q) : r[i] = q[i] /\ i \in 1..Len(r)
           /\ r[Len(r)] = e /\ Len(r) \in 1..Len(r)
           /\ \A i \in 1..Len(r) : i \in 1..Len(q) \/ i = Len(r)
BY LenProperties

LEMMA Tailed ==
    ASSUME NEW S, NEW q \in Seq(S), q # <<>>, NEW r, r = Tail(q)
    PROVE  /\ r \in Seq(S) /\ Len(q) \in Nat /\ Len(r) = Len(q) - 1
           /\ Head(q) \in S /\ 1 \in 1..Len(q) /\ Head(q) = q[1]
           /\ \A i \in 1..Len(r) : i + 1 \in 1..Len(q) /\ r[i] = q[i + 1]
           /\ Len(r) \in Nat
<1>1. Len(q) \in Nat /\ Len(q) > 0
  BY LenProperties, EmptySeq
<1>. QED BY <1>1, HeadTailProperties, ElementOfSeq

LEMMA RangeOf ==
    ASSUME NEW S, NEW q \in Seq(S)
    PROVE  \A x : x \in Range(q) <=> \E i \in 1..Len(q) : q[i] = x
BY LenProperties DEF Range

LEMMA SeqIn == ASSUME NEW S, NEW q \in Seq(S), NEW i \in 1..Len(q)
               PROVE  q[i] \in S
BY ElementOfSeq, LenProperties

-----------------------------------------------------------------------------
LEMMA LogIsMessage == \A m : LogOf(m) \in Message
<1>. SUFFICES ASSUME NEW m PROVE LogOf(m) \in Message
  OBVIOUS
<1>1. ReasonOf(m) \in Reasons
  BY DEF ReasonOf, Reasons
<1>2. LogOf(m) = LogText(ReasonOf(m))
  BY DEF LogOf, LogText
<1>. QED BY <1>1, <1>2 DEF Message

LEMMA ShapeInit == Init => Shape
<1>. SUFFICES ASSUME Init PROVE Shape
  OBVIOUS
<1>1. /\ messages \in Seq(Message) /\ Len(messages) <= MaxMessages
      /\ inbox \in Seq(1..MaxMessages)
      /\ \A i \in 1..Len(inbox) : inbox[i] <= Len(messages)
  BY EmptySeq, ModerationAssumption DEF Init
<1>2. /\ rest_queue \in Seq(Request) /\ Len(rest_queue) <= QUEUE_DEPTH
      /\ rest_serving = NoRequest /\ rest_applied \in Seq(Request)
  BY EmptySeq, ModerationAssumption DEF Init, Out!Init
<1>3. /\ total \in [Users \cup {Bot} -> 0..255]
      /\ reply \in [{"ws", "commands"} -> 0..255]
  BY DEF Init, Warn!Init
<1>4. config \in Configs /\ s_keywords = Keywords(config.keywords)
  BY DEF Init
<1>5. /\ ws \in [pc : WsPcs, msg : 0..MaxMessages] /\ cmd \in BOOLEAN
      /\ lost = {} /\ commands \in 0..MaxCommands /\ failures \in 0..MaxFailures
  <2>1. 0 \in 0..MaxMessages /\ 0 \in 0..MaxCommands /\ 0 \in 0..MaxFailures
    BY ModerationAssumption
  <2>. QED BY <2>1 DEF Init, WsPcs
<1>. QED BY <1>1, <1>2, <1>3, <1>4, <1>5 DEF Shape

(* A message arrives. *)
LEMMA Arrived ==
    ASSUME Shape, NEW m \in Message, Arrive(m), Len(messages) < MaxMessages
    PROVE  /\ messages' \in Seq(Message) /\ Len(messages') <= MaxMessages
           /\ Len(messages) \in Nat /\ Len(messages') = Len(messages) + 1
           /\ \A i \in 1..Len(messages) : messages'[i] = messages[i]
           /\ inbox' \in Seq(1..MaxMessages)
           /\ \A i \in 1..Len(inbox') : inbox'[i] <= Len(messages')
<1>1. messages \in Seq(Message) /\ messages' = Append(messages, m)
  BY DEF Shape, Arrive
<1>2. /\ messages' \in Seq(Message) /\ Len(messages) \in Nat
      /\ Len(messages') = Len(messages) + 1
      /\ \A i \in 1..Len(messages) : messages'[i] = messages[i]
  BY <1>1, Appended
<1>3. /\ inbox \in Seq(1..MaxMessages) /\ inbox' = Append(inbox, Len(messages'))
      /\ Len(messages') \in 1..MaxMessages
      /\ \A i \in 1..Len(inbox) : inbox[i] <= Len(messages)
  BY <1>2, ModerationAssumption DEF Shape, Arrive
<1>4. /\ inbox' \in Seq(1..MaxMessages)
      /\ inbox'[Len(inbox')] = Len(messages')
      /\ \A i \in 1..Len(inbox) : inbox'[i] = inbox[i]
      /\ \A i \in 1..Len(inbox') : i \in 1..Len(inbox) \/ i = Len(inbox')
  BY <1>3, Appended
<1>5. ASSUME NEW i \in 1..Len(inbox') PROVE inbox'[i] <= Len(messages')
  <2>1. CASE i = Len(inbox')
    BY <1>2, <1>4, <2>1
  <2>2. CASE i \in 1..Len(inbox)
    <3>1. inbox[i] \in 1..MaxMessages
      BY <1>3, <2>2, SeqIn
    <3>. QED BY <1>2, <1>3, <1>4, <2>2, <3>1
  <2>. QED BY <1>4, <2>1, <2>2
<1>. QED BY <1>2, <1>3, <1>4, <1>5

LEMMA Counted ==
    ASSUME Shape, NEW c \in {"ws", "commands"}, NEW u \in Users \cup {Bot},
           Warn!Increment(c, u)
    PROVE  /\ total' \in [Users \cup {Bot} -> 0..255]
           /\ reply' \in [{"ws", "commands"} -> 0..255]
<1>1. /\ total \in [Users \cup {Bot} -> 0..255]
      /\ reply \in [{"ws", "commands"} -> 0..255]
  BY DEF Shape
<1>2. /\ total[u] < 255 /\ total' = [total EXCEPT ![u] = total[u] + 1]
      /\ reply' = [reply EXCEPT ![c] = total'[u]]
  BY DEF Warn!Increment
<1>3. total[u] + 1 \in 0..255
  BY <1>1, <1>2
<1>. QED BY <1>1, <1>2, <1>3

(* Every message that is acted upon has an author. *)
LEMMA BadAuthor ==
    ASSUME Shape, NEW m \in Bad
    PROVE  messages[m].author \in Users \cup {Bot}
<1>1. m \in 1..Len(messages) /\ messages[m].author # Nobody
  BY DEF Bad, Checked
<1>2. messages[m] \in Message
  BY <1>1, SeqIn DEF Shape
<1>3. \A x \in Message : x.author \in Users \cup {Bot, Nobody}
  BY ModerationAssumption DEF Message, UserText, LogText, WarnLog, Post, Nobody
<1>. QED BY <1>1, <1>2, <1>3

(* A request is queued, or lost. *)
LEMMA Enqueued ==
    ASSUME Shape, NEW r \in Request, Enqueue(r)
    PROVE  /\ rest_queue' \in Seq(Request) /\ Len(rest_queue') <= QUEUE_DEPTH
           /\ UNCHANGED <<rest_serving, rest_applied>>
           /\ lost \subseteq lost' /\ lost' \subseteq 0..MaxMessages
           /\ Len(rest_queue) \in Nat
           /\ \A i \in 1..Len(rest_queue) :
                 rest_queue'[i] = rest_queue[i] /\ i \in 1..Len(rest_queue')
           /\ \A i \in 1..Len(rest_queue') :
                 \/ i \in 1..Len(rest_queue)
                 \/ i = Len(rest_queue') /\ rest_queue'[i] = r
           /\ \/ /\ Len(rest_queue') = Len(rest_queue) + 1
                 /\ Len(rest_queue') \in 1..Len(rest_queue')
                 /\ rest_queue'[Len(rest_queue')] = r
              \/ Len(rest_queue') = Len(rest_queue) /\ r.msg \in lost'
<1>s. rest_queue \in Seq(Request) /\ lost \subseteq 0..MaxMessages
      /\ Len(rest_queue) <= QUEUE_DEPTH
  BY DEF Shape
<1>d. QUEUE_DEPTH \in Nat
  BY ModerationAssumption
<1>1. CASE Len(rest_queue) < QUEUE_DEPTH
  <2>1. /\ rest_queue' = Append(rest_queue, r)
        /\ UNCHANGED <<rest_serving, rest_applied, lost>>
    BY <1>1 DEF Enqueue, Out!Accept
  <2>2. /\ rest_queue' \in Seq(Request) /\ Len(rest_queue) \in Nat
        /\ Len(rest_queue') = Len(rest_queue) + 1
        /\ \A i \in 1..Len(rest_queue) :
              rest_queue'[i] = rest_queue[i] /\ i \in 1..Len(rest_queue')
        /\ rest_queue'[Len(rest_queue')] = r
        /\ Len(rest_queue') \in 1..Len(rest_queue')
        /\ \A i \in 1..Len(rest_queue') :
              i \in 1..Len(rest_queue) \/ i = Len(rest_queue')
    BY <1>s, <2>1, Appended
  <2>3. Len(rest_queue') <= QUEUE_DEPTH
    BY <1>1, <1>d, <2>2
  <2>. QED BY <1>s, <2>1, <2>2, <2>3
<1>2. CASE ~(Len(rest_queue) < QUEUE_DEPTH)
  <2>1. /\ UNCHANGED <<rest_queue, rest_serving, rest_applied>>
        /\ lost' = lost \cup {r.msg}
    BY <1>2, Zenon DEF Enqueue, outbox
  <2>2. r.msg \in 0..MaxMessages
    BY DEF Request
  <2>3. Len(rest_queue) \in Nat
    BY <1>s, LenProperties
  <2>. QED BY <1>s, <2>1, <2>2, <2>3
<1>. QED BY <1>1, <1>2

(* The WebSocket task's request is about the message at hand. *)
LEMMA Asked ==
    ASSUME Shape, NEW i \in {1, 2}, AskFor(i)
    PROVE  \E r \in Request : /\ Enqueue(r) /\ r.msg = ws.msg
                              /\ r.what = IF i = 1 THEN "delete" ELSE "log"
<1>1. /\ ws.msg \in 0..MaxMessages /\ 0 \in 0..MaxCommands
      /\ Requests[1] = "delete" /\ Requests[2] = "log"
  BY ModerationAssumption DEF Shape, Requests
<1>. DEFINE r == [what |-> Requests[i], msg |-> ws.msg, n |-> 0]
<1>2. r \in Request
  BY <1>1 DEF Request
<1>3. Enqueue(r)
  BY Zenon DEF AskFor
<1>. QED BY <1>1, <1>2, <1>3

LEMMA Going ==
    ASSUME Shape, NEW from, NEW to \in WsPcs, Goto(from, to)
    PROVE  /\ ws' \in [pc : WsPcs, msg : 0..MaxMessages]
           /\ ws.pc = from /\ ws'.pc = to /\ ws'.msg = ws.msg
BY DEF Shape, Goto

LEMMA ShapeWs == Shape /\ ModInv /\ WsTask => Shape'
<1>. SUFFICES ASSUME Shape, ModInv, WsTask PROVE Shape'
  OBVIOUS
<1>. USE DEF settings, arrived, outbox, warnings
<1>1. CASE Receive
  <2>1. /\ inbox # <<>> /\ inbox' = Tail(inbox) /\ inbox \in Seq(1..MaxMessages)
        /\ UNCHANGED messages /\ Len(messages) <= MaxMessages
        /\ \A i \in 1..Len(inbox) : inbox[i] <= Len(messages)
    BY <1>1 DEF Receive, Shape
  <2>2. /\ inbox' \in Seq(1..MaxMessages) /\ Head(inbox) \in 1..MaxMessages
        /\ \A i \in 1..Len(inbox') : i + 1 \in 1..Len(inbox)
                                    /\ inbox'[i] = inbox[i + 1]
    <3>. DEFINE S == 1..MaxMessages
    <3>1. inbox \in Seq(S)
      BY <2>1
    <3>. HIDE DEF S
    <3>2. /\ inbox' \in Seq(S) /\ Head(inbox) \in S
          /\ \A i \in 1..Len(inbox') : i + 1 \in 1..Len(inbox)
                                      /\ inbox'[i] = inbox[i + 1]
      BY <2>1, <3>1, Tailed
    <3>. QED BY <3>2 DEF S
  <2>3. ws' \in [pc : WsPcs, msg : 0..MaxMessages]
    <3>1. CASE Checked(messages[Head(inbox)])
      <4>1. ws' = [pc |-> "delete", msg |-> Head(inbox)]
        BY <1>1, <3>1 DEF Receive
      <4>. QED BY <2>2, <4>1, ModerationAssumption DEF WsPcs
    <3>2. CASE ~Checked(messages[Head(inbox)])
      BY <1>1, <3>2 DEF Receive, Shape
    <3>. QED BY <3>1, <3>2
  <2>4. UNCHANGED <<config, s_keywords, cmd, rest_queue, rest_serving,
                    rest_applied, total, reply, lost, commands, failures>>
    BY <1>1 DEF Receive
  <2>. QED BY <2>1, <2>2, <2>3, <2>4 DEF Shape
<1>2. CASE QueueDelete
  <2>1. PICK r \in Request : Enqueue(r)
    BY <1>2, Asked DEF QueueDelete
  <2>2. ws' \in [pc : WsPcs, msg : 0..MaxMessages]
    BY <1>2, Going DEF QueueDelete, WsPcs
  <2>. QED BY <1>2, <2>1, <2>2, Enqueued DEF QueueDelete, Shape
<1>3. CASE CountWarning
  <2>1. ws' \in [pc : WsPcs, msg : 0..MaxMessages]
    BY <1>3, Going DEF CountWarning, WsPcs
  <2>2. Warn!Increment("ws", messages[ws.msg].author) /\ ws.pc = "warn"
    BY <1>3 DEF CountWarning, Current, Goto
  <2>3. messages[ws.msg].author \in Users \cup {Bot}
    BY <2>2, BadAuthor DEF ModInv, WsOk
  <2>4. /\ total' \in [Users \cup {Bot} -> 0..255]
        /\ reply' \in [{"ws", "commands"} -> 0..255]
    BY <2>2, <2>3, Counted
  <2>. QED BY <1>3, <2>1, <2>4 DEF CountWarning, Shape
<1>4. CASE LogAction
  <2>1. ws' \in [pc : WsPcs, msg : 0..MaxMessages]
    BY <1>4, Going DEF LogAction, WsPcs
  <2>2. CASE config.log_channel
    <3>1. PICK r \in Request : Enqueue(r)
      BY <1>4, <2>2, Asked DEF LogAction
    <3>. QED BY <1>4, <2>1, <3>1, Enqueued DEF LogAction, Shape
  <2>3. CASE ~config.log_channel
    BY <1>4, <2>1, <2>3 DEF LogAction, Shape
  <2>. QED BY <2>2, <2>3
<1>5. CASE Beep
  <2>1. ws' \in [pc : WsPcs, msg : 0..MaxMessages]
    <3>. DEFINE to == IF reply["ws"] >= 3 THEN "tone" ELSE "idle"
    <3>1. to \in WsPcs /\ Goto("beep", to)
      BY <1>5 DEF Beep, WsPcs
    <3>. HIDE DEF to
    <3>. QED BY <3>1, Going
  <2>. QED BY <1>5, <2>1 DEF Beep, Shape
<1>6. CASE Tone
  <2>1. ws' \in [pc : WsPcs, msg : 0..MaxMessages]
    BY <1>6, Going DEF Tone, WsPcs
  <2>. QED BY <1>6, <2>1 DEF Tone, Shape
<1>. QED BY <1>1, <1>2, <1>3, <1>4, <1>5, <1>6 DEF WsTask

LEMMA ShapeCmd == Shape /\ CmdTask => Shape'
<1>. SUFFICES ASSUME Shape, CmdTask PROVE Shape'
  OBVIOUS
<1>. USE DEF settings, arrived, outbox, warnings
<1>c. ASSUME CmdStarts PROVE commands' \in 0..MaxCommands
  BY <1>c, ModerationAssumption DEF CmdStarts, Shape
<1>1. CASE CmdLog
  <2>1. CASE config.log_channel
    <3>. DEFINE r == [what |-> "warnlog", msg |-> 0, n |-> commands]
    <3>1. r \in Request
      BY ModerationAssumption DEF Request, Shape
    <3>2. Enqueue(r)
      BY <1>1, <2>1, Zenon DEF CmdLog
    <3>. HIDE DEF r
    <3>. QED BY <1>1, <3>1, <3>2, Enqueued DEF CmdLog, Shape
  <2>2. CASE ~config.log_channel
    BY <1>1, <2>2 DEF CmdLog, Shape
  <2>. QED BY <2>1, <2>2
<1>2. ASSUME NEW u \in Users, CmdWarn(u) PROVE Shape'
  <2>1. commands' \in 0..MaxCommands
    BY <1>2, <1>c DEF CmdWarn
  <2>. QED BY <1>2, <2>1, Counted DEF CmdWarn, Shape
<1>3. ASSUME NEW u \in Users, CmdClear(u) PROVE Shape'
  <2>1. commands' \in 0..MaxCommands
    BY <1>3, <1>c DEF CmdClear
  <2>2. total' \in [Users \cup {Bot} -> 0..255] /\ UNCHANGED reply
    BY <1>3 DEF CmdClear, Warn!Clear, Shape
  <2>. QED BY <1>3, <2>1, <2>2 DEF CmdClear, Shape
<1>. QED BY <1>1, <1>2, <1>3 DEF CmdTask

(* rest_task and Discord. *)
LEMMA Took ==
    ASSUME Shape, Out!Take
    PROVE  /\ rest_serving = NoRequest
           /\ rest_queue' \in Seq(Request) /\ Len(rest_queue') <= QUEUE_DEPTH
           /\ rest_serving' = rest_queue[1] /\ rest_serving' \in Request
           /\ UNCHANGED rest_applied
           /\ Len(rest_queue) \in Nat /\ 1 \in 1..Len(rest_queue)
           /\ Len(rest_queue') = Len(rest_queue) - 1
           /\ \A i \in 1..Len(rest_queue') :
                 /\ i + 1 \in 1..Len(rest_queue)
                 /\ rest_queue'[i] = rest_queue[i + 1]
<1>1. /\ rest_serving = NoRequest /\ rest_queue # <<>>
      /\ rest_serving' = Head(rest_queue) /\ rest_queue' = Tail(rest_queue)
      /\ UNCHANGED rest_applied
      /\ rest_queue \in Seq(Request) /\ Len(rest_queue) <= QUEUE_DEPTH
  BY DEF Out!Take, Shape
<1>2. /\ rest_queue' \in Seq(Request) /\ Len(rest_queue) \in Nat
      /\ Len(rest_queue') = Len(rest_queue) - 1
      /\ Head(rest_queue) \in Request /\ 1 \in 1..Len(rest_queue)
      /\ Head(rest_queue) = rest_queue[1]
      /\ \A i \in 1..Len(rest_queue') :
            /\ i + 1 \in 1..Len(rest_queue)
            /\ rest_queue'[i] = rest_queue[i + 1]
  BY <1>1, Tailed
<1>3. Len(rest_queue') <= QUEUE_DEPTH
  BY <1>1, <1>2, ModerationAssumption
<1>. QED BY <1>1, <1>2, <1>3

LEMMA TookEffect ==
    ASSUME Shape, Out!TakesEffect
    PROVE  /\ rest_serving \in Request
           /\ UNCHANGED <<rest_queue, rest_serving>>
           /\ rest_applied' \in Seq(Request)
           /\ \A i \in 1..Len(rest_applied') :
                 \/ i \in 1..Len(rest_applied) /\ rest_applied'[i] = rest_applied[i]
                 \/ rest_applied'[i] = rest_serving
<1>1. /\ rest_serving # NoRequest /\ rest_serving \in Request \cup {NoRequest}
      /\ UNCHANGED <<rest_queue, rest_serving>>
      /\ rest_applied' = Append(rest_applied, rest_serving)
      /\ rest_applied \in Seq(Request)
  BY DEF Out!TakesEffect, Shape
<1>. QED BY <1>1, Appended

(* What Discord does with a request. *)
LEMMA Applied ==
    ASSUME Shape, Applies
    PROVE  /\ deleted \subseteq deleted'
           /\ rest_serving.what = "delete" => rest_serving.msg \in deleted'
           /\ \/ UNCHANGED deleted
              \/ /\ rest_serving.what = "delete"
                 /\ deleted' = deleted \cup {rest_serving.msg}
           /\ \/ UNCHANGED arrived
              \/ /\ Len(messages) < MaxMessages
                 /\ \E m \in Message : Arrive(m)
<1>1. rest_serving.what \in {"delete", "log", "warnlog"}
  BY TookEffect DEF Applies, Request
<1>2. CASE rest_serving.what = "delete"
  <2>1. deleted' = deleted \cup {rest_serving.msg} /\ UNCHANGED arrived
    BY <1>2 DEF Applies
  <2>. QED BY <1>2, <2>1
<1>e. ASSUME NEW m \in Message, Echo(m)
      PROVE  \/ UNCHANGED arrived
             \/ Len(messages) < MaxMessages /\ \E x \in Message : Arrive(x)
  BY <1>e, Zenon DEF Echo
<1>3. CASE rest_serving.what = "log"
  <2>1. Echo(LogOf(messages[rest_serving.msg])) /\ UNCHANGED deleted
    BY <1>3 DEF Applies
  <2>. QED BY <1>e, <1>3, <2>1, LogIsMessage
<1>4. CASE rest_serving.what = "warnlog"
  <2>1. Echo(WarnLog) /\ UNCHANGED deleted
    BY <1>4 DEF Applies
  <2>2. WarnLog \in Message
    BY DEF Message
  <2>. QED BY <1>e, <1>4, <2>1, <2>2
<1>. QED BY <1>1, <1>2, <1>3, <1>4

LEMMA Finished ==
    ASSUME Shape, RestFinishes
    PROVE  /\ rest_serving \in Request /\ rest_serving' = NoRequest
           /\ UNCHANGED <<rest_queue, rest_applied>>
           /\ lost \subseteq lost' /\ lost' \subseteq 0..MaxMessages
           /\ \/ \E i \in 1..Len(rest_applied) : rest_applied[i] = rest_serving
              \/ rest_serving.msg \in lost'
           /\ failures' \in 0..MaxFailures
<1>1. /\ rest_serving # NoRequest /\ rest_serving \in Request \cup {NoRequest}
      /\ rest_serving' = NoRequest
      /\ UNCHANGED <<rest_queue, rest_applied>>
      /\ lost \subseteq 0..MaxMessages /\ failures \in 0..MaxFailures
      /\ rest_applied \in Seq(Request)
  BY DEF RestFinishes, Out!Finish, Shape
<1>2. rest_serving.msg \in 0..MaxMessages
  BY <1>1 DEF Request
<1>3. CASE rest_serving \in Range(rest_applied)
  <2>1. UNCHANGED <<lost, failures>>
    BY <1>3 DEF RestFinishes
  <2>. QED BY <1>1, <1>3, <2>1, RangeOf
<1>4. CASE rest_serving \notin Range(rest_applied)
  <2>1. /\ failures < MaxFailures /\ failures' = failures + 1
        /\ lost' = lost \cup {rest_serving.msg}
    BY <1>4 DEF RestFinishes
  <2>2. failures' \in 0..MaxFailures
    BY <1>1, <2>1, ModerationAssumption
  <2>. QED BY <1>1, <1>2, <2>1, <2>2
<1>. QED BY <1>3, <1>4

LEMMA ShapeRest == Shape /\ RestTask => Shape'
<1>. SUFFICES ASSUME Shape, RestTask PROVE Shape'
  OBVIOUS
<1>. USE DEF settings, arrived, outbox, warnings
<1>1. CASE RestTakes
  BY <1>1, Took DEF RestTakes, Shape
<1>2. CASE Applies
  <2>1. rest_applied' \in Seq(Request) /\ UNCHANGED <<rest_queue, rest_serving>>
    BY <1>2, TookEffect DEF Applies
  <2>2. /\ messages' \in Seq(Message) /\ Len(messages') <= MaxMessages
        /\ inbox' \in Seq(1..MaxMessages)
        /\ \A i \in 1..Len(inbox') : inbox'[i] <= Len(messages')
    <3>1. CASE UNCHANGED arrived
      BY <3>1 DEF Shape
    <3>2. CASE ~UNCHANGED arrived
      BY <1>2, <3>2, Applied, Arrived
    <3>. QED BY <3>1, <3>2
  <2>. QED BY <1>2, <2>1, <2>2 DEF Applies, Shape
<1>3. CASE RestFinishes
  BY <1>3, Finished DEF RestFinishes, Shape
<1>. QED BY <1>1, <1>2, <1>3 DEF RestTask

LEMMA ShapeNext == Shape /\ ModInv /\ [Next]_vars => Shape'
<1>1. ASSUME Shape, NEW t \in Talk, UserWrites(t) PROVE Shape'
  <2>1. /\ messages' \in Seq(Message) /\ Len(messages') <= MaxMessages
        /\ inbox' \in Seq(1..MaxMessages)
        /\ \A i \in 1..Len(inbox') : inbox'[i] <= Len(messages')
    <3>1. UserText(t) \in Message /\ Arrive(UserText(t))
          /\ Len(messages) < MaxMessages
      BY <1>1 DEF Message, UserText, UserWrites
    <3>. QED BY <1>1, <3>1, Arrived
  <2>. QED BY <1>1, <2>1 DEF UserWrites, Shape, settings, outbox, warnings
<1>2. ASSUME Shape, UNCHANGED vars PROVE Shape'
  BY <1>2 DEF vars, settings, arrived, outbox, warnings, Shape
<1>. QED BY <1>1, <1>2, ShapeWs, ShapeCmd, ShapeRest DEF Next

-----------------------------------------------------------------------------
(* The settings stay, and messages are only added, one at a time. *)
LEMMA MessagesGrow ==
    ASSUME Shape, [Next]_vars
    PROVE  /\ UNCHANGED settings
           /\ \/ UNCHANGED messages
              \/ Len(messages) < MaxMessages /\ \E m \in Message : Arrive(m)
           /\ \A m \in 1..Len(messages) : /\ m \in 1..Len(messages')
                                          /\ messages'[m] = messages[m]
<1>. USE DEF settings, arrived, outbox, warnings
<1>1. UNCHANGED settings
  BY DEF Next, WsTask, CmdTask, RestTask, Receive, QueueDelete, CountWarning,
     LogAction, Beep, Tone, CmdLog, CmdWarn, CmdClear, RestTakes, Applies,
     RestFinishes, UserWrites, vars
<1>2. \/ UNCHANGED messages
      \/ Len(messages) < MaxMessages /\ \E m \in Message : Arrive(m)
  <2>1. ASSUME NEW t \in Talk, UserWrites(t)
        PROVE  Len(messages) < MaxMessages /\ \E m \in Message : Arrive(m)
    <3>1. UserText(t) \in Message /\ Arrive(UserText(t))
          /\ Len(messages) < MaxMessages
      BY <2>1 DEF Message, UserText, UserWrites
    <3>. QED BY <3>1
  <2>2. ASSUME Applies
        PROVE  \/ UNCHANGED messages
               \/ Len(messages) < MaxMessages /\ \E m \in Message : Arrive(m)
    BY <2>2, Applied
  <2>. QED BY <2>1, <2>2
           DEF Next, WsTask, CmdTask, RestTask, Receive, QueueDelete,
               CountWarning, LogAction, Beep, Tone, CmdLog, CmdWarn, CmdClear,
               RestTakes, RestFinishes, vars
<1>3. \A m \in 1..Len(messages) : /\ m \in 1..Len(messages')
                                  /\ messages'[m] = messages[m]
  <2>1. CASE UNCHANGED messages
    BY <2>1
  <2>2. CASE ~UNCHANGED messages
    BY <1>2, <2>2, Arrived
  <2>. QED BY <2>1, <2>2
<1>. QED BY <1>1, <1>2, <1>3

(* A message that breaks a rule goes on doing so. *)
LEMMA BadStays == Shape /\ [Next]_vars => Bad \subseteq Bad'
<1>. SUFFICES ASSUME Shape, [Next]_vars PROVE Bad \subseteq Bad'
  OBVIOUS
<1>. USE DEF settings
<1>1. UNCHANGED settings
  BY MessagesGrow
<1>3. \A m \in 1..Len(messages) : /\ m \in 1..Len(messages')
                                  /\ messages'[m] = messages[m]
  BY MessagesGrow
<1>4. ASSUME NEW x PROVE Checked(x)' <=> Checked(x)
  BY <1>1 DEF Checked, Violates, MentionSpam, LinkSpam, KeywordMatch
<1>5. ASSUME NEW m \in Bad PROVE m \in Bad'
  <2>1. PICK x : x = messages[m]
    OBVIOUS
  <2>2. m \in 1..Len(messages') /\ messages'[m] = x /\ Checked(x)
    BY <1>3, <2>1 DEF Bad
  <2>3. Checked(x)'
    BY <1>4, <2>2
  <2>4. Checked(messages[m])'
    BY <2>2, <2>3 DEF Checked, Violates, MentionSpam, LinkSpam, KeywordMatch
  <2>. QED BY <2>2, <2>4 DEF Bad
<1>. QED BY <1>5

LEMMA ModInit == Init => ModInv
<1>. SUFFICES ASSUME Init PROVE ModInv
  OBVIOUS
<1>1. /\ ws.pc = "idle" /\ ws.msg = 0 /\ deleted = {} /\ rest_serving = NoRequest
      /\ rest_queue = <<>>
  BY DEF Init, Out!Init
<1>2. Len(rest_queue) = 0
  BY <1>1, EmptySeq
<1>. QED BY <1>1, <1>2 DEF ModInv, WsOk, NoRequest

LEMMA ModNext == Shape /\ ModInv /\ [Next]_vars => ModInv'
<1>. SUFFICES ASSUME Shape, ModInv, [Next]_vars PROVE ModInv'
  OBVIOUS
<1>. USE DEF settings, arrived, outbox, warnings
<1>b. Bad \subseteq Bad'
  BY BadStays
<1>i. /\ WsOk
      /\ deleted \subseteq Bad
      /\ \A i \in 1..Len(rest_queue) :
            rest_queue[i].what \in {"delete", "log"} => rest_queue[i].msg \in Bad
      /\ rest_serving.what \in {"delete", "log"} => rest_serving.msg \in Bad
  BY DEF ModInv
<1>k. ASSUME UNCHANGED <<deleted, rest_queue, rest_serving>>,
             WsOk'
      PROVE  ModInv'
  BY <1>b, <1>i, <1>k DEF ModInv
<1>q. ASSUME NEW r \in Request, Enqueue(r), UNCHANGED deleted,
             r.what \in {"delete", "log"} => r.msg \in Bad,
             WsOk'
      PROVE  ModInv'
  <2>1. /\ UNCHANGED rest_serving
        /\ \A i \in 1..Len(rest_queue) : rest_queue'[i] = rest_queue[i]
        /\ \A i \in 1..Len(rest_queue') :
              \/ i \in 1..Len(rest_queue)
              \/ i = Len(rest_queue') /\ rest_queue'[i] = r
    BY <1>q, Enqueued
  <2>2. ASSUME NEW i \in 1..Len(rest_queue'),
               rest_queue'[i].what \in {"delete", "log"}
        PROVE  rest_queue'[i].msg \in Bad
    BY <1>i, <1>q, <2>1, <2>2
  <2>. QED BY <1>b, <1>i, <1>q, <2>1, <2>2 DEF ModInv
<1>1. CASE Receive
  <2>1. /\ UNCHANGED <<deleted, rest_queue, rest_serving>>
        /\ inbox # <<>> /\ inbox \in Seq(1..MaxMessages)
        /\ \A i \in 1..Len(inbox) : inbox[i] <= Len(messages)
    BY <1>1 DEF Receive, Shape
  <2>2. Head(inbox) \in 1..Len(messages)
    <3>1. 1 \in 1..Len(inbox) /\ Head(inbox) = inbox[1]
      <4>. DEFINE S == 1..MaxMessages
      <4>1. inbox \in Seq(S)
        BY <2>1
      <4>. HIDE DEF S
      <4>. QED BY <2>1, <4>1, Tailed
    <3>2. inbox[1] \in 1..MaxMessages
      BY <2>1, <3>1, SeqIn
    <3>3. Len(messages) \in Nat
      BY LenProperties DEF Shape
    <3>. QED BY <2>1, <3>1, <3>2, <3>3, ModerationAssumption
  <2>3. CASE Checked(messages[Head(inbox)])
    <3>1. ws' = [pc |-> "delete", msg |-> Head(inbox)]
      BY <1>1, <2>3 DEF Receive
    <3>2. Head(inbox) \in Bad
      BY <2>2, <2>3 DEF Bad
    <3>3. WsOk'
      BY <1>b, <3>1, <3>2 DEF WsOk
    <3>. QED BY <1>k, <2>1, <3>3
  <2>4. CASE ~Checked(messages[Head(inbox)])
    <3>1. UNCHANGED ws
      BY <1>1, <2>4 DEF Receive
    <3>. QED BY <1>b, <1>i, <1>k, <2>1, <3>1 DEF WsOk
  <2>. QED BY <2>3, <2>4
<1>2. CASE QueueDelete
  <2>1. PICK r \in Request : Enqueue(r) /\ r.msg = ws.msg
    BY <1>2, Asked DEF QueueDelete
  <2>2. ws.pc = "delete" /\ ws'.msg = ws.msg /\ UNCHANGED deleted
    BY <1>2, Going DEF QueueDelete, WsPcs
  <2>3. ws.msg \in Bad /\ WsOk'
    BY <1>b, <1>i, <2>2 DEF WsOk
  <2>. QED BY <1>q, <2>1, <2>2, <2>3
<1>3. CASE CountWarning \/ Beep \/ Tone
  <2>1. /\ UNCHANGED <<deleted, rest_queue, rest_serving>>
        /\ ws.pc # "idle" /\ ws'.msg = ws.msg
    BY <1>3 DEF CountWarning, Beep, Tone, Goto, Shape
  <2>. QED BY <1>b, <1>i, <1>k, <2>1 DEF WsOk
<1>4. CASE LogAction
  <2>1. ws.pc = "log" /\ ws'.msg = ws.msg /\ UNCHANGED deleted
    BY <1>4, Going DEF LogAction, WsPcs
  <2>w. ws.msg \in Bad /\ WsOk'
    BY <1>b, <1>i, <2>1 DEF WsOk
  <2>2. CASE config.log_channel
    <3>1. PICK r \in Request : Enqueue(r) /\ r.msg = ws.msg
      BY <1>4, <2>2, Asked DEF LogAction
    <3>. QED BY <1>q, <2>1, <2>w, <3>1
  <2>3. CASE ~config.log_channel
    <3>1. UNCHANGED <<rest_queue, rest_serving>>
      BY <1>4, <2>3 DEF LogAction
    <3>. QED BY <1>k, <2>1, <2>w, <3>1
  <2>. QED BY <2>2, <2>3
<1>5. CASE CmdLog
  <2>1. UNCHANGED <<ws, deleted>>
    BY <1>5 DEF CmdLog
  <2>w. WsOk'
    BY <1>b, <1>i, <2>1 DEF WsOk
  <2>2. CASE config.log_channel
    <3>. DEFINE r == [what |-> "warnlog", msg |-> 0, n |-> commands]
    <3>1. r \in Request /\ r.what = "warnlog"
      BY ModerationAssumption DEF Request, Shape
    <3>2. Enqueue(r)
      BY <1>5, <2>2, Zenon DEF CmdLog
    <3>. HIDE DEF r
    <3>3. r.what \notin {"delete", "log"}
      BY <3>1
    <3>. QED BY <1>q, <2>1, <2>w, <3>1, <3>2, <3>3
  <2>3. CASE ~config.log_channel
    <3>1. UNCHANGED <<rest_queue, rest_serving>>
      BY <1>5, <2>3 DEF CmdLog
    <3>. QED BY <1>k, <2>1, <2>w, <3>1
  <2>. QED BY <2>2, <2>3
<1>6. ASSUME UNCHANGED <<ws, deleted, rest_queue, rest_serving>> PROVE ModInv'
  BY <1>b, <1>i, <1>k, <1>6 DEF WsOk
<1>7. CASE RestTakes
  <2>1. UNCHANGED <<ws, deleted>>
    BY <1>7 DEF RestTakes
  <2>2. /\ rest_serving' = rest_queue[1] /\ 1 \in 1..Len(rest_queue)
        /\ \A i \in 1..Len(rest_queue') :
              /\ i + 1 \in 1..Len(rest_queue)
              /\ rest_queue'[i] = rest_queue[i + 1]
    BY <1>7, Took DEF RestTakes
  <2>. QED BY <1>b, <1>i, <2>1, <2>2 DEF ModInv, WsOk
<1>8. CASE Applies
  <2>1. UNCHANGED <<ws, rest_queue, rest_serving>>
    BY <1>8, TookEffect DEF Applies
  <2>2. deleted' \subseteq Bad
    BY <1>8, <1>i, Applied
  <2>. QED BY <1>b, <1>i, <2>1, <2>2 DEF ModInv, WsOk
<1>9. CASE RestFinishes
  <2>1. UNCHANGED <<ws, deleted, rest_queue>> /\ rest_serving' = NoRequest
    BY <1>9, Finished DEF RestFinishes
  <2>. QED BY <1>b, <1>i, <2>1 DEF ModInv, NoRequest, WsOk
<1>10. ASSUME NEW t \in Talk, UserWrites(t) PROVE ModInv'
  BY <1>6, <1>10 DEF UserWrites
<1>11. ASSUME NEW u \in Users, CmdWarn(u) \/ CmdClear(u) PROVE ModInv'
  BY <1>6, <1>11 DEF CmdWarn, CmdClear
<1>12. CASE UNCHANGED vars
  BY <1>6, <1>12 DEF vars
<1>. QED BY <1>1, <1>2, <1>3, <1>4, <1>5, <1>6, <1>7, <1>8, <1>9, <1>10,
            <1>11, <1>12 DEF Next, WsTask, CmdTask, RestTask

LEMMA ModIsSafe == Spec => [](Shape /\ ModInv)
BY ShapeInit, ModInit, ShapeNext, ModNext, PTL DEF Spec

(* The tasks keep every variable in its range: the keyword table and the     *)
(* request queue never hold more than they have room for, and only messages  *)
(* that were delivered are deleted.                                          *)
THEOREM TypeCorrect == Spec => []TypeOK
<1>1. Shape /\ ModInv => TypeOK
  <2>. SUFFICES ASSUME Shape, ModInv PROVE TypeOK
    OBVIOUS
  <2>1. Cardinality(DOMAIN s_keywords) <= MAX_KEYWORDS
    BY KeywordsFit DEF Shape
  <2>2. messages \in Seq(Message) /\ DOMAIN messages = 1..Len(messages)
        /\ Len(messages) \in Nat
    BY LenProperties DEF Shape
  <2>3. Range(inbox) \subseteq DOMAIN messages
    <3>1. ASSUME NEW x \in Range(inbox) PROVE x \in 1..Len(messages)
      <4>1. PICK i \in 1..Len(inbox) : inbox[i] = x
        BY <3>1, RangeOf DEF Shape
      <4>2. inbox[i] \in 1..MaxMessages /\ inbox[i] <= Len(messages)
        BY SeqIn DEF Shape
      <4>. QED BY <2>2, <4>1, <4>2, ModerationAssumption
    <3>. QED BY <2>2, <3>1
  <2>4. Range(rest_applied) \subseteq Request
    <3>1. rest_applied \in Seq(Request)
      BY DEF Shape
    <3>2. ASSUME NEW x \in Range(rest_applied) PROVE x \in Request
      <4>1. PICK i \in 1..Len(rest_applied) : rest_applied[i] = x
        BY <3>1, RangeOf
      <4>. QED BY <3>1, <4>1, SeqIn
    <3>. QED BY <3>2
  <2>5. deleted \subseteq DOMAIN messages
    BY <2>2 DEF ModInv, Bad
  <2>6. ws.pc \in WsPcs /\ ws.msg \in 0..MaxMessages
    BY DEF Shape
  <2>. QED BY <2>1, <2>2, <2>3, <2>4, <2>5, <2>6 DEF Shape, TypeOK, WsPcs
<1>. QED BY <1>1, ModIsSafe, PTL

(* The filter's own log messages, which Discord sends back to the bot, are   *)
(* never deleted or counted, under any settings but those with which the     *)
(* text of such a message breaks a rule (log_action, filter_check_message).  *)
THEOREM LogIsLeftAlone == Spec => []NeverModeratesItsLog
<1>1. ASSUME Shape, ~SelfTriggering, NEW m \in Bad
      PROVE  messages[m].kind # "log"
  <2>. SUFFICES ASSUME messages[m].kind = "log" PROVE FALSE
    OBVIOUS
  <2>1. m \in 1..Len(messages) /\ Violates(messages[m])
    BY DEF Bad, Checked
  <2>2. messages[m] \in Message
    BY <1>1, <2>1, SeqIn DEF Shape
  <2>3. PICK r \in Reasons : messages[m] = LogText(r)
    BY <2>2 DEF Message, UserText, WarnLog, Post
  <2>4. Violates(Post(Bot, "log", TRUE, 1, WordsOf(r)))
    BY <2>1, <2>3 DEF LogText
  <2>. QED BY <1>1, <2>4 DEF SelfTriggering, Reasons
<1>2. Shape /\ ModInv => NeverModeratesItsLog
  BY <1>1 DEF ModInv, WsOk, NeverModeratesItsLog
<1>. QED BY <1>2, ModIsSafe, PTL

-----------------------------------------------------------------------------
LEMMA QueueIs ==
    ASSUME \A i \in 1..Len(rest_queue') : \A m :
              rest_queue'[i].what = "log" /\ rest_queue'[i].msg = m
                 => Sorted(m, i)'
    PROVE  QueueSorted'
BY DEF QueueSorted, Sorted, Serves, Before

LEMMA WsIs ==
    ASSUME ws'.pc \in {"warn", "log"}
              => \A n, m : n = Len(rest_queue') + 1 /\ m = ws'.msg
                              => Sorted(m, n)'
    PROVE  WsSorted'
BY DEF WsSorted, Sorted, Serves, Before

(* What is over stays so, and what is sorted stays so while requests only   *)
(* join the queue at its end.                                               *)
LEMMA SortedStays ==
    ASSUME Shape, Over \subseteq Over', UNCHANGED rest_serving,
           \A i \in 1..Len(rest_queue) :
              rest_queue'[i] = rest_queue[i] /\ i \in 1..Len(rest_queue')
    PROVE  \A m, i : Sorted(m, i) => Sorted(m, i)'
<1>. SUFFICES ASSUME NEW m, NEW i, Sorted(m, i) PROVE Sorted(m, i)'
  OBVIOUS
<1>1. CASE m \in Over \/ Serves(m)
  BY <1>1 DEF Sorted, Serves
<1>2. CASE Before(m, i)
  <2>1. PICK j \in 1..Len(rest_queue) :
           j < i /\ rest_queue[j].what = "delete" /\ rest_queue[j].msg = m
    BY <1>2 DEF Before
  <2>2. j \in 1..Len(rest_queue') /\ rest_queue'[j] = rest_queue[j]
    BY <2>1
  <2>. QED BY <2>1, <2>2 DEF Sorted, Before
<1>. QED BY <1>1, <1>2 DEF Sorted

LEMMA OrderInit == Init => OrderInv
<1>. SUFFICES ASSUME Init PROVE OrderInv
  OBVIOUS
<1>1. /\ ws.pc = "idle" /\ rest_serving = NoRequest
      /\ rest_queue = <<>> /\ rest_applied = <<>>
  BY DEF Init, Out!Init
<1>2. Len(rest_queue) = 0 /\ Len(rest_applied) = 0
  BY <1>1, EmptySeq
<1>. QED BY <1>1, <1>2 DEF OrderInv, QueueSorted, ServedSorted, WsSorted, NoRequest

LEMMA OrderNext == Shape /\ OrderInv /\ [Next]_vars => OrderInv'
<1>. SUFFICES ASSUME Shape, OrderInv, [Next]_vars PROVE OrderInv'
  OBVIOUS
<1>. USE DEF settings, arrived, outbox, warnings
<1>i. /\ \A i \in 1..Len(rest_queue) :
            rest_queue[i].what = "log" => Sorted(rest_queue[i].msg, i)
      /\ rest_serving.what = "log" => rest_serving.msg \in Over
      /\ \A i \in 1..Len(rest_applied) :
            /\ rest_applied[i].what = "log" => rest_applied[i].msg \in Over
            /\ rest_applied[i].what = "delete" => rest_applied[i].msg \in deleted
      /\ ws.pc \in {"warn", "log"} => Sorted(ws.msg, Len(rest_queue) + 1)
  BY DEF OrderInv, QueueSorted, ServedSorted, WsSorted
<1>n. Len(rest_queue) \in Nat
  BY LenProperties DEF Shape
<1>q. ASSUME NEW r \in Request, Enqueue(r), UNCHANGED deleted,
             r.what = "log" => Sorted(r.msg, Len(rest_queue) + 1),
             \/ ws'.pc \notin {"warn", "log"} \/ UNCHANGED ws
             \/ r.what = "delete" /\ ws'.msg = r.msg
      PROVE  OrderInv'
  <2>1. /\ UNCHANGED <<rest_serving, rest_applied>>
        /\ Over \subseteq Over'
        /\ \A i \in 1..Len(rest_queue) :
              rest_queue'[i] = rest_queue[i] /\ i \in 1..Len(rest_queue')
        /\ \A i \in 1..Len(rest_queue') :
              \/ i \in 1..Len(rest_queue)
              \/ i = Len(rest_queue') /\ rest_queue'[i] = r
        /\ \/ /\ Len(rest_queue') = Len(rest_queue) + 1
              /\ Len(rest_queue') \in 1..Len(rest_queue')
              /\ rest_queue'[Len(rest_queue')] = r
           \/ Len(rest_queue') = Len(rest_queue) /\ r.msg \in Over'
    BY <1>q, Enqueued DEF Over
  <2>2. \A m, i : Sorted(m, i) => Sorted(m, i)'
    BY <2>1, SortedStays
  <2>3. ASSUME NEW i \in 1..Len(rest_queue'), NEW m,
               rest_queue'[i].what = "log", rest_queue'[i].msg = m
        PROVE  Sorted(m, i)'
    <3>1. CASE i \in 1..Len(rest_queue)
      BY <1>i, <2>1, <2>2, <2>3, <3>1
    <3>2. CASE i \notin 1..Len(rest_queue)
      <4>1. i = Len(rest_queue) + 1 /\ r.what = "log" /\ r.msg = m
        BY <1>n, <2>1, <2>3, <3>2
      <4>. QED BY <1>q, <2>2, <4>1
    <3>. QED BY <3>1, <3>2
  <2>4. ASSUME NEW n, NEW m, n = Len(rest_queue') + 1, m = ws'.msg,
               ws'.pc \in {"warn", "log"}
        PROVE  Sorted(m, n)'
    <3>1. CASE UNCHANGED ws
      <4>1. Sorted(m, Len(rest_queue) + 1)
        BY <1>i, <2>4, <3>1
      <4>2. PICK k : k = Len(rest_queue) + 1
        OBVIOUS
      <4>3. Sorted(m, k) /\ k <= n
        BY <1>n, <2>1, <2>4, <4>1, <4>2
      <4>4. Sorted(m, k)'
        BY <2>2, <4>3
      <4>5. Before(m, k)' => Before(m, n)'
        BY <1>n, <2>1, <2>4, <4>2, <4>3 DEF Before
      <4>. QED BY <4>4, <4>5 DEF Sorted
    <3>2. CASE r.what = "delete" /\ ws'.msg = r.msg
      <4>1. CASE r.msg \in Over'
        BY <2>4, <3>2, <4>1 DEF Sorted
      <4>2. CASE r.msg \notin Over'
        <5>1. Len(rest_queue') \in 1..Len(rest_queue') /\ Len(rest_queue') < n
              /\ rest_queue'[Len(rest_queue')] = r
          BY <1>n, <2>1, <2>4, <4>2
        <5>. QED BY <2>4, <3>2, <5>1 DEF Sorted, Before
      <4>. QED BY <4>1, <4>2
    <3>. QED BY <1>q, <2>4, <3>1, <3>2
  <2>5. \A i \in 1..Len(rest_applied') :
              /\ rest_applied'[i].what = "log" => rest_applied'[i].msg \in Over'
              /\ rest_applied'[i].what = "delete"
                    => rest_applied'[i].msg \in deleted'
    BY <1>i, <1>q, <2>1
  <2>6. rest_serving'.what = "log" => rest_serving'.msg \in Over'
    BY <1>i, <2>1
  <2>q. QueueSorted'
    BY <2>3, QueueIs
  <2>w. WsSorted'
    BY <2>4, WsIs
  <2>s. ServedSorted'
    BY <2>5, <2>6 DEF ServedSorted
  <2>. QED BY <2>q, <2>w, <2>s DEF OrderInv
<1>k. ASSUME UNCHANGED <<deleted, lost, rest_queue, rest_serving, rest_applied>>,
             ws'.pc \in {"warn", "log"} => ws.pc \in {"warn", "log"},
             ws'.pc \in {"warn", "log"} => ws'.msg = ws.msg
      PROVE  OrderInv'
  <2>1. \A m, i : Sorted(m, i)' <=> Sorted(m, i)
    BY <1>k DEF Sorted, Over, Serves, Before
  <2>2. UNCHANGED Over
    BY <1>k DEF Over
  <2>3. ASSUME NEW i \in 1..Len(rest_queue'), NEW m,
               rest_queue'[i].what = "log", rest_queue'[i].msg = m
        PROVE  Sorted(m, i)'
    BY <1>i, <1>k, <2>1, <2>3
  <2>4. ASSUME NEW n, NEW m, n = Len(rest_queue') + 1, m = ws'.msg,
               ws'.pc \in {"warn", "log"}
        PROVE  Sorted(m, n)'
    BY <1>i, <1>k, <2>1, <2>4
  <2>q. QueueSorted'
    BY <2>3, QueueIs
  <2>w. WsSorted'
    BY <2>4, WsIs
  <2>s. ServedSorted'
    BY <1>i, <1>k, <2>2 DEF ServedSorted
  <2>. QED BY <2>q, <2>w, <2>s DEF OrderInv
<1>1. CASE Receive
  BY <1>1, <1>k DEF Receive
<1>2. CASE QueueDelete
  <2>1. PICK r \in Request : Enqueue(r) /\ r.msg = ws.msg /\ r.what = "delete"
    BY <1>2, Asked DEF QueueDelete
  <2>2. ws'.msg = ws.msg /\ UNCHANGED deleted
    BY <1>2, Going DEF QueueDelete, WsPcs
  <2>. QED BY <1>q, <2>1, <2>2
<1>3. CASE CountWarning
  <2>1. /\ UNCHANGED <<deleted, lost, rest_queue, rest_serving, rest_applied>>
        /\ ws.pc = "warn" /\ ws'.msg = ws.msg
    BY <1>3, Going DEF CountWarning, WsPcs
  <2>. QED BY <1>k, <2>1
<1>4. CASE LogAction
  <2>1. ws.pc = "log" /\ ws'.pc = "beep" /\ UNCHANGED deleted
    BY <1>4, Going DEF LogAction, WsPcs
  <2>2. CASE config.log_channel
    <3>1. PICK r \in Request : Enqueue(r) /\ r.msg = ws.msg
      BY <1>4, <2>2, Asked DEF LogAction
    <3>2. Sorted(r.msg, Len(rest_queue) + 1)
      BY <1>i, <2>1, <3>1
    <3>. QED BY <1>q, <2>1, <3>1, <3>2
  <2>3. CASE ~config.log_channel
    <3>1. UNCHANGED <<deleted, lost, rest_queue, rest_serving, rest_applied>>
      BY <1>4, <2>3 DEF LogAction
    <3>. QED BY <1>k, <2>1, <3>1
  <2>. QED BY <2>2, <2>3
<1>5. CASE CmdLog
  <2>1. UNCHANGED <<ws, deleted>>
    BY <1>5 DEF CmdLog
  <2>2. CASE config.log_channel
    <3>. DEFINE r == [what |-> "warnlog", msg |-> 0, n |-> commands]
    <3>1. r \in Request /\ r.what = "warnlog"
      BY ModerationAssumption DEF Request, Shape
    <3>2. Enqueue(r)
      BY <1>5, <2>2, Zenon DEF CmdLog
    <3>. HIDE DEF r
    <3>3. r.what # "log"
      BY <3>1
    <3>. QED BY <1>q, <2>1, <3>1, <3>2, <3>3
  <2>3. CASE ~config.log_channel
    <3>1. UNCHANGED <<lost, rest_queue, rest_serving, rest_applied>>
      BY <1>5, <2>3 DEF CmdLog
    <3>. QED BY <1>k, <2>1, <3>1
  <2>. QED BY <2>2, <2>3
<1>6. CASE Beep \/ Tone
  <2>1. ws'.pc \in {"idle", "tone"}
    BY <1>6 DEF Beep, Tone, Goto, Shape
  <2>. QED BY <1>6, <1>k, <2>1 DEF Beep, Tone
<1>7. CASE RestTakes
  <2>1. UNCHANGED <<ws, deleted, lost>> /\ UNCHANGED Over
    BY <1>7 DEF RestTakes, Over
  <2>2. /\ rest_serving = NoRequest /\ rest_serving' = rest_queue[1]
        /\ UNCHANGED rest_applied
        /\ 1 \in 1..Len(rest_queue) /\ Len(rest_queue') = Len(rest_queue) - 1
        /\ \A i \in 1..Len(rest_queue') :
              /\ i + 1 \in 1..Len(rest_queue)
              /\ rest_queue'[i] = rest_queue[i + 1]
    BY <1>7, Took DEF RestTakes
  <2>3. ASSUME NEW m, NEW i \in Nat, Sorted(m, i + 1)
        PROVE  Sorted(m, i)'
    <3>1. ~Serves(m)
      BY <2>2 DEF Serves, NoRequest
    <3>2. CASE m \in Over
      BY <2>1, <3>2 DEF Sorted
    <3>3. CASE Before(m, i + 1)
      <4>1. PICK j \in 1..Len(rest_queue) : /\ j < i + 1
               /\ rest_queue[j].what = "delete" /\ rest_queue[j].msg = m
        BY <3>3 DEF Before
      <4>2. CASE j = 1
        BY <2>2, <4>1, <4>2 DEF Sorted, Serves
      <4>3. CASE j # 1
        <5>1. j - 1 \in 1..Len(rest_queue') /\ j - 1 < i /\ (j - 1) + 1 = j
          BY <1>n, <2>2, <4>1, <4>3
        <5>2. rest_queue'[j - 1] = rest_queue[j]
          BY <2>2, <5>1
        <5>. QED BY <4>1, <5>1, <5>2 DEF Sorted, Before
      <4>. QED BY <4>2, <4>3
    <3>. QED BY <2>3, <3>1, <3>2, <3>3 DEF Sorted
  <2>4. ASSUME NEW i \in 1..Len(rest_queue'), NEW m,
               rest_queue'[i].what = "log", rest_queue'[i].msg = m
        PROVE  Sorted(m, i)'
    <3>1. /\ i \in Nat /\ i + 1 \in 1..Len(rest_queue)
          /\ rest_queue'[i] = rest_queue[i + 1]
      BY <2>2
    <3>2. PICK k \in 1..Len(rest_queue) : k = i + 1
      BY <3>1
    <3>3. rest_queue[k].what = "log" /\ rest_queue[k].msg = m
      BY <2>4, <3>1, <3>2
    <3>4. Sorted(m, k)
      BY <1>i, <3>3
    <3>. QED BY <2>3, <3>1, <3>2, <3>4
  <2>5. ASSUME NEW n, NEW m, n = Len(rest_queue') + 1, m = ws'.msg,
               ws'.pc \in {"warn", "log"}
        PROVE  Sorted(m, n)'
    <3>1. n \in Nat /\ n + 1 = Len(rest_queue) + 1
      BY <1>n, <2>2, <2>5
    <3>2. Sorted(m, n + 1)
      BY <1>i, <2>1, <2>5, <3>1
    <3>. QED BY <2>3, <3>1, <3>2
  <2>6. rest_serving'.what = "log" => rest_serving'.msg \in Over'
    <3>. SUFFICES ASSUME rest_queue[1].what = "log"
                  PROVE  rest_queue[1].msg \in Over
      BY <2>1, <2>2
    <3>1. PICK m : m = rest_queue[1].msg
      OBVIOUS
    <3>2. Sorted(m, 1)
      BY <1>i, <2>2, <3>1
    <3>3. ~Serves(m) /\ ~Before(m, 1)
      BY <2>2 DEF Serves, NoRequest, Before
    <3>. QED BY <3>1, <3>2, <3>3 DEF Sorted
  <2>q. QueueSorted'
    BY <2>4, QueueIs
  <2>w. WsSorted'
    BY <2>5, WsIs
  <2>s. ServedSorted'
    BY <1>i, <2>1, <2>2, <2>6 DEF ServedSorted
  <2>. QED BY <2>q, <2>w, <2>s DEF OrderInv
<1>8. CASE Applies
  <2>1. /\ UNCHANGED <<ws, lost, rest_queue, rest_serving>>
        /\ \A i \in 1..Len(rest_applied') :
              \/ i \in 1..Len(rest_applied) /\ rest_applied'[i] = rest_applied[i]
              \/ rest_applied'[i] = rest_serving
    BY <1>8, TookEffect DEF Applies
  <2>2. /\ deleted \subseteq deleted' /\ Over \subseteq Over'
        /\ rest_serving.what = "delete" => rest_serving.msg \in deleted'
    BY <1>8, <2>1, Applied DEF Over
  <2>3. \A m, i : Sorted(m, i) => Sorted(m, i)'
    BY <2>1, <2>2, SortedStays
  <2>4. ASSUME NEW i \in 1..Len(rest_queue'), NEW m,
               rest_queue'[i].what = "log", rest_queue'[i].msg = m
        PROVE  Sorted(m, i)'
    BY <1>i, <2>1, <2>3, <2>4
  <2>5. ASSUME NEW n, NEW m, n = Len(rest_queue') + 1, m = ws'.msg,
               ws'.pc \in {"warn", "log"}
        PROVE  Sorted(m, n)'
    BY <1>i, <2>1, <2>3, <2>5
  <2>6. \A i \in 1..Len(rest_applied') :
              /\ rest_applied'[i].what = "log" => rest_applied'[i].msg \in Over'
              /\ rest_applied'[i].what = "delete"
                    => rest_applied'[i].msg \in deleted'
    BY <1>i, <2>1, <2>2
  <2>7. rest_serving'.what = "log" => rest_serving'.msg \in Over'
    BY <1>i, <2>1, <2>2
  <2>q. QueueSorted'
    BY <2>4, QueueIs
  <2>w. WsSorted'
    BY <2>5, WsIs
  <2>s. ServedSorted'
    BY <2>6, <2>7 DEF ServedSorted
  <2>. QED BY <2>q, <2>w, <2>s DEF OrderInv
<1>9. CASE RestFinishes
  <2>1. /\ rest_serving' = NoRequest
        /\ UNCHANGED <<ws, deleted, rest_queue, rest_applied>>
        /\ Over \subseteq Over'
        /\ \/ \E i \in 1..Len(rest_applied) : rest_applied[i] = rest_serving
           \/ rest_serving.msg \in Over'
    BY <1>9, Finished DEF RestFinishes, Over
  <2>2. rest_serving.what = "delete" => rest_serving.msg \in Over'
    BY <1>i, <2>1 DEF Over
  <2>3. ASSUME NEW m, NEW i, Sorted(m, i) PROVE Sorted(m, i)'
    <3>1. CASE m \in Over \/ Serves(m)
      BY <2>1, <2>2, <3>1 DEF Sorted, Serves
    <3>2. CASE Before(m, i)
      BY <2>1, <3>2 DEF Sorted, Before
    <3>. QED BY <2>3, <3>1, <3>2 DEF Sorted
  <2>4. ASSUME NEW i \in 1..Len(rest_queue'), NEW m,
               rest_queue'[i].what = "log", rest_queue'[i].msg = m
        PROVE  Sorted(m, i)'
    BY <1>i, <2>1, <2>3, <2>4
  <2>5. ASSUME NEW n, NEW m, n = Len(rest_queue') + 1, m = ws'.msg,
               ws'.pc \in {"warn", "log"}
        PROVE  Sorted(m, n)'
    BY <1>i, <2>1, <2>3, <2>5
  <2>6. \A i \in 1..Len(rest_applied') :
              /\ rest_applied'[i].what = "log" => rest_applied'[i].msg \in Over'
              /\ rest_applied'[i].what = "delete"
                    => rest_applied'[i].msg \in deleted'
    BY <1>i, <2>1
  <2>7. rest_serving'.what # "log"
    BY <2>1 DEF NoRequest
  <2>q. QueueSorted'
    BY <2>4, QueueIs
  <2>w. WsSorted'
    BY <2>5, WsIs
  <2>s. ServedSorted'
    BY <2>6, <2>7 DEF ServedSorted
  <2>. QED BY <2>q, <2>w, <2>s DEF OrderInv
<1>10. ASSUME NEW t \in Talk, UserWrites(t) PROVE OrderInv'
  BY <1>k, <1>10 DEF UserWrites
<1>11. ASSUME NEW u \in Users, CmdWarn(u) \/ CmdClear(u) PROVE OrderInv'
  BY <1>k, <1>11 DEF CmdWarn, CmdClear
<1>12. CASE UNCHANGED vars
  BY <1>k, <1>12 DEF vars
<1>. QED BY <1>1, <1>2, <1>3, <1>4, <1>5, <1>6, <1>7, <1>8, <1>9, <1>10,
            <1>11, <1>12 DEF Next, WsTask, CmdTask, RestTask

(* A log message goes out only when the deletion it tells of is done, was    *)
(* dropped or has failed, for every depth of the queue and however the       *)
(* commands task's requests come in between (filter_check_message,           *)
(* log_action, rest_task).                                                   *)
THEOREM LogComesAfter == Spec => []LogFollowsDelete
<1>1. Shape /\ OrderInv => LogFollowsDelete
  BY RangeOf DEF Shape, OrderInv, ServedSorted, LogFollowsDelete, Over
<1>. QED BY <1>1, ModIsSafe, OrderInit, OrderNext, PTL DEF Spec

-----------------------------------------------------------------------------
(* The parts it is built on. *)

LEMMA Queues ==
    ASSUME Shape, NEW r \in Request, Enqueue(r)
    PROVE  Out!Next \/ UNCHANGED <<rest_queue, rest_serving, rest_applied>>
<1>1. CASE Len(rest_queue) < QUEUE_DEPTH
  <2>1. Out!Accept(r)
    BY <1>1 DEF Enqueue
  <2>. QED BY <2>1 DEF Out!Next
<1>2. CASE ~(Len(rest_queue) < QUEUE_DEPTH)
  BY <1>2, Zenon DEF Enqueue, outbox
<1>. QED BY <1>1, <1>2

(* The WebSocket task, the commands task and rest_task use the request queue *)
(* only as rest.c promises it, whichever of them is quicker and whether or   *)
(* not it is full: in order, one at a time, each request with effect at most *)
(* once (enqueue_request, rest_task).                                        *)
THEOREM UsesTheOutbox == Spec => Out!Spec
<1>. DEFINE box == <<rest_queue, rest_serving, rest_applied>>
<1>1. Init => Out!Init
  BY DEF Init
<1>2. ASSUME Shape, [Next]_vars PROVE [Out!Next]_box
  <2>. USE DEF outbox
  <2>1. CASE QueueDelete
    <3>1. PICK r \in Request : Enqueue(r)
      BY <1>2, <2>1, Asked DEF QueueDelete
    <3>. QED BY <1>2, <3>1, Queues
  <2>2. CASE LogAction
    <3>1. CASE config.log_channel
      <4>1. PICK r \in Request : Enqueue(r)
        BY <1>2, <2>2, <3>1, Asked DEF LogAction
      <4>. QED BY <1>2, <4>1, Queues
    <3>2. CASE ~config.log_channel
      BY <2>2, <3>2 DEF LogAction
    <3>. QED BY <3>1, <3>2
  <2>3. CASE CmdLog
    <3>1. CASE config.log_channel
      <4>. DEFINE r == [what |-> "warnlog", msg |-> 0, n |-> commands]
      <4>1. r \in Request
        BY <1>2, ModerationAssumption DEF Request, Shape
      <4>2. Enqueue(r)
        BY <2>3, <3>1, Zenon DEF CmdLog
      <4>. HIDE DEF r
      <4>. QED BY <1>2, <4>1, <4>2, Queues
    <3>2. CASE ~config.log_channel
      BY <2>3, <3>2 DEF CmdLog
    <3>. QED BY <3>1, <3>2
  <2>4. CASE RestTask
    BY <2>4 DEF RestTask, RestTakes, Applies, RestFinishes, Out!Next
  <2>5. CASE Receive \/ CountWarning \/ Beep \/ Tone
    BY <2>5 DEF Receive, CountWarning, Beep, Tone
  <2>6. ASSUME NEW u \in Users, CmdWarn(u) \/ CmdClear(u) PROVE UNCHANGED box
    BY <2>6 DEF CmdWarn, CmdClear
  <2>7. ASSUME NEW t \in Talk, UserWrites(t) PROVE UNCHANGED box
    BY <2>7 DEF UserWrites
  <2>8. CASE UNCHANGED vars
    BY <2>8 DEF vars
  <2>. QED BY <1>2, <2>1, <2>2, <2>3, <2>4, <2>5, <2>6, <2>7, <2>8
           DEF Next, WsTask, CmdTask
<1>. QED BY <1>1, <1>2, ModIsSafe, PTL DEF Spec, Out!Spec

(* The filter and the moderators count and clear warnings only as            *)
(* warnings.c promises it, and only for those it can count: no warning is    *)
(* ever given to a message without an author (filter_check_message,          *)
(* cmd_mod).                                                                 *)
THEOREM UsesTheCounters == Spec => Warn!Spec
<1>1. Init => Warn!Init
  BY DEF Init
<1>2. ASSUME Shape, ModInv, [Next]_vars PROVE [Warn!Next]_(Warn!vars)
  <2>. USE DEF warnings, Warn!vars
  <2>1. CASE CountWarning
    <3>1. Warn!Increment("ws", messages[ws.msg].author) /\ ws.pc = "warn"
      BY <2>1 DEF CountWarning, Current, Goto
    <3>2. messages[ws.msg].author \in Users \cup {Bot}
      BY <1>2, <3>1, BadAuthor DEF ModInv, WsOk
    <3>. QED BY <3>1, <3>2 DEF Warn!Next
  <2>2. ASSUME NEW u \in Users, CmdWarn(u) PROVE Warn!Next
    BY <2>2 DEF CmdWarn, Warn!Next
  <2>3. ASSUME NEW u \in Users, CmdClear(u) PROVE Warn!Next
    BY <2>3 DEF CmdClear, Warn!Next
  <2>4. CASE Receive \/ QueueDelete \/ LogAction \/ Beep \/ Tone \/ CmdLog
    BY <2>4 DEF Receive, QueueDelete, LogAction, Beep, Tone, CmdLog
  <2>5. CASE RestTask
    BY <2>5 DEF RestTask, RestTakes, Applies, RestFinishes
  <2>6. ASSUME NEW t \in Talk, UserWrites(t) PROVE UNCHANGED Warn!vars
    BY <2>6 DEF UserWrites
  <2>7. CASE UNCHANGED vars
    BY <2>7 DEF vars
  <2>. QED BY <1>2, <2>1, <2>2, <2>3, <2>4, <2>5, <2>6, <2>7
           DEF Next, WsTask, CmdTask
<1>. QED BY <1>1, <1>2, ModIsSafe, PTL DEF Spec, Warn!Spec

-----------------------------------------------------------------------------
(* The safety half of ViolationsAnswered: where a bad message is. *)

Waiting(m)  == \E i \in 1..Len(inbox) : inbox[i] = m
ToDelete(m) == ws.pc = "delete" /\ ws.msg = m
Queued(m)   == \E j \in 1..Len(rest_queue) :
                  rest_queue[j].what = "delete" /\ rest_queue[j].msg = m
Filed(m)    == m \in Over \/ Serves(m) \/ Queued(m)

PendingInv == \A m \in Bad : Waiting(m) \/ ToDelete(m) \/ Filed(m)

NoViolationForgotten ==
    \A m \in 1..Len(messages) :
       (/\ messages[m].fits /\ messages[m].author # Nobody
        /\ BreaksRules(messages[m]))
          => Waiting(m) \/ ToDelete(m) \/ Filed(m)

(* The first fields of a list are taken. *)
LEMMA KeywordsComplete ==
    ASSUME NEW c \in Configs, NEW i \in Fields(c.keywords), i <= MAX_KEYWORDS
    PROVE  i \in Room(c.keywords)
<1>. DEFINE list == c.keywords
            F == Fields(list)
<1>1. Len(list) \in Nat /\ DOMAIN list = 1..Len(list) /\ MAX_KEYWORDS \in Nat
  BY ModerationAssumption
<1>2. F \subseteq 1..Len(list)
  BY <1>1 DEF Fields
<1>3. Cardinality({j \in F : j <= i}) <= MAX_KEYWORDS
  <2>. DEFINE Up == {j \in F : j <= i}
  <2>1. i \in Nat /\ Up \subseteq 1..i
    BY <1>1, <1>2
  <2>2. IsFiniteSet(1..i) /\ Cardinality(1..i) = i
    BY <2>1, FS_Interval
  <2>3. /\ Cardinality(Up) <= Cardinality(1..i)
        /\ Cardinality(Up) \in Nat
    <3>. HIDE DEF Up
    <3>. QED BY <2>1, <2>2, FS_Subset, FS_CardinalityType
  <2>. HIDE DEF Up
  <2>4. Cardinality(Up) <= MAX_KEYWORDS
    BY <1>1, <2>1, <2>2, <2>3
  <2>. QED BY <2>4 DEF Up
<1>. QED BY <1>3 DEF Room

(* What breaks a rule as its writer meant it breaks it for the code. *)
LEMMA MeantIsChecked ==
    ASSUME Shape, NEW m, m.fits, m.author # Nobody, BreaksRules(m)
    PROVE  Checked(m)
<1>1. config \in Configs /\ s_keywords = Keywords(config.keywords)
  BY DEF Shape
<1>2. CASE \E k \in Meant : k \in SubSeqs(Kept(m.text))
  <2>1. PICK k \in Meant : k \in SubSeqs(Kept(m.text))
    BY <1>2
  <2>2. PICK i \in Fields(config.keywords) :
           k = Ltrim(config.keywords[i]) /\ i <= MAX_KEYWORDS
    BY DEF Meant
  <2>3. i \in Room(config.keywords)
    BY <1>1, <2>2, KeywordsComplete
  <2>4. i \in DOMAIN s_keywords /\ s_keywords[i] = k
    BY <1>1, <2>2, <2>3 DEF Keywords
  <2>5. KeywordMatch(Kept(m.text))
    BY <2>1, <2>4 DEF KeywordMatch
  <2>. QED BY <2>5 DEF Checked, Violates
<1>. QED BY <1>2 DEF BreaksRules, Checked, Violates

LEMMA ArrivedWaits ==
    ASSUME Shape, NEW m \in Message, Arrive(m), Len(messages) < MaxMessages
    PROVE  /\ \A x : Waiting(x) => Waiting(x)'
           /\ \A x : x = Len(messages') => Waiting(x)'
<1>1. /\ inbox \in Seq(1..MaxMessages) /\ inbox' = Append(inbox, Len(messages'))
      /\ Len(messages') \in 1..MaxMessages
  BY Arrived, ModerationAssumption DEF Arrive, Shape
<1>. DEFINE S == 1..MaxMessages
<1>2. inbox \in Seq(S) /\ Len(messages') \in S
  BY <1>1
<1>. HIDE DEF S
<1>3. /\ \A i \in 1..Len(inbox) : inbox'[i] = inbox[i] /\ i \in 1..Len(inbox')
      /\ inbox'[Len(inbox')] = Len(messages')
      /\ Len(inbox') \in 1..Len(inbox')
  BY <1>1, <1>2, Appended
<1>. QED BY <1>3 DEF Waiting

(* The first message is taken, the others wait on. *)
LEMMA ReceivedWaits ==
    ASSUME Shape, inbox # <<>>, inbox' = Tail(inbox), NEW x, Waiting(x)
    PROVE  Waiting(x)' \/ x = Head(inbox)
<1>. DEFINE S == 1..MaxMessages
<1>1. inbox \in Seq(S)
  BY DEF Shape
<1>. HIDE DEF S
<1>2. /\ Len(inbox) \in Nat /\ Len(inbox') = Len(inbox) - 1
      /\ Head(inbox) = inbox[1]
      /\ \A i \in 1..Len(inbox') : inbox'[i] = inbox[i + 1]
  BY <1>1, Tailed
<1>3. PICK i \in 1..Len(inbox) : inbox[i] = x
  BY DEF Waiting
<1>4. CASE i # 1
  <2>1. i - 1 \in 1..Len(inbox') /\ (i - 1) + 1 = i
    BY <1>2, <1>4
  <2>2. inbox'[i - 1] = x
    BY <1>2, <1>3, <2>1
  <2>. QED BY <2>1, <2>2 DEF Waiting
<1>. QED BY <1>2, <1>3, <1>4

(* A deletion that was asked for is in the queue, under way or over,        *)
(* whatever happens next.                                                   *)
LEMMA FiledStays ==
    ASSUME Shape, OrderInv, [Next]_vars, NEW m, Filed(m)
    PROVE  Filed(m)'
<1>. USE DEF settings, arrived, outbox, warnings
<1>q. ASSUME NEW r \in Request, Enqueue(r), UNCHANGED deleted
      PROVE  Filed(m)'
  <2>1. /\ UNCHANGED rest_serving /\ Over \subseteq Over'
        /\ \A i \in 1..Len(rest_queue) :
              rest_queue'[i] = rest_queue[i] /\ i \in 1..Len(rest_queue')
    BY <1>q, Enqueued DEF Over
  <2>2. Queued(m) => Queued(m)'
    BY <2>1 DEF Queued
  <2>. QED BY <2>1, <2>2 DEF Filed, Serves
<1>k. ASSUME UNCHANGED <<deleted, lost, rest_queue, rest_serving>>
      PROVE  Filed(m)'
  BY <1>k DEF Filed, Over, Serves, Queued
<1>1. CASE QueueDelete \/ LogAction
  <2>1. UNCHANGED deleted
    BY <1>1 DEF QueueDelete, LogAction
  <2>2. CASE QueueDelete \/ (LogAction /\ config.log_channel)
    <3>1. PICK r \in Request : Enqueue(r)
      BY <2>2, Asked DEF QueueDelete, LogAction
    <3>. QED BY <1>q, <2>1, <3>1
  <2>3. CASE LogAction /\ ~config.log_channel
    BY <1>k, <2>1, <2>3 DEF LogAction
  <2>. QED BY <1>1, <2>2, <2>3
<1>2. CASE CmdLog
  <2>1. UNCHANGED deleted
    BY <1>2 DEF CmdLog
  <2>2. CASE config.log_channel
    <3>. DEFINE r == [what |-> "warnlog", msg |-> 0, n |-> commands]
    <3>1. r \in Request
      BY ModerationAssumption DEF Request, Shape
    <3>2. Enqueue(r)
      BY <1>2, <2>2, Zenon DEF CmdLog
    <3>. HIDE DEF r
    <3>. QED BY <1>q, <2>1, <3>1, <3>2
  <2>3. CASE ~config.log_channel
    BY <1>2, <1>k, <2>1, <2>3 DEF CmdLog
  <2>. QED BY <2>2, <2>3
<1>3. CASE RestTakes
  <2>1. UNCHANGED <<deleted, lost>> /\ UNCHANGED Over
    BY <1>3 DEF RestTakes, Over
  <2>2. /\ rest_serving = NoRequest /\ rest_serving' = rest_queue[1]
        /\ Len(rest_queue) \in Nat /\ Len(rest_queue') = Len(rest_queue) - 1
        /\ \A i \in 1..Len(rest_queue') : rest_queue'[i] = rest_queue[i + 1]
    BY <1>3, Took DEF RestTakes
  <2>3. ~Serves(m)
    BY <2>2 DEF Serves, NoRequest
  <2>4. CASE Queued(m)
    <3>1. PICK j \in 1..Len(rest_queue) :
             rest_queue[j].what = "delete" /\ rest_queue[j].msg = m
      BY <2>4 DEF Queued
    <3>2. CASE j = 1
      BY <2>2, <3>1, <3>2 DEF Filed, Serves
    <3>3. CASE j # 1
      <4>1. j - 1 \in 1..Len(rest_queue') /\ (j - 1) + 1 = j
        BY <2>2, <3>1, <3>3
      <4>2. rest_queue'[j - 1] = rest_queue[j]
        BY <2>2, <4>1
      <4>. QED BY <3>1, <4>1, <4>2 DEF Filed, Queued
    <3>. QED BY <3>2, <3>3
  <2>. QED BY <2>1, <2>3, <2>4 DEF Filed
<1>4. CASE Applies
  <2>1. UNCHANGED <<lost, rest_queue, rest_serving>> /\ deleted \subseteq deleted'
    BY <1>4, TookEffect, Applied DEF Applies
  <2>. QED BY <2>1 DEF Filed, Over, Serves, Queued
<1>5. CASE RestFinishes
  <2>1. /\ UNCHANGED <<deleted, rest_queue>> /\ Over \subseteq Over'
        /\ \/ \E i \in 1..Len(rest_applied) : rest_applied[i] = rest_serving
           \/ rest_serving.msg \in Over'
    BY <1>5, Finished DEF RestFinishes, Over
  <2>2. rest_serving.what = "delete" => rest_serving.msg \in Over'
    BY <2>1 DEF OrderInv, ServedSorted, Over
  <2>. QED BY <2>1, <2>2 DEF Filed, Serves, Queued
<1>6. CASE Receive \/ CountWarning \/ Beep \/ Tone
  BY <1>k, <1>6 DEF Receive, CountWarning, Beep, Tone
<1>7. ASSUME NEW t \in Talk, UserWrites(t) PROVE Filed(m)'
  BY <1>k, <1>7 DEF UserWrites
<1>8. ASSUME NEW u \in Users, CmdWarn(u) \/ CmdClear(u) PROVE Filed(m)'
  BY <1>k, <1>8 DEF CmdWarn, CmdClear
<1>9. CASE UNCHANGED vars
  BY <1>k, <1>9 DEF vars
<1>. QED BY <1>1, <1>2, <1>3, <1>4, <1>5, <1>6, <1>7, <1>8, <1>9
         DEF Next, WsTask, CmdTask, RestTask

LEMMA PendingInit == Init => PendingInv
<1>. SUFFICES ASSUME Init PROVE Bad = {}
  BY DEF PendingInv
<1>1. messages = <<>> /\ Len(<<>>) = 0
  BY DEF Init
<1>2. Len(messages) = 0
  BY <1>1
<1>. QED BY <1>2 DEF Bad

LEMMA PendingNext ==
    Shape /\ OrderInv /\ PendingInv /\ [Next]_vars => PendingInv'
<1>. SUFFICES ASSUME Shape, OrderInv, PendingInv, [Next]_vars,
                     NEW m \in Bad'
              PROVE  Waiting(m)' \/ ToDelete(m)' \/ Filed(m)'
  BY DEF PendingInv
<1>. USE DEF settings, arrived, outbox, warnings
<1>f. Filed(m) => Filed(m)'
  BY FiledStays
<1>a. ASSUME NEW x \in Message, Arrive(x), Len(messages) < MaxMessages,
             UNCHANGED ws
      PROVE  Waiting(m)' \/ ToDelete(m)' \/ Filed(m)'
  <2>1. /\ \A y : Waiting(y) => Waiting(y)'
        /\ \A y : y = Len(messages') => Waiting(y)'
        /\ Len(messages) \in Nat /\ Len(messages') = Len(messages) + 1
    BY <1>a, Arrived, ArrivedWaits
  <2>2. m \in 1..Len(messages')
    BY DEF Bad
  <2>3. CASE m = Len(messages')
    BY <2>1, <2>3
  <2>4. CASE m \in 1..Len(messages)
    <3>1. m \in Bad
      <4>1. PICK y : y = messages[m]
        OBVIOUS
      <4>2. UNCHANGED settings /\ messages'[m] = y
        BY <2>4, <4>1, MessagesGrow
      <4>3. Checked(messages[m])'
        BY DEF Bad
      <4>4. Checked(y)
        BY <4>2, <4>3 DEF Checked, Violates, MentionSpam, LinkSpam, KeywordMatch
      <4>. QED BY <2>4, <4>1, <4>4 DEF Bad
    <3>2. ToDelete(m) => ToDelete(m)'
      BY <1>a DEF ToDelete
    <3>. QED BY <1>f, <2>1, <3>1, <3>2 DEF PendingInv
  <2>. QED BY <2>1, <2>2, <2>3, <2>4
<1>o. ASSUME UNCHANGED messages
      PROVE  m \in Bad /\ (Waiting(m) \/ ToDelete(m) \/ Filed(m))
  <2>1. UNCHANGED settings
    BY MessagesGrow
  <2>2. m \in Bad
    BY <1>o, <2>1 DEF Bad, Checked, Violates, MentionSpam, LinkSpam, KeywordMatch
  <2>. QED BY <2>2 DEF PendingInv
<1>k. ASSUME UNCHANGED <<messages, inbox>>, ToDelete(m) => UNCHANGED ws
      PROVE  Waiting(m)' \/ ToDelete(m)' \/ Filed(m)'
  BY <1>f, <1>k, <1>o DEF Waiting, ToDelete
<1>1. CASE Receive
  <2>1. /\ ws.pc = "idle" /\ inbox # <<>> /\ inbox' = Tail(inbox)
        /\ UNCHANGED messages
        /\ ws' = IF Checked(messages[Head(inbox)])
                 THEN [pc |-> "delete", msg |-> Head(inbox)] ELSE ws
    BY <1>1 DEF Receive
  <2>2. m \in Bad /\ (Waiting(m) \/ Filed(m))
    BY <1>o, <2>1 DEF ToDelete
  <2>3. CASE Waiting(m)
    <3>1. Waiting(m)' \/ m = Head(inbox)
      BY <2>1, <2>3, ReceivedWaits
    <3>2. CASE m = Head(inbox)
      <4>1. Checked(messages[Head(inbox)])
        BY <2>2, <3>2 DEF Bad
      <4>2. ws'.pc = "delete" /\ ws'.msg = m
        BY <2>1, <3>2, <4>1
      <4>. QED BY <4>2 DEF ToDelete
    <3>. QED BY <3>1, <3>2
  <2>. QED BY <1>f, <2>2, <2>3
<1>2. CASE QueueDelete
  <2>1. PICK r \in Request : Enqueue(r) /\ r.msg = ws.msg /\ r.what = "delete"
    BY <1>2, Asked DEF QueueDelete
  <2>2. UNCHANGED <<messages, inbox, deleted>>
    BY <1>2 DEF QueueDelete
  <2>3. CASE ToDelete(m)
    <3>1. r.msg = m
      BY <2>1, <2>3 DEF ToDelete
    <3>2. \/ /\ Len(rest_queue') \in 1..Len(rest_queue')
             /\ rest_queue'[Len(rest_queue')] = r
          \/ m \in lost'
      BY <2>1, <3>1, Enqueued
    <3>. QED BY <2>1, <3>1, <3>2 DEF Filed, Over, Queued
  <2>. QED BY <1>k, <2>2, <2>3
<1>3. CASE CountWarning \/ LogAction \/ Beep \/ Tone
  <2>1. UNCHANGED <<messages, inbox>> /\ ws.pc # "delete"
    BY <1>3 DEF CountWarning, LogAction, Beep, Tone, Goto
  <2>. QED BY <1>k, <2>1 DEF ToDelete
<1>4. CASE CmdLog \/ RestTakes \/ RestFinishes
  BY <1>k, <1>4 DEF CmdLog, RestTakes, RestFinishes
<1>5. CASE Applies
  <2>1. UNCHANGED ws
    BY <1>5 DEF Applies
  <2>2. CASE UNCHANGED arrived
    BY <1>k, <2>1, <2>2
  <2>3. CASE ~UNCHANGED arrived
    <3>1. PICK x \in Message : Arrive(x) /\ Len(messages) < MaxMessages
      BY <1>5, <2>3, Applied
    <3>. QED BY <1>a, <2>1, <3>1
  <2>. QED BY <2>2, <2>3
<1>6. ASSUME NEW t \in Talk, UserWrites(t)
      PROVE  Waiting(m)' \/ ToDelete(m)' \/ Filed(m)'
  <2>1. /\ UserText(t) \in Message /\ Arrive(UserText(t))
        /\ Len(messages) < MaxMessages /\ UNCHANGED ws
    BY <1>6 DEF Message, UserText, UserWrites
  <2>. QED BY <1>a, <2>1
<1>7. ASSUME NEW u \in Users, CmdWarn(u) \/ CmdClear(u)
      PROVE  Waiting(m)' \/ ToDelete(m)' \/ Filed(m)'
  BY <1>k, <1>7 DEF CmdWarn, CmdClear
<1>8. CASE UNCHANGED vars
  BY <1>k, <1>8 DEF vars
<1>. QED BY <1>1, <1>2, <1>3, <1>4, <1>5, <1>6, <1>7, <1>8
         DEF Next, WsTask, CmdTask, RestTask

(* No message that breaks a rule and reaches the filter (the exceptions of  *)
(* ViolationsAnswered) is forgotten: it waits for the WebSocket task, is in *)
(* its hands, or its deletion is in the queue, under way, done or lost, and *)
(* nothing that users, moderators or the bot's own log messages do in       *)
(* between takes it away, for every number of messages and every depth of   *)
(* the queue (filter_check_message, filter_init, parse_message_create,      *)
(* enqueue_request, rest_task).                                             *)
THEOREM NoViolationIsForgotten == Spec => []NoViolationForgotten
<1>1. Shape /\ PendingInv => NoViolationForgotten
  <2>. SUFFICES ASSUME Shape, PendingInv,
                       NEW m \in 1..Len(messages), messages[m].fits,
                       messages[m].author # Nobody, BreaksRules(messages[m])
                PROVE  Waiting(m) \/ ToDelete(m) \/ Filed(m)
    BY DEF NoViolationForgotten
  <2>1. Checked(messages[m])
    BY MeantIsChecked
  <2>. QED BY <2>1 DEF PendingInv, Bad
<1>. QED
  BY <1>1, ModIsSafe, OrderInit, OrderNext, PendingInit, PendingNext, PTL
  DEF Spec

=============================================================================
