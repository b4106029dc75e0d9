----------------------------- MODULE RestProofs -----------------------------
(***************************************************************************)
(* The safety properties of Rest, for every value of its constants, and    *)
(* that its queue implements Outbox.                                       *)
(***************************************************************************)
EXTENDS Rest, SequenceTheorems, TLAPS

(* A request in do_request() that has not taken effect and still may.       *)
Pending(j) == \/ j.pc \in {"take", "check", "delay", "send"}
              \/ j.pc = "reply" /\ j.reply = "limited"

(* The numbers of the requests that took effect. *)
Taken == {applied[i].n : i \in 1..Len(applied)}
            \cup {synced[i].n : i \in 1..Len(synced)}

(* An executor that is at work has a request of its kind, and so has the    *)
(* queue.                                                                   *)
OfKind(e) == job[e].req \in Requests /\ (job[e].req.queued <=> e = "rest")

JobInv ==
    /\ \A e \in Executors : job[e].pc = "idle" => job[e].req = NoRequest
    /\ \A e \in Executors : job[e].pc # "idle" => OfKind(e)
    /\ \A n \in 1..Len(s_queue) : s_queue[n].queued

(* Every request, by its number, is in one place: in the queue, with one    *)
(* executor, or among those that took effect; with an executor only after   *)
(* that, and not when it may be sent again.                                 *)
PlaceInv ==
    /\ \A n \in 1..Len(s_queue) :
          /\ s_queue[n].n <= issued
          /\ s_queue[n].n \notin Taken
          /\ \A e \in Executors : job[e].req.n # s_queue[n].n
    /\ \A m, n \in 1..Len(s_queue) : s_queue[m].n = s_queue[n].n => m = n
    /\ \A e \in Executors :
          /\ job[e].req.n <= issued
          /\ Pending(job[e]) => job[e].req.n \notin Taken
    /\ \A e, f \in Executors :
          job[e].pc # "idle" /\ job[e].req.n = job[f].req.n => e = f

TakenInv ==
    /\ \A k \in Taken : k <= issued
    /\ \A i, j \in 1..Len(applied) : applied[i].n = applied[j].n => i = j
    /\ \A i, j \in 1..Len(synced) : synced[i].n = synced[j].n => i = j
    /\ \A i \in 1..Len(applied), j \in 1..Len(synced) :
          applied[i].n # synced[j].n
-----------------------------------------------------------------------------
LEMMA TypeInit == Init => TypeOK
<1>. SUFFICES ASSUME Init PROVE TypeOK
  OBVIOUS
<1>1. IdleJob \in Job
  BY DEF IdleJob, Job, Replies
<1>2. s_queue \in Seq(Requests) /\ applied \in Seq(Requests)
      /\ synced \in Seq(Requests) /\ Len(s_queue) = 0
  BY EmptySeq DEF Init
<1>. QED BY <1>1, <1>2, RestAssumption DEF Init, TypeOK

LEMMA QueueFacts ==
    ASSUME TypeOK
    PROVE  /\ s_queue \in Seq(Requests) /\ Len(s_queue) \in Nat
           /\ \A n \in 1..Len(s_queue) : s_queue[n] \in Requests
           /\ s_queue # <<>> =>
                 /\ Len(s_queue) > 0 /\ Head(s_queue) = s_queue[1]
                 /\ Head(s_queue) \in Requests
                 /\ Tail(s_queue) \in Seq(Requests)
                 /\ Len(Tail(s_queue)) = Len(s_queue) - 1
                 /\ \A n \in 1..Len(Tail(s_queue)) :
                       /\ n + 1 \in 1..Len(s_queue)
                       /\ Tail(s_queue)[n] = s_queue[n + 1]
<1>1. s_queue \in Seq(Requests)
  BY DEF TypeOK
<1>. QED BY <1>1, LenProperties, ElementOfSeq, EmptySeq, HeadTailProperties

LEMMA AppendFacts ==
    ASSUME NEW S, NEW q \in Seq(S), NEW x \in S
    PROVE  /\ Append(q, x) \in Seq(S) /\ Len(q) \in Nat
           /\ Len(Append(q, x)) = Len(q) + 1
           /\ \A n \in 1..Len(q) : Append(q, x)[n] = q[n]
           /\ Append(q, x)[Len(q) + 1] = x
BY LenProperties

(* The request that Issue numbers. *)
LEMMA Numbered ==
    ASSUME TypeOK, Issue, NEW auth \in BOOLEAN, NEW q \in BOOLEAN
    PROVE  /\ NewRequest(auth, q) \in Requests
           /\ NewRequest(auth, q).n = issued + 1
           /\ NewRequest(auth, q).queued = q
           /\ issued \in Nat /\ issued' = issued + 1
           /\ issued' \in 0..MaxRequests
BY RestAssumption DEF TypeOK, Issue, NewRequest, Requests

(* A job that is given a new state, alone. *)
LEMMA Update ==
    ASSUME job \in [Executors -> Job], NEW e \in Executors, NEW j \in Job,
           job' = [job EXCEPT ![e] = j]
    PROVE  /\ job' \in [Executors -> Job] /\ job'[e] = j
           /\ \A f \in Executors \ {e} : job'[f] = job[f]
OBVIOUS

(* A job that is sent again. *)
LEMMA RetriedJob ==
    ASSUME NEW k \in Job, NEW a \in 1..2
    PROVE  /\ [k EXCEPT !.pc = "check", !.attempt = a] \in Job
           /\ [k EXCEPT !.pc = "check", !.attempt = a].req = k.req
           /\ [k EXCEPT !.pc = "check", !.attempt = a].pc = "check"
BY DEF Job

Serves(e) == GiveUp(e) \/ CheckLimit(e) \/ DelayOver(e) \/ Send(e)
                \/ HandleReply(e)

(* What a step of do_request() does to the executor that makes it.          *)
LEMMA ServeStep ==
    ASSUME TypeOK, NEW e \in Executors, Serves(e)
    PROVE  /\ job' \in [Executors -> Job]
           /\ \A f \in Executors \ {e} : job'[f] = job[f]
           /\ job'[e].req = job[e].req
           /\ job[e].pc # "idle" /\ job'[e].pc # "idle"
           /\ \/ UNCHANGED effects /\ (Pending(job'[e]) => Pending(job[e]))
              \/ /\ TakesEffect(job[e].req)
                 /\ Pending(job[e]) /\ ~Pending(job'[e])
           /\ UNCHANGED <<s_queue, sem_holder, issued>>
           /\ reset_left' \in Nat /\ bucket_left' \in Nat
<1>. USE DEF Pending
<1>t. /\ job \in [Executors -> Job] /\ job[e] \in Job
      /\ reset_left \in Nat /\ bucket_left \in Nat
  BY DEF TypeOK
<1>1. CASE GiveUp(e)
  <2>. DEFINE j == [job[e] EXCEPT !.pc = "done"]
  <2>1. j \in Job /\ j.req = job[e].req /\ j.pc = "done"
    BY <1>t DEF Job
  <2>2. job' = [job EXCEPT ![e] = j]
    BY <1>1 DEF GiveUp
  <2>. HIDE DEF j
  <2>. QED BY <1>t, <1>1, <2>1, <2>2, Update DEF GiveUp, effects
<1>2. CASE CheckLimit(e)
  <2>. DEFINE j == IF MustWait(e)
                   THEN [job[e] EXCEPT !.pc = "delay",
                                       !.left = reset_left + MARGIN]
                   ELSE [job[e] EXCEPT !.pc = "send"]
  <2>1. reset_left + MARGIN \in Nat
    BY <1>t, RestAssumption
  <2>2. j \in Job /\ j.req = job[e].req /\ j.pc \in {"delay", "send"}
    BY <1>t, <2>1 DEF Job
  <2>3. job' = [job EXCEPT ![e] = j]
    BY <1>2 DEF CheckLimit
  <2>. HIDE DEF j
  <2>. QED BY <1>t, <1>2, <2>2, <2>3, Update DEF CheckLimit, effects
<1>3. CASE DelayOver(e)
  <2>. DEFINE j == [job[e] EXCEPT !.pc = "send"]
  <2>1. j \in Job /\ j.req = job[e].req /\ j.pc = "send"
    BY <1>t DEF Job
  <2>2. job' = [job EXCEPT ![e] = j]
    BY <1>3 DEF DelayOver, Goto
  <2>. HIDE DEF j
  <2>. QED BY <1>t, <1>3, <2>1, <2>2, Update DEF DelayOver, Goto, effects
<1>a. ASSUME NEW st \in Replies, NEW af \in Nat, Answered(e, st, af)
      PROVE  /\ job' \in [Executors -> Job]
             /\ \A f \in Executors \ {e} : job'[f] = job[f]
             /\ job'[e].req = job[e].req /\ job'[e].pc = "reply"
             /\ job'[e].reply = st
  <2>. DEFINE j == [job[e] EXCEPT !.pc = "reply", !.reply = st, !.after = af]
  <2>1. /\ j \in Job /\ j.req = job[e].req /\ j.pc = "reply"
        /\ j.reply = st
    BY <1>t DEF Job
  <2>2. job' = [job EXCEPT ![e] = j]
    BY <1>a DEF Answered
  <2>. HIDE DEF j
  <2>. QED BY <1>t, <2>1, <2>2, Update
<1>4. CASE SendServed(e)
  <2>1. PICK st \in {"ok", "refused"},
             af \in {0} \cup (IF job[e].req.with_auth THEN Delays ELSE {}) :
           /\ Answered(e, st, af)
           /\ IF st = "ok" THEN TakesEffect(job[e].req)
                           ELSE UNCHANGED effects
           /\ bucket_left' = IF job[e].req.with_auth THEN af
                                                     ELSE bucket_left
    BY <1>4 DEF SendServed
  <2>2. st \in Replies /\ af \in Nat
    BY RestAssumption DEF Replies
  <2>3. bucket_left' \in Nat
    BY <1>t, <2>1, <2>2
  <2>. QED BY <1>a, <1>t, <1>4, <2>1, <2>2, <2>3 DEF SendServed
<1>5. CASE SendLimited(e)
  <2>1. "limited" \in Replies
    BY DEF Replies
  <2>. QED BY <1>a, <1>t, <1>5, <2>1 DEF SendLimited
<1>6. CASE SendFails(e)
  <2>1. "error" \in Replies /\ 0 \in Nat
    BY DEF Replies
  <2>2. bucket_left' \in Nat
    BY <1>t, <1>6, RestAssumption DEF SendFails
  <2>3. UNCHANGED effects \/ TakesEffect(job[e].req)
    BY <1>6 DEF SendFails
  <2>. QED BY <1>a, <1>t, <1>6, <2>1, <2>2, <2>3 DEF SendFails
<1>7. CASE HandleReply(e)
  <2>. DEFINE j == IF Retries(e)
                   THEN [job[e] EXCEPT !.pc = "check", !.attempt = 2]
                   ELSE [job[e] EXCEPT !.pc = "done"]
  <2>1. /\ j \in Job /\ j.req = job[e].req
        /\ j.pc = "done" \/ (j.pc = "check" /\ job[e].reply = "limited")
    <3>1. CASE Retries(e)
      <4>1. j = [job[e] EXCEPT !.pc = "check", !.attempt = 2]
        BY <3>1
      <4>2. job[e].reply = "limited"
        BY <3>1 DEF Retries
      <4>. HIDE DEF j
      <4>3. 2 \in 1..2
        OBVIOUS
      <4>. QED BY <1>t, <4>1, <4>2, <4>3, RetriedJob, Zenon
    <3>2. CASE ~Retries(e)
      <4>1. j = [job[e] EXCEPT !.pc = "done"]
        BY <3>2
      <4>. HIDE DEF j
      <4>. QED BY <1>t, <4>1 DEF Job
    <3>. QED BY <3>1, <3>2
  <2>2. job' = [job EXCEPT ![e] = j] /\ job[e].pc = "reply"
    BY <1>7 DEF HandleReply
  <2>3. reset_left' \in Nat
    BY <1>t, <1>7 DEF HandleReply, Job
  <2>. HIDE DEF j
  <2>. QED BY <1>t, <1>7, <2>1, <2>2, <2>3, Update DEF HandleReply, effects
<1>. QED
  BY <1>1, <1>2, <1>3, <1>4, <1>5, <1>6, <1>7 DEF Serves, Send

(* A tick changes nothing of a job but what is left of its delay.           *)
LEMMA TickStep ==
    ASSUME TypeOK, Tick
    PROVE  /\ job' \in [Executors -> Job]
           /\ \A e \in Executors : /\ job'[e].pc = job[e].pc
                                   /\ job'[e].req = job[e].req
                                   /\ job'[e].reply = job[e].reply
           /\ reset_left' \in Nat /\ bucket_left' \in Nat
<1>1. \A t \in Nat : Less(t) \in Nat
  BY DEF Less
<1>2. ASSUME NEW e \in Executors
      PROVE  LET j == [job[e] EXCEPT !.left = Less(@)]
             IN  /\ j \in Job /\ j.pc = job[e].pc /\ j.req = job[e].req
                 /\ j.reply = job[e].reply
  <2>1. job[e] \in Job
    BY DEF TypeOK
  <2>2. Less(job[e].left) \in Nat
    BY <1>1, <2>1 DEF Job
  <2>. QED BY <2>1, <2>2 DEF Job
<1>3. job' = [e \in Executors |-> [job[e] EXCEPT !.left = Less(@)]]
  BY DEF Tick
<1>4. reset_left' \in Nat /\ bucket_left' \in Nat
  BY <1>1 DEF Tick, TypeOK
<1>. QED BY <1>2, <1>3, <1>4

(* What of a job the invariants are about is left as it is.                 *)
LEMMA TakeSemStep ==
    ASSUME TypeOK, NEW c \in SyncCallers, TakeSem(c)
    PROVE  /\ job' \in [Executors -> Job]
           /\ \A f \in Executors \ {c} : job'[f] = job[f]
           /\ job'[c].req = job[c].req
           /\ job[c].pc = "take" /\ job'[c].pc = "check"
<1>. DEFINE j == [job[c] EXCEPT !.pc = "check"]
<1>1. c \in Executors /\ job \in [Executors -> Job] /\ job[c] \in Job
  BY DEF Executors, TypeOK
<1>2. j \in Job /\ j.req = job[c].req /\ j.pc = "check"
  BY <1>1 DEF Job
<1>3. job' = [job EXCEPT ![c] = j] /\ job[c].pc = "take"
  BY DEF TakeSem, Goto
<1>. HIDE DEF j
<1>. QED BY <1>1, <1>2, <1>3, Update

(* The jobs that begin and end: rest_task's, a caller's, and any that is    *)
(* done.                                                                    *)
LEMMA NewJob ==
    ASSUME NEW p \in {"take", "check"}, NEW r \in Requests
    PROVE  /\ [IdleJob EXCEPT !.pc = p, !.req = r] \in Job
           /\ [IdleJob EXCEPT !.pc = p, !.req = r].req = r
           /\ [IdleJob EXCEPT !.pc = p, !.req = r].pc = p
<1>1. IdleJob \in Job
  BY DEF IdleJob, Job, Replies
<1>2. \A k \in Job : /\ [k EXCEPT !.pc = p, !.req = r] \in Job
                    /\ [k EXCEPT !.pc = p, !.req = r].req = r
                    /\ [k EXCEPT !.pc = p, !.req = r].pc = p
  BY DEF Job
<1>. QED BY <1>1, <1>2, Zenon

LEMMA ReceiveStep ==
    ASSUME TypeOK, Receive
    PROVE  /\ job' \in [Executors -> Job]
           /\ \A f \in SyncCallers : job'[f] = job[f]
           /\ job'["rest"].req = Head(s_queue) /\ job'["rest"].pc = "check"
           /\ job["rest"].pc = "idle"
<1>. DEFINE j == [IdleJob EXCEPT !.pc = "check", !.req = Head(s_queue)]
<1>1. "rest" \in Executors /\ job \in [Executors -> Job]
  BY DEF Executors, TypeOK
<1>2. Head(s_queue) \in Requests
  BY QueueFacts DEF Receive
<1>3. j \in Job /\ j.req = Head(s_queue) /\ j.pc = "check"
  BY <1>2, NewJob, Zenon
<1>4. job' = [job EXCEPT !["rest"] = j] /\ job["rest"].pc = "idle"
  BY DEF Receive
<1>. HIDE DEF j
<1>5. SyncCallers \subseteq Executors \ {"rest"}
  BY RestAssumption DEF Executors
<1>. QED BY <1>1, <1>3, <1>4, <1>5, Update

LEMMA CallStep ==
    ASSUME TypeOK, NEW c \in SyncCallers, CallSync(c)
    PROVE  /\ job' \in [Executors -> Job]
           /\ \A f \in Executors \ {c} : job'[f] = job[f]
           /\ job'[c].req = NewRequest(TRUE, FALSE) /\ job'[c].pc = "take"
           /\ job[c].pc = "idle"
<1>. DEFINE j == [IdleJob EXCEPT !.pc = "take", !.req = NewRequest(TRUE, FALSE)]
<1>1. c \in Executors /\ job \in [Executors -> Job]
  BY DEF Executors, TypeOK
<1>2. NewRequest(TRUE, FALSE) \in Requests
  BY Numbered DEF CallSync
<1>3. j \in Job /\ j.req = NewRequest(TRUE, FALSE) /\ j.pc = "take"
  BY <1>2, NewJob, Zenon
<1>4. job' = [job EXCEPT ![c] = j] /\ job[c].pc = "idle"
  BY DEF CallSync
<1>. HIDE DEF j
<1>. QED BY <1>1, <1>3, <1>4, Update

LEMMA FinishStep ==
    ASSUME TypeOK, NEW e \in Executors, Finish(e)
    PROVE  /\ job' \in [Executors -> Job]
           /\ \A f \in Executors \ {e} : job'[f] = job[f]
           /\ job'[e] = IdleJob /\ job[e].pc = "done"
<1>1. IdleJob \in Job /\ job \in [Executors -> Job]
  BY DEF IdleJob, Job, Replies, TypeOK
<1>2. job' = [job EXCEPT ![e] = IdleJob] /\ job[e].pc = "done"
  BY DEF Finish
<1>. QED BY <1>1, <1>2, Update

LEMMA NextCases ==
    Next <=> \/ Enqueue \/ DropOnFull \/ Receive \/ Tick
             \/ \E c \in SyncCallers : CallSync(c) \/ TakeSem(c)
             \/ \E e \in Executors : Serves(e) \/ Finish(e)
BY DEF Next, DoRequest, Serves

-----------------------------------------------------------------------------
LEMMA TypeStep == TypeOK /\ JobInv /\ [Next]_vars => TypeOK' /\ JobInv'
<1>. SUFFICES ASSUME TypeOK, JobInv, [Next]_vars PROVE TypeOK' /\ JobInv'
  OBVIOUS
<1>t. /\ s_queue \in Seq(Requests) /\ Len(s_queue) <= QUEUE_DEPTH
      /\ QUEUE_DEPTH \in Nat
      /\ applied \in Seq(Requests) /\ synced \in Seq(Requests)
      /\ sem_holder \in SyncCallers \cup {"none"}
      /\ reset_left \in Nat /\ bucket_left \in Nat
      /\ issued \in 0..MaxRequests
      /\ job \in [Executors -> Job]
      /\ "rest" \notin SyncCallers /\ Executors = SyncCallers \cup {"rest"}
  BY RestAssumption DEF TypeOK, Executors
<1>i. IdleJob.pc = "idle" /\ IdleJob.req = NoRequest
  BY DEF IdleJob
<1>1. CASE Enqueue
  <2>1. PICK r \in Requests : s_queue' = Append(s_queue, r) /\ r.queued
    BY <1>1, Numbered DEF Enqueue, PutInQueue
  <2>2. issued' \in 0..MaxRequests
    BY <1>1, Numbered DEF Enqueue
  <2>3. /\ s_queue' \in Seq(Requests) /\ Len(s_queue') = Len(s_queue) + 1
        /\ Len(s_queue) \in Nat
        /\ \A n \in 1..Len(s_queue) : s_queue'[n] = s_queue[n]
        /\ s_queue'[Len(s_queue) + 1] = r
    BY <1>t, <2>1, AppendFacts
  <2>4. TypeOK'
    BY <1>1, <1>t, <2>2, <2>3 DEF Enqueue, HasRoom, effects, TypeOK
  <2>5. \A n \in 1..Len(s_queue') : s_queue'[n].queued
    <3>. TAKE n \in 1..Len(s_queue')
    <3>1. n \in 1..Len(s_queue) \/ n = Len(s_queue) + 1
      BY <2>3
    <3>. QED BY <2>1, <2>3, <3>1 DEF JobInv
  <2>6. JobInv'
    BY <1>1, <2>5 DEF Enqueue, JobInv, OfKind
  <2>. QED BY <2>4, <2>6
<1>2. CASE DropOnFull
  <2>1. issued' \in 0..MaxRequests
    BY <1>2, Numbered DEF DropOnFull
  <2>. QED BY <1>2, <2>1 DEF DropOnFull, effects, TypeOK, JobInv, OfKind
<1>3. CASE Receive
  <2>1. /\ s_queue' \in Seq(Requests) /\ Len(s_queue') <= QUEUE_DEPTH
        /\ Head(s_queue) \in Requests
    BY <1>3, <1>t, QueueFacts DEF Receive
  <2>2. TypeOK'
    BY <1>3, <2>1, ReceiveStep DEF Receive, effects, TypeOK
  <2>3. /\ s_queue # <<>> /\ s_queue' = Tail(s_queue)
    BY <1>3 DEF Receive
  <2>4. Head(s_queue).queued
    BY <1>t, <2>3, QueueFacts, LenProperties DEF JobInv
  <2>5. OfKind("rest")'
    BY <1>3, <2>1, <2>4, ReceiveStep DEF OfKind
  <2>6. \A n \in 1..Len(s_queue') : s_queue'[n].queued
    BY <2>3, QueueFacts DEF JobInv
  <2>7. \A e \in SyncCallers : OfKind(e)' <=> OfKind(e)
    BY <1>3, ReceiveStep DEF OfKind
  <2>8. JobInv'
    BY <1>3, <1>t, <2>5, <2>6, <2>7, ReceiveStep DEF JobInv
  <2>. QED BY <2>2, <2>8
<1>4. CASE Tick
  <2>1. TypeOK'
    BY <1>4, TickStep DEF Tick, effects, TypeOK
  <2>2. UNCHANGED s_queue
    BY <1>4 DEF Tick
  <2>3. JobInv'
    BY <1>4, <2>2, TickStep DEF JobInv, OfKind
  <2>. QED BY <2>1, <2>3
<1>5. ASSUME NEW c \in SyncCallers, CallSync(c) PROVE TypeOK' /\ JobInv'
  <2>1. /\ NewRequest(TRUE, FALSE) \in Requests
        /\ ~NewRequest(TRUE, FALSE).queued
        /\ issued' \in 0..MaxRequests
    BY <1>5, Numbered DEF CallSync
  <2>2. TypeOK'
    BY <1>5, <2>1, CallStep DEF CallSync, effects, TypeOK
  <2>3. UNCHANGED s_queue /\ c # "rest" /\ c \in Executors
    BY <1>5, <1>t DEF CallSync
  <2>4. OfKind(c)'
    BY <1>5, <2>1, <2>3, CallStep DEF OfKind
  <2>5. \A f \in Executors \ {c} : job'[f] = job[f] /\ (OfKind(f)' <=> OfKind(f))
    BY <1>5, CallStep DEF OfKind
  <2>6. job'[c].pc # "idle"
    BY <1>5, CallStep
  <2>7. JobInv'
    BY <2>3, <2>4, <2>5, <2>6 DEF JobInv
  <2>. QED BY <2>2, <2>7
<1>6. ASSUME NEW c \in SyncCallers, TakeSem(c) PROVE TypeOK' /\ JobInv'
  <2>1. TypeOK'
    BY <1>6, TakeSemStep DEF TakeSem, effects, TypeOK
  <2>2. UNCHANGED s_queue
    BY <1>6 DEF TakeSem
  <2>3. JobInv'
    <3>1. /\ \A f \in Executors \ {c} : job'[f] = job[f]
          /\ job'[c].req = job[c].req /\ c \in Executors
          /\ job[c].pc # "idle" /\ job'[c].pc # "idle"
      BY <1>6, <1>t, TakeSemStep
    <3>2. \A f \in Executors : OfKind(f)' <=> OfKind(f)
      BY <3>1 DEF OfKind
    <3>. QED BY <2>2, <3>1, <3>2 DEF JobInv
  <2>. QED BY <2>1, <2>3
<1>7. ASSUME NEW e \in Executors, Finish(e) PROVE TypeOK' /\ JobInv'
  <2>1. TypeOK'
    BY <1>7, <1>t, FinishStep DEF Finish, GiveSem, effects, TypeOK
  <2>2. UNCHANGED s_queue
    BY <1>7 DEF Finish
  <2>3. JobInv'
    BY <1>7, <1>t, <1>i, <2>2, FinishStep DEF JobInv, OfKind
  <2>. QED BY <2>1, <2>3
<1>8. ASSUME NEW e \in Executors, Serves(e) PROVE TypeOK' /\ JobInv'
  <2>1. job[e].req \in Requests
    BY <1>8, ServeStep DEF JobInv, OfKind
  <2>2. applied' \in Seq(Requests) /\ synced' \in Seq(Requests)
    <3>1. CASE UNCHANGED effects
      BY <1>t, <3>1 DEF effects
    <3>2. CASE TakesEffect(job[e].req)
      <4>1. /\ Append(applied, job[e].req) \in Seq(Requests)
            /\ Append(synced, job[e].req) \in Seq(Requests)
        BY <1>t, <2>1
      <4>. QED BY <1>t, <3>2, <4>1 DEF TakesEffect
    <3>. QED BY <1>8, <3>1, <3>2, ServeStep
  <2>3. TypeOK'
    BY <1>8, <2>2, ServeStep DEF TypeOK
  <2>4. JobInv'
    BY <1>8, ServeStep DEF JobInv, OfKind
  <2>. QED BY <2>3, <2>4
<1>9. CASE UNCHANGED vars BY <1>9 DEF vars, effects, TypeOK, JobInv, OfKind
<1>. QED
  BY <1>1, <1>2, <1>3, <1>4, <1>5, <1>6, <1>7, <1>8, <1>9, NextCases

(* Every variable keeps its type and the queue its depth, whatever the      *)
(* depth, the callers, the delays and the bound (all of rest.c).            *)
THEOREM TypeCorrect == Spec => []TypeOK
<1>1. Init => JobInv
  BY DEF Init, JobInv, IdleJob
<1>. QED BY TypeInit, TypeStep, <1>1, PTL DEF Spec

-----------------------------------------------------------------------------
(* The numbers are naturals, and 0 is nobody's. *)
LEMMA Numbers ==
    ASSUME TypeOK, JobInv
    PROVE  /\ issued \in Nat
           /\ \A e \in Executors : job[e].req.n \in Nat
           /\ \A e \in Executors : job[e].pc # "idle" => job[e].req.n > 0
           /\ \A n \in 1..Len(s_queue) : s_queue[n].n \in Nat \ {0}
           /\ \A i \in 1..Len(applied) : applied[i].n \in Nat
           /\ \A i \in 1..Len(synced) : synced[i].n \in Nat
           /\ Taken \subseteq Nat
<1>1. \A r \in Requests : r.n \in Nat \ {0}
  BY RestAssumption DEF Requests
<1>2. NoRequest.n = 0
  BY DEF NoRequest
<1>3. /\ \A i \in 1..Len(applied) : applied[i] \in Requests
      /\ \A i \in 1..Len(synced) : synced[i] \in Requests
      /\ \A n \in 1..Len(s_queue) : s_queue[n] \in Requests
  BY ElementOfSeq DEF TypeOK
<1>4. Taken \subseteq Nat
  BY <1>1, <1>3 DEF Taken
<1>5. ASSUME NEW e \in Executors
      PROVE  job[e].req.n \in Nat /\ (job[e].pc # "idle" => job[e].req.n > 0)
  <2>1. job[e].pc = "idle" => job[e].req = NoRequest
    BY DEF JobInv
  <2>2. job[e].pc # "idle" => job[e].req \in Requests
    BY DEF JobInv, OfKind
  <2>. QED BY <1>1, <1>2, <2>1, <2>2
<1>6. issued \in Nat
  BY DEF TypeOK
<1>. QED BY <1>1, <1>3, <1>4, <1>5, <1>6

(* A step that moves no request keeps the places, if what is pending was.   *)
LEMMA PlaceKept ==
    ASSUME TypeOK, JobInv, PlaceInv, UNCHANGED <<s_queue, effects>>,
           issued' = issued \/ issued' = issued + 1,
           \A e \in Executors : /\ job'[e].req = job[e].req
                                /\ job'[e].pc # "idle" => job[e].pc # "idle"
                                /\ Pending(job'[e]) => Pending(job[e])
    PROVE  PlaceInv'
<1>1. Taken' = Taken
  BY DEF Taken, effects
<1>2. issued \in Nat /\ issued' \in Nat /\ issued <= issued'
  BY Numbers
<1>3. \A k \in Nat : k <= issued => k <= issued'
  BY <1>2
<1>. QED BY <1>1, <1>2, <1>3, Numbers DEF PlaceInv

LEMMA TakenKept ==
    ASSUME TypeOK, JobInv, TakenInv, UNCHANGED effects,
           issued' = issued \/ issued' = issued + 1
    PROVE  TakenInv'
<1>1. Taken' = Taken
  BY DEF Taken, effects
<1>2. \A k \in Taken : k <= issued'
  BY Numbers DEF TakenInv
<1>. QED BY <1>1, <1>2 DEF TakenInv, effects

(* A new number is nobody's. *)
LEMMA FreshNumber ==
    ASSUME TypeOK, JobInv, PlaceInv, TakenInv
    PROVE  /\ \A n \in 1..Len(s_queue) : s_queue[n].n # issued + 1
           /\ \A e \in Executors : job[e].req.n # issued + 1
           /\ issued + 1 \notin Taken
BY Numbers DEF PlaceInv, TakenInv

LEMMA EnqueuePlace ==
    ASSUME TypeOK, JobInv, PlaceInv, TakenInv, Enqueue
    PROVE  PlaceInv'
<1>1. PICK r \in Requests : s_queue' = Append(s_queue, r) /\ r.n = issued + 1
  BY Numbered DEF Enqueue, PutInQueue
<1>2. /\ Len(s_queue') = Len(s_queue) + 1 /\ Len(s_queue) \in Nat
      /\ \A n \in 1..Len(s_queue) : s_queue'[n] = s_queue[n]
      /\ s_queue'[Len(s_queue) + 1] = r
  BY <1>1, AppendFacts DEF TypeOK
<1>3. \A n \in 1..Len(s_queue') : n \in 1..Len(s_queue) \/ n = Len(s_queue) + 1
  BY <1>2
<1>4. /\ Taken' = Taken /\ job' = job /\ issued' = issued + 1
      /\ issued \in Nat
  BY Numbers DEF Enqueue, Issue, Taken, effects
<1>5. ASSUME NEW n \in 1..Len(s_queue')
      PROVE  /\ s_queue'[n].n <= issued' /\ s_queue'[n].n \notin Taken
             /\ \A e \in Executors : job[e].req.n # s_queue'[n].n
  <2>1. CASE n \in 1..Len(s_queue)
    <3>1. s_queue[n].n \in Nat /\ s_queue[n].n <= issued
      BY <2>1, Numbers DEF PlaceInv
    <3>2. s_queue[n].n <= issued'
      BY <1>4, <3>1
    <3>. QED BY <1>2, <2>1, <3>2 DEF PlaceInv
  <2>2. CASE n = Len(s_queue) + 1
    BY <1>1, <1>2, <1>4, <2>2, FreshNumber
  <2>. QED BY <1>3, <2>1, <2>2
<1>6. \A m, n \in 1..Len(s_queue') : s_queue'[m].n = s_queue'[n].n => m = n
  BY <1>1, <1>2, <1>3, FreshNumber DEF PlaceInv
<1>7. \A e \in Executors : job[e].req.n <= issued'
  BY <1>4, Numbers DEF PlaceInv
<1>. QED BY <1>4, <1>5, <1>6, <1>7 DEF PlaceInv

LEMMA ReceivePlace ==
    ASSUME TypeOK, JobInv, PlaceInv, Receive
    PROVE  PlaceInv'
<1>1. /\ s_queue # <<>> /\ s_queue' = Tail(s_queue)
      /\ Taken' = Taken /\ issued' = issued
  BY DEF Receive, Taken, effects
<1>2. /\ 1 \in 1..Len(s_queue) /\ job'["rest"].req = s_queue[1]
      /\ job'["rest"].pc = "check"
      /\ \A f \in SyncCallers : job'[f] = job[f]
      /\ Executors = SyncCallers \cup {"rest"}
  BY <1>1, QueueFacts, ReceiveStep DEF Executors
<1>3. \A n \in 1..Len(s_queue') :
         /\ n + 1 \in 1..Len(s_queue) /\ n + 1 # 1
         /\ s_queue'[n] = s_queue[n + 1]
  BY <1>1, QueueFacts
<1>4. ASSUME NEW n \in 1..Len(s_queue')
      PROVE  /\ s_queue'[n].n <= issued /\ s_queue'[n].n \notin Taken
             /\ \A e \in Executors : job'[e].req.n # s_queue'[n].n
  <2>1. s_queue[1].n # s_queue'[n].n
    BY <1>2, <1>3 DEF PlaceInv
  <2>. QED BY <1>2, <1>3, <2>1 DEF PlaceInv
<1>5. \A m, n \in 1..Len(s_queue') : s_queue'[m].n = s_queue'[n].n => m = n
  <2>. TAKE m, n \in 1..Len(s_queue')
  <2>. HAVE s_queue'[m].n = s_queue'[n].n
  <2>1. PICK k, l \in 1..Len(s_queue) : k = m + 1 /\ l = n + 1
    BY <1>3
  <2>2. s_queue[k].n = s_queue[l].n
    BY <1>3, <2>1
  <2>3. k = l
    BY <2>2 DEF PlaceInv
  <2>. QED BY <2>1, <2>3
<1>6. \A e \in Executors :
         /\ job'[e].req.n <= issued
         /\ Pending(job'[e]) => job'[e].req.n \notin Taken
  BY <1>2 DEF PlaceInv
<1>7. \A e, f \in Executors :
         job'[e].pc # "idle" /\ job'[e].req.n = job'[f].req.n => e = f
  BY <1>2 DEF PlaceInv
<1>. QED BY <1>1, <1>4, <1>5, <1>6, <1>7 DEF PlaceInv

LEMMA CallPlace ==
    ASSUME TypeOK, JobInv, PlaceInv, TakenInv, NEW c \in SyncCallers,
           CallSync(c)
    PROVE  PlaceInv'
<1>1. /\ UNCHANGED s_queue /\ Taken' = Taken
      /\ issued \in Nat /\ issued' = issued + 1 /\ c \in Executors
  BY Numbers DEF CallSync, Issue, Taken, effects, Executors
<1>2. /\ job'[c].req.n = issued + 1
      /\ \A f \in Executors \ {c} : job'[f] = job[f]
  BY CallStep, Numbered DEF CallSync
<1>3. \A e \in Executors : job'[e].req.n <= issued'
  BY <1>1, <1>2, Numbers DEF PlaceInv
<1>4. \A n \in 1..Len(s_queue) : s_queue[n].n <= issued'
  BY <1>1, Numbers DEF PlaceInv
<1>5. /\ \A n \in 1..Len(s_queue), e \in Executors :
            job'[e].req.n # s_queue[n].n
      /\ \A e \in Executors : Pending(job'[e]) => job'[e].req.n \notin Taken
      /\ \A e, f \in Executors :
            job'[e].pc # "idle" /\ job'[e].req.n = job'[f].req.n => e = f
  BY <1>1, <1>2, FreshNumber DEF PlaceInv
<1>. QED BY <1>1, <1>3, <1>4, <1>5 DEF PlaceInv

LEMMA FinishPlace ==
    ASSUME TypeOK, JobInv, PlaceInv, NEW e \in Executors, Finish(e)
    PROVE  PlaceInv'
<1>1. /\ UNCHANGED <<s_queue, issued>> /\ Taken' = Taken
  BY DEF Finish, Taken, effects
<1>2. /\ job'[e].req.n = 0 /\ job'[e].pc = "idle" /\ ~Pending(job'[e])
      /\ \A f \in Executors \ {e} : job'[f] = job[f]
  BY FinishStep DEF IdleJob, NoRequest, Pending
<1>. QED BY <1>1, <1>2, Numbers DEF PlaceInv

(* The numbers of requests, and that they are different. *)
NumbersOf(q) == {q[i].n : i \in 1..Len(q)}
Distinct(q)  == \A i, j \in 1..Len(q) : q[i].n = q[j].n => i = j

(* One more request that takes effect is one that had not. *)
LEMMA OneMore ==
    ASSUME NEW q \in Seq(Requests), NEW r \in Requests, NEW p,
           r.n \notin NumbersOf(q), Distinct(q), p = Append(q, r)
    PROVE  Distinct(p) /\ NumbersOf(p) = NumbersOf(q) \cup {r.n}
<1>1. /\ Len(p) = Len(q) + 1 /\ Len(q) \in Nat
      /\ \A i \in 1..Len(q) : p[i] = q[i]
      /\ p[Len(q) + 1] = r
  BY AppendFacts
<1>2. \A i \in 1..Len(p) : i \in 1..Len(q) \/ i = Len(q) + 1
  BY <1>1
<1>3. \A i \in 1..Len(q) : q[i].n # r.n
  BY DEF NumbersOf
<1>4. Distinct(p)
  BY <1>1, <1>2, <1>3 DEF Distinct
<1>5. NumbersOf(p) \subseteq NumbersOf(q) \cup {r.n}
  BY <1>1, <1>2 DEF NumbersOf
<1>6. 1..Len(q) \subseteq 1..Len(p) /\ Len(q) + 1 \in 1..Len(p)
  BY <1>1
<1>7. NumbersOf(q) \cup {r.n} \subseteq NumbersOf(p)
  BY <1>1, <1>6 DEF NumbersOf
<1>. QED BY <1>4, <1>5, <1>7

LEMMA EffectTaken ==
    ASSUME TypeOK, JobInv, PlaceInv, TakenInv, NEW e \in Executors,
           job[e].pc # "idle", Pending(job[e]), TakesEffect(job[e].req)
    PROVE  /\ Taken' = Taken \cup {job[e].req.n}
           /\ issued' = issued => TakenInv'
<1>. DEFINE r == job[e].req
<1>1. /\ applied \in Seq(Requests) /\ synced \in Seq(Requests)
      /\ r \in Requests /\ r.n \notin Taken /\ r.n <= issued
  BY DEF TypeOK, JobInv, OfKind, PlaceInv
<1>2. /\ \A i \in 1..Len(applied) : applied[i].n # r.n
      /\ \A i \in 1..Len(synced) : synced[i].n # r.n
  BY <1>1 DEF Taken
<1>3. CASE r.queued
  <2>1. applied' = Append(applied, r) /\ synced' = synced
    BY <1>3 DEF TakesEffect
  <2>2. /\ \A i, j \in 1..Len(applied') : applied'[i].n = applied'[j].n => i = j
        /\ {applied'[i].n : i \in 1..Len(applied')}
              = {applied[i].n : i \in 1..Len(applied)} \cup {r.n}
    <3>1. r.n \notin NumbersOf(applied) /\ Distinct(applied)
      BY <1>2 DEF TakenInv, NumbersOf, Distinct
    <3>2. PICK x \in Requests : x = r
      BY <1>1
    <3>3. PICK p : p = applied'
      OBVIOUS
    <3>4. /\ applied \in Seq(Requests) /\ p = Append(applied, x)
          /\ x.n \notin NumbersOf(applied) /\ Distinct(applied)
      BY <1>1, <2>1, <3>1, <3>2, <3>3
    <3>5. Distinct(p) /\ NumbersOf(p) = NumbersOf(applied) \cup {x.n}
      BY <3>4, OneMore, Zenon
    <3>. QED BY <3>2, <3>3, <3>5 DEF NumbersOf, Distinct
  <2>3. Taken' = Taken \cup {r.n}
    BY <2>1, <2>2 DEF Taken
  <2>4. \A i \in 1..Len(applied'), j \in 1..Len(synced) :
           applied'[i].n # synced[j].n
    <3>. TAKE i \in 1..Len(applied'), j \in 1..Len(synced)
    <3>1. applied'[i].n \in {applied[k].n : k \in 1..Len(applied)} \cup {r.n}
      BY <2>2
    <3>. QED BY <1>2, <3>1 DEF TakenInv
  <2>5. issued' = issued => \A k \in Taken' : k <= issued'
    BY <1>1, <2>3 DEF TakenInv
  <2>. QED BY <2>1, <2>2, <2>3, <2>4, <2>5 DEF TakenInv
<1>4. CASE ~r.queued
  <2>1. synced' = Append(synced, r) /\ applied' = applied
    BY <1>4 DEF TakesEffect
  <2>2. /\ \A i, j \in 1..Len(synced') : synced'[i].n = synced'[j].n => i = j
        /\ {synced'[i].n : i \in 1..Len(synced')}
              = {synced[i].n : i \in 1..Len(synced)} \cup {r.n}
    <3>1. r.n \notin NumbersOf(synced) /\ Distinct(synced)
      BY <1>2 DEF TakenInv, NumbersOf, Distinct
    <3>2. PICK x \in Requests : x = r
      BY <1>1
    <3>3. PICK p : p = synced'
      OBVIOUS
    <3>4. /\ synced \in Seq(Requests) /\ p = Append(synced, x)
          /\ x.n \notin NumbersOf(synced) /\ Distinct(synced)
      BY <1>1, <2>1, <3>1, <3>2, <3>3
    <3>5. Distinct(p) /\ NumbersOf(p) = NumbersOf(synced) \cup {x.n}
      BY <3>4, OneMore, Zenon
    <3>. QED BY <3>2, <3>3, <3>5 DEF NumbersOf, Distinct
  <2>3. Taken' = Taken \cup {r.n}
    BY <2>1, <2>2 DEF Taken
  <2>4. \A i \in 1..Len(applied), j \in 1..Len(synced') :
           applied[i].n # synced'[j].n
    <3>. TAKE i \in 1..Len(applied), j \in 1..Len(synced')
    <3>1. synced'[j].n \in {synced[k].n : k \in 1..Len(synced)} \cup {r.n}
      BY <2>2
    <3>. QED BY <1>2, <3>1 DEF TakenInv
  <2>5. issued' = issued => \A k \in Taken' : k <= issued'
    BY <1>1, <2>3 DEF TakenInv
  <2>. QED BY <2>1, <2>2, <2>3, <2>4, <2>5 DEF TakenInv
<1>. QED BY <1>3, <1>4

LEMMA ServePlace ==
    ASSUME TypeOK, JobInv, PlaceInv, TakenInv, NEW e \in Executors, Serves(e)
    PROVE  PlaceInv' /\ TakenInv'
<1>1. /\ \A f \in Executors \ {e} : job'[f] = job[f]
      /\ job'[e].req = job[e].req
      /\ job[e].pc # "idle" /\ job'[e].pc # "idle"
      /\ UNCHANGED <<s_queue, issued>>
  BY ServeStep
<1>2. CASE UNCHANGED effects /\ (Pending(job'[e]) => Pending(job[e]))
  BY <1>1, <1>2, PlaceKept, TakenKept
<1>3. CASE TakesEffect(job[e].req) /\ Pending(job[e]) /\ ~Pending(job'[e])
  <2>1. Taken' = Taken \cup {job[e].req.n} /\ TakenInv'
    BY <1>1, <1>3, EffectTaken
  <2>2. \A n \in 1..Len(s_queue) : s_queue[n].n \notin Taken'
    BY <2>1 DEF PlaceInv
  <2>3. \A f \in Executors : Pending(job'[f]) => job'[f].req.n \notin Taken'
    <3>. SUFFICES ASSUME NEW f \in Executors, Pending(job'[f])
                  PROVE  job'[f].req.n \notin Taken'
      OBVIOUS
    <3>1. f # e /\ job'[f] = job[f]
      BY <1>1, <1>3
    <3>2. job[f].req.n # job[e].req.n
      BY <1>1, <3>1 DEF PlaceInv
    <3>. QED BY <2>1, <3>1, <3>2 DEF PlaceInv
  <2>4. \A f \in Executors :
           /\ job'[f].req = job[f].req
           /\ job'[f].pc # "idle" => job[f].pc # "idle"
    BY <1>1
  <2>5. PlaceInv'
    BY <1>1, <2>2, <2>3, <2>4 DEF PlaceInv
  <2>. QED BY <2>1, <2>5
<1>. QED BY <1>2, <1>3, ServeStep

LEMMA PlaceStep ==
    TypeOK /\ JobInv /\ PlaceInv /\ TakenInv /\ [Next]_vars
       => PlaceInv' /\ TakenInv'
<1>. SUFFICES ASSUME TypeOK, JobInv, PlaceInv, TakenInv, [Next]_vars
              PROVE  PlaceInv' /\ TakenInv'
  OBVIOUS
<1>1. CASE Enqueue
  BY <1>1, EnqueuePlace, TakenKept DEF Enqueue, Issue, effects
<1>2. CASE DropOnFull
  BY <1>2, PlaceKept, TakenKept DEF DropOnFull, Issue, effects
<1>3. CASE Receive
  BY <1>3, ReceivePlace, TakenKept DEF Receive, effects
<1>4. CASE Tick
  <2>1. UNCHANGED <<s_queue, effects, issued>>
    BY <1>4 DEF Tick, effects
  <2>2. \A e \in Executors : /\ job'[e].req = job[e].req
                             /\ job'[e].pc # "idle" => job[e].pc # "idle"
                             /\ Pending(job'[e]) => Pending(job[e])
    BY <1>4, TickStep DEF Pending
  <2>. QED BY <2>1, <2>2, PlaceKept, TakenKept
<1>5. ASSUME NEW c \in SyncCallers, CallSync(c) PROVE PlaceInv' /\ TakenInv'
  BY <1>5, CallPlace, TakenKept DEF CallSync, Issue, effects
<1>6. ASSUME NEW c \in SyncCallers, TakeSem(c) PROVE PlaceInv' /\ TakenInv'
  <2>1. UNCHANGED <<s_queue, effects, issued>>
    BY <1>6 DEF TakeSem, effects
  <2>2. \A e \in Executors : /\ job'[e].req = job[e].req
                             /\ job'[e].pc # "idle" => job[e].pc # "idle"
                             /\ Pending(job'[e]) => Pending(job[e])
    BY <1>6, TakeSemStep DEF Pending
  <2>. QED BY <2>1, <2>2, PlaceKept, TakenKept
<1>7. ASSUME NEW e \in Executors, Finish(e) PROVE PlaceInv' /\ TakenInv'
  BY <1>7, FinishPlace, TakenKept DEF Finish, effects
<1>8. ASSUME NEW e \in Executors, Serves(e) PROVE PlaceInv' /\ TakenInv'
  BY <1>8, ServePlace
<1>9. CASE UNCHANGED vars
  BY <1>9, PlaceKept, TakenKept DEF vars
<1>. QED
  BY <1>1, <1>2, <1>3, <1>4, <1>5, <1>6, <1>7, <1>8, <1>9, NextCases

LEMMA PlaceInit == Init => JobInv /\ PlaceInv /\ TakenInv
<1>. SUFFICES ASSUME Init PROVE JobInv /\ PlaceInv /\ TakenInv
  OBVIOUS
<1>1. \A e \in Executors : job[e].pc = "idle" /\ job[e].req = NoRequest
  BY DEF Init, IdleJob
<1>2. /\ Len(s_queue) = 0 /\ Len(applied) = 0 /\ Len(synced) = 0
      /\ issued = 0 /\ 1..0 = {} /\ NoRequest.n = 0
  BY DEF Init, NoRequest
<1>3. Taken = {}
  BY <1>2 DEF Taken
<1>. QED BY <1>1, <1>2, <1>3 DEF JobInv, PlaceInv, TakenInv, Pending

(* No request takes effect twice, whatever is retried, fails or is never    *)
(* answered: do_request() sends again only what Discord refused with a 429, *)
(* and every request is in one place (the retry in do_request, rest_task,   *)
(* rest_put_sync).                                                          *)
THEOREM EffectiveOnce == Spec => []AtMostOnce
<1>1. TypeOK /\ TakenInv => AtMostOnce
  <2>. SUFFICES ASSUME TypeOK, TakenInv PROVE AtMostOnce
    OBVIOUS
  <2>. DEFINE all == applied \o synced
  <2>1. /\ applied \in Seq(Requests) /\ synced \in Seq(Requests)
        /\ Len(applied) \in Nat /\ Len(synced) \in Nat
    BY LenProperties DEF TypeOK
  <2>2. /\ all \in Seq(Requests) /\ Len(all) = Len(applied) + Len(synced)
        /\ \A i \in 1..Len(applied) + Len(synced) :
              all[i] = IF i <= Len(applied) THEN applied[i]
                                            ELSE synced[i - Len(applied)]
    BY <2>1, ConcatProperties
  <2>3. DOMAIN all = 1..Len(applied) + Len(synced)
    BY <2>2, LenProperties
  <2>. HIDE DEF all
  <2>4. \A i, j \in DOMAIN all : all[i].n = all[j].n => i = j
    <3>. SUFFICES ASSUME NEW i \in DOMAIN all, NEW j \in DOMAIN all,
                         all[i].n = all[j].n
                  PROVE  i = j
      OBVIOUS
    <3>1. CASE i <= Len(applied) /\ j <= Len(applied)
      BY <2>1, <2>2, <2>3, <3>1 DEF TakenInv
    <3>2. CASE i <= Len(applied) /\ ~(j <= Len(applied))
      <4>1. j - Len(applied) \in 1..Len(synced) /\ i \in 1..Len(applied)
        BY <2>1, <2>3, <3>2
      <4>. QED BY <2>2, <2>3, <3>2, <4>1 DEF TakenInv
    <3>3. CASE ~(i <= Len(applied)) /\ j <= Len(applied)
      <4>1. i - Len(applied) \in 1..Len(synced) /\ j \in 1..Len(applied)
        BY <2>1, <2>3, <3>3
      <4>. QED BY <2>2, <2>3, <3>3, <4>1 DEF TakenInv
    <3>4. CASE ~(i <= Len(applied)) /\ ~(j <= Len(applied))
      <4>1. /\ i - Len(applied) \in 1..Len(synced)
            /\ j - Len(applied) \in 1..Len(synced)
        BY <2>1, <2>3, <3>4
      <4>2. i - Len(applied) = j - Len(applied)
        BY <2>2, <2>3, <3>4, <4>1 DEF TakenInv
      <4>. QED BY <2>1, <2>3, <4>2
    <3>. QED BY <3>1, <3>2, <3>3, <3>4
  <2>. QED BY <2>4 DEF AtMostOnce, all
<1>. QED BY TypeInit, PlaceInit, TypeStep, PlaceStep, <1>1, PTL DEF Spec

-----------------------------------------------------------------------------
LEMMA BoxInit == Init => Box!Init
BY DEF Init, Box!Init, IdleJob, Executors

LEMMA BoxStep ==
    TypeOK /\ JobInv /\ PlaceInv /\ [Next]_vars
       => [Box!Next]_<<s_queue, job["rest"].req, applied>>
<1>. SUFFICES ASSUME TypeOK, JobInv, PlaceInv, [Next]_vars
              PROVE  \/ Box!Next
                     \/ UNCHANGED <<s_queue, job["rest"].req, applied>>
  OBVIOUS
<1>r. "rest" \in Executors /\ SyncCallers \subseteq Executors \ {"rest"}
  BY RestAssumption DEF Executors
<1>n. NoRequest \notin Requests
  BY DEF NoRequest, Requests
<1>1. CASE Enqueue
  <2>1. PICK r \in Requests : s_queue' = Append(s_queue, r)
    BY <1>1, Numbered DEF Enqueue, PutInQueue
  <2>2. Box!Accept(r)
    BY <1>1, <2>1 DEF Enqueue, HasRoom, Box!Accept, effects
  <2>. QED BY <2>2 DEF Box!Next
<1>2. CASE DropOnFull
  BY <1>2 DEF DropOnFull, effects
<1>3. CASE Receive
  <2>1. Box!Take
    BY <1>3, <1>r, ReceiveStep DEF Receive, Box!Take, JobInv, effects
  <2>. QED BY <2>1 DEF Box!Next
<1>4. CASE Tick
  BY <1>4, <1>r, TickStep DEF Tick, effects
<1>5. ASSUME NEW c \in SyncCallers, CallSync(c)
      PROVE  UNCHANGED <<s_queue, job["rest"].req, applied>>
  BY <1>5, <1>r, CallStep DEF CallSync, effects
<1>6. ASSUME NEW c \in SyncCallers, TakeSem(c)
      PROVE  UNCHANGED <<s_queue, job["rest"].req, applied>>
  BY <1>6, <1>r, TakeSemStep DEF TakeSem, effects
<1>7. ASSUME NEW e \in Executors, Finish(e)
      PROVE  \/ Box!Next
             \/ UNCHANGED <<s_queue, job["rest"].req, applied>>
  <2>1. UNCHANGED <<s_queue, applied>>
    BY <1>7 DEF Finish, effects
  <2>2. CASE e = "rest"
    <3>1. job["rest"].req # NoRequest /\ job'["rest"].req = NoRequest
      BY <1>7, <1>n, <2>2, FinishStep DEF JobInv, OfKind, IdleJob
    <3>2. Box!Finish
      BY <2>1, <3>1 DEF Box!Finish
    <3>. QED BY <3>2 DEF Box!Next
  <2>3. CASE e # "rest"
    BY <1>7, <1>r, <2>1, <2>3, FinishStep
  <2>. QED BY <2>2, <2>3
<1>8. ASSUME NEW e \in Executors, Serves(e)
      PROVE  \/ Box!Next
             \/ UNCHANGED <<s_queue, job["rest"].req, applied>>
  <2>1. UNCHANGED s_queue /\ job'["rest"].req = job["rest"].req
    BY <1>8, <1>r, ServeStep
  <2>2. CASE UNCHANGED effects
    BY <2>1, <2>2 DEF effects
  <2>3. CASE TakesEffect(job[e].req) /\ Pending(job[e])
    <3>1. job[e].req \in Requests /\ (job[e].req.queued <=> e = "rest")
      BY <1>8, ServeStep DEF JobInv, OfKind
    <3>2. CASE e = "rest"
      <4>1. applied' = Append(applied, job["rest"].req)
        BY <2>3, <3>1, <3>2 DEF TakesEffect
      <4>2. \A i \in DOMAIN applied : applied[i] # job["rest"].req
        <5>1. DOMAIN applied = 1..Len(applied)
          BY LenProperties DEF TypeOK
        <5>. QED BY <2>3, <3>2, <5>1 DEF PlaceInv, Taken
      <4>3. Box!TakesEffect
        BY <1>n, <2>1, <3>1, <3>2, <4>1, <4>2 DEF Box!TakesEffect
      <4>. QED BY <4>3 DEF Box!Next
    <3>3. CASE e # "rest"
      BY <2>1, <2>3, <3>1, <3>3 DEF TakesEffect
    <3>. QED BY <3>2, <3>3
  <2>. QED BY <1>8, <2>2, <2>3, ServeStep
<1>9. CASE UNCHANGED vars
  BY <1>9 DEF vars, effects
<1>. QED
  BY <1>1, <1>2, <1>3, <1>4, <1>5, <1>6, <1>7, <1>8, <1>9, NextCases

(* The queued requests behave as an Outbox: taken in the order they were    *)
(* accepted, one at a time, each effective once at most, whatever the       *)
(* synchronous callers do (enqueue, rest_task, do_request).                 *)
THEOREM QueueIsOutbox == Spec => ImplementsOutbox
BY TypeInit, PlaceInit, TypeStep, PlaceStep, BoxInit, BoxStep, PTL
DEF Spec, ImplementsOutbox, Box!Spec

-----------------------------------------------------------------------------
(* What a call has before it: its places in do_request(), those of its      *)
(* retry included.                                                          *)
PlacesLeft == [take |-> 6, check |-> 5, delay |-> 4, send |-> 3, reply |-> 2,
               done |-> 1, idle |-> 0]

Ahead(j) == PlacesLeft[j.pc]
               + (IF j.attempt = 1 /\ j.pc \notin {"done", "idle"} THEN 4 ELSE 0)

LEMMA AheadIs ==
    ASSUME NEW j \in Job
    PROVE  /\ Ahead(j) \in 0..10
           /\ j.attempt \in 1..2
           /\ j.pc = "idle"  => Ahead(j) = 0
           /\ j.pc = "done"  => Ahead(j) = 1
           /\ j.attempt = 1 => /\ j.pc = "reply" => Ahead(j) = 6
                               /\ j.pc = "send"  => Ahead(j) = 7
                               /\ j.pc = "delay" => Ahead(j) = 8
                               /\ j.pc = "check" => Ahead(j) = 9
                               /\ j.pc = "take"  => Ahead(j) = 10
           /\ j.attempt = 2 => /\ j.pc = "reply" => Ahead(j) = 2
                               /\ j.pc = "send"  => Ahead(j) = 3
                               /\ j.pc = "delay" => Ahead(j) = 4
                               /\ j.pc = "check" => Ahead(j) = 5
                               /\ j.pc = "take"  => Ahead(j) = 6
<1>. USE DEF Ahead, PlacesLeft
<1>1. /\ j.attempt \in 1..2
      /\ j.pc \in {"idle", "take", "check", "delay", "send", "reply", "done"}
  BY DEF Job
<1>. QED BY <1>1

(* A step of do_request() leads on: from send to reply, and back to check   *)
(* only from the first attempt to the second.                               *)
LEMMA ServeLeadsOn ==
    ASSUME TypeOK, NEW e \in Executors, Serves(e)
    PROVE  /\ job[e].pc \notin {"idle", "take"}
           /\ job'[e].pc \notin {"idle", "take"}
           /\ Ahead(job'[e]) < Ahead(job[e])
<1>. DEFINE OnTo(pc) ==
        /\ job'[e].pc = pc /\ job'[e].attempt = job[e].attempt
<1>t. /\ job \in [Executors -> Job] /\ job[e] \in Job
      /\ DOMAIN job[e] = {"pc", "req", "attempt", "left", "reply", "after"}
      /\ job'[e] \in Job /\ job[e].attempt \in 1..2
  BY ServeStep DEF TypeOK, Job
<1>1. CASE GiveUp(e)
  <2>1. OnTo("done") /\ job[e].pc \in {"check", "send"}
    BY <1>1, <1>t DEF GiveUp
  <2>. QED BY <1>t, <2>1, AheadIs
<1>2. CASE CheckLimit(e)
  <2>1. (OnTo("delay") \/ OnTo("send")) /\ job[e].pc = "check"
    BY <1>2, <1>t DEF CheckLimit
  <2>. QED BY <1>t, <2>1, AheadIs
<1>3. CASE DelayOver(e)
  <2>1. OnTo("send") /\ job[e].pc = "delay"
    BY <1>3, <1>t DEF DelayOver, Goto
  <2>. QED BY <1>t, <2>1, AheadIs
<1>4. CASE Send(e)
  <2>1. job[e].pc = "send" /\ \E st, af : Answered(e, st, af)
    BY <1>4 DEF Send, SendServed, SendLimited, SendFails
  <2>2. OnTo("reply")
    BY <1>t, <2>1 DEF Answered
  <2>. QED BY <1>t, <2>1, <2>2, AheadIs
<1>5. CASE HandleReply(e)
  <2>1. CASE Retries(e)
    <3>1. /\ job'[e].pc = "check" /\ job'[e].attempt = 2
          /\ job[e].pc = "reply" /\ job[e].attempt = 1
      BY <1>5, <1>t, <2>1 DEF HandleReply, Retries
    <3>. QED BY <1>t, <3>1, AheadIs
  <2>2. CASE ~Retries(e)
    <3>1. OnTo("done") /\ job[e].pc = "reply"
      BY <1>5, <1>t, <2>2 DEF HandleReply
    <3>. QED BY <1>t, <3>1, AheadIs
  <2>. QED BY <2>1, <2>2
<1>. QED BY <1>1, <1>2, <1>3, <1>4, <1>5 DEF Serves

-----------------------------------------------------------------------------
(* Who holds s_sync_sem is between taking and giving it, and nobody else is. *)
SemIsHeld == \A c \in SyncCallers :
                sem_holder = c <=> job[c].pc \notin {"idle", "take"}

LEMMA SemInit == Init => SemIsHeld
BY RestAssumption DEF Init, IdleJob, Executors, SemIsHeld

LEMMA SemStep == TypeOK /\ SemIsHeld /\ [Next]_vars => SemIsHeld'
<1>. SUFFICES ASSUME TypeOK, SemIsHeld, [Next]_vars PROVE SemIsHeld'
  OBVIOUS
<1>. USE DEF SemIsHeld
<1>t. /\ SyncCallers \subseteq Executors
      /\ "rest" \notin SyncCallers /\ "none" \notin SyncCallers
  BY RestAssumption DEF Executors
<1>1. CASE Enqueue \/ DropOnFull
  BY <1>1 DEF Enqueue, DropOnFull
<1>2. CASE Receive
  BY <1>2, ReceiveStep DEF Receive
<1>3. CASE Tick
  BY <1>3, <1>t, TickStep DEF Tick
<1>4. ASSUME NEW c \in SyncCallers, CallSync(c) PROVE SemIsHeld'
  BY <1>4, <1>t, CallStep DEF CallSync
<1>5. ASSUME NEW c \in SyncCallers, TakeSem(c) PROVE SemIsHeld'
  <2>1. sem_holder = "none" /\ sem_holder' = c
    BY <1>5 DEF TakeSem
  <2>. QED BY <1>5, <1>t, <2>1, TakeSemStep
<1>6. ASSUME NEW e \in Executors, Finish(e) PROVE SemIsHeld'
  <2>1. /\ job[e].pc = "done" /\ job'[e].pc = "idle"
        /\ \A f \in Executors \ {e} : job'[f] = job[f]
    BY <1>6, FinishStep DEF IdleJob
  <2>2. sem_holder' = IF e = sem_holder THEN "none" ELSE sem_holder
    BY <1>6 DEF Finish, GiveSem
  <2>. QED BY <1>t, <2>1, <2>2
<1>7. ASSUME NEW e \in Executors, Serves(e) PROVE SemIsHeld'
  <2>1. /\ UNCHANGED sem_holder /\ job'[e].pc # "idle"
        /\ \A f \in Executors \ {e} : job'[f] = job[f]
    BY <1>7, ServeStep
  <2>2. job[e].pc \notin {"idle", "take"} /\ job'[e].pc # "take"
    BY <1>7, ServeLeadsOn
  <2>. QED BY <1>t, <2>1, <2>2
<1>8. CASE UNCHANGED vars
  BY <1>8 DEF vars
<1>. QED BY <1>1, <1>2, <1>3, <1>4, <1>5, <1>6, <1>7, <1>8, NextCases

(* The synchronous calls exclude each other: between taking s_sync_sem and  *)
(* giving it back there is one caller, its holder, and no path out of       *)
(* do_request() keeps it (rest_get, rest_put_sync).                         *)
THEOREM SyncCallsExclude == Spec => []SemIsHeld
<1>1. Init => JobInv
  BY DEF Init, JobInv, IdleJob
<1>. QED BY TypeInit, TypeStep, <1>1, SemInit, SemStep, PTL DEF Spec

-----------------------------------------------------------------------------
(* The request of an executor at work, and what it has before it.           *)
KeepsOn(e) ==
    /\ job[e].pc # "idle" =>
          \/ job'[e].req = job[e].req /\ Ahead(job'[e]) <= Ahead(job[e])
          \/ job'[e].pc = "idle" /\ job[e].pc = "done"
    /\ DoRequest(e) \/ GiveUp(e) => Ahead(job'[e]) < Ahead(job[e])

(* A step of another executor, or of no executor. *)
LEMMA OthersKeepOn ==
    ASSUME TypeOK, NEW e \in Executors, job'[e] = job[e]
    PROVE  KeepsOn(e)
<1>1. job[e] \in Job
  BY DEF TypeOK
<1>2. ~Serves(e)
  <2>1. Serves(e) => Ahead(job'[e]) < Ahead(job[e])
    BY ServeLeadsOn
  <2>. QED BY <1>1, <2>1, AheadIs
<1>3. ~Finish(e)
  <2>1. Finish(e) => job'[e].pc = "idle" /\ job[e].pc = "done"
    BY FinishStep DEF IdleJob
  <2>. QED BY <2>1
<1>. QED BY <1>1, <1>2, <1>3, AheadIs DEF KeepsOn, DoRequest, Serves

(* An idle executor has nothing of do_request() to do. *)
LEMMA IdleKeepsOn ==
    ASSUME TypeOK, NEW e \in Executors, job[e].pc = "idle"
    PROVE  KeepsOn(e)
BY ServeLeadsOn, FinishStep DEF KeepsOn, DoRequest, Serves

LEMMA TickKeepsAttempts ==
    ASSUME TypeOK, Tick, NEW e \in Executors
    PROVE  /\ job'[e].pc = job[e].pc /\ job'[e].req = job[e].req
           /\ job'[e].attempt = job[e].attempt /\ job'[e] \in Job
<1>1. job[e] \in Job /\ job' \in [Executors -> Job]
  BY TickStep DEF TypeOK
<1>2. job'[e] = [job[e] EXCEPT !.left = Less(@)]
  BY DEF Tick
<1>. QED BY <1>1, <1>2 DEF Job

LEMMA TakeSemLeadsOn ==
    ASSUME TypeOK, NEW c \in SyncCallers, TakeSem(c)
    PROVE  /\ job'[c].req = job[c].req /\ Ahead(job'[c]) < Ahead(job[c])
<1>1. c \in Executors /\ job \in [Executors -> Job] /\ job[c] \in Job
  BY DEF Executors, TypeOK
<1>2. job' = [job EXCEPT ![c].pc = "check"] /\ job[c].pc = "take"
  BY DEF TakeSem, Goto
<1>3. /\ job'[c] \in Job /\ job'[c].pc = "check"
      /\ job'[c].attempt = job[c].attempt /\ job'[c].req = job[c].req
  BY <1>1, <1>2 DEF Job
<1>4. /\ Ahead(job[c]) = IF job[c].attempt = 1 THEN 10 ELSE 6
      /\ Ahead(job'[c]) = IF job[c].attempt = 1 THEN 9 ELSE 5
  BY <1>2, <1>3 DEF Ahead, PlacesLeft
<1>. QED BY <1>3, <1>4

LEMMA KeepOnStep == TypeOK /\ [Next]_vars => \A e \in Executors : KeepsOn(e)
<1>. SUFFICES ASSUME TypeOK, [Next]_vars, NEW e \in Executors
              PROVE  KeepsOn(e)
  OBVIOUS
<1>t. SyncCallers \subseteq Executors /\ "rest" \notin SyncCallers
  BY RestAssumption DEF Executors
<1>j. job[e] \in Job
  BY DEF TypeOK
<1>1. CASE Enqueue \/ DropOnFull \/ UNCHANGED vars
  BY <1>1, OthersKeepOn DEF Enqueue, DropOnFull, vars
<1>2. CASE Receive
  <2>1. CASE e = "rest"
    BY <1>2, <2>1, IdleKeepsOn DEF Receive
  <2>2. CASE e # "rest"
    BY <1>2, <2>2, ReceiveStep, OthersKeepOn DEF Executors
  <2>. QED BY <2>1, <2>2
<1>3. CASE Tick
  <2>1. /\ job'[e].pc = job[e].pc /\ job'[e].req = job[e].req
        /\ job'[e].attempt = job[e].attempt /\ job'[e] \in Job
    BY <1>3, TickKeepsAttempts
  <2>2. Ahead(job'[e]) = Ahead(job[e])
    BY <2>1 DEF Ahead
  <2>3. ~Serves(e) /\ ~Finish(e)
    <3>1. Serves(e) => Ahead(job'[e]) < Ahead(job[e])
      BY ServeLeadsOn
    <3>2. Finish(e) => job'[e].pc = "idle" /\ job[e].pc = "done"
      BY FinishStep DEF IdleJob
    <3>. QED BY <1>j, <2>1, <2>2, <3>1, <3>2, AheadIs
  <2>. QED BY <1>j, <2>1, <2>2, <2>3, AheadIs DEF KeepsOn, DoRequest, Serves
<1>4. ASSUME NEW c \in SyncCallers, CallSync(c) PROVE KeepsOn(e)
  <2>1. CASE e = c
    BY <1>4, <2>1, IdleKeepsOn DEF CallSync
  <2>2. CASE e # c
    BY <1>4, <1>t, <2>2, CallStep, OthersKeepOn
  <2>. QED BY <2>1, <2>2
<1>5. ASSUME NEW c \in SyncCallers, TakeSem(c) PROVE KeepsOn(e)
  <2>1. CASE e = c
    <3>1. job'[e].req = job[e].req /\ Ahead(job'[e]) < Ahead(job[e])
      BY <1>5, <2>1, TakeSemLeadsOn
    <3>2. job' \in [Executors -> Job]
      BY <1>5, TakeSemStep
    <3>. QED BY <1>j, <3>1, <3>2, AheadIs DEF KeepsOn
  <2>2. CASE e # c
    BY <1>5, <1>t, <2>2, TakeSemStep, OthersKeepOn
  <2>. QED BY <2>1, <2>2
<1>6. ASSUME NEW f \in Executors, Finish(f) PROVE KeepsOn(e)
  <2>1. CASE e = f
    <3>1. job'[e] = IdleJob /\ job[e].pc = "done" /\ job'[e].pc = "idle"
      BY <1>6, <2>1, FinishStep DEF IdleJob
    <3>2. job' \in [Executors -> Job]
      BY <1>6, FinishStep
    <3>. QED BY <1>j, <3>1, <3>2, AheadIs DEF KeepsOn
  <2>2. CASE e # f
    BY <1>6, <2>2, FinishStep, OthersKeepOn
  <2>. QED BY <2>1, <2>2
<1>7. ASSUME NEW f \in Executors, Serves(f) PROVE KeepsOn(e)
  <2>1. CASE e = f
    <3>1. /\ job'[e].req = job[e].req /\ Ahead(job'[e]) < Ahead(job[e])
          /\ job' \in [Executors -> Job]
      BY <1>7, <2>1, ServeStep, ServeLeadsOn
    <3>. QED BY <1>j, <3>1, AheadIs DEF KeepsOn
  <2>2. CASE e # f
    BY <1>7, <2>2, ServeStep, OthersKeepOn
  <2>. QED BY <2>1, <2>2
<1>. QED BY <1>1, <1>2, <1>3, <1>4, <1>5, <1>6, <1>7, NextCases

(* Every call leads on to its end: what it has before it never grows, and   *)
(* each step of do_request() makes it less, so that a request is sent at    *)
(* most twice and none goes round (the safety half of QueueDrains;          *)
(* do_request).                                                             *)
EveryCallLeadsOn == [][\A e \in Executors : KeepsOn(e)]_vars

THEOREM CallsLeadOn == Spec => EveryCallLeadsOn
<1>1. Init => JobInv
  BY DEF Init, JobInv, IdleJob
<1>. QED
  BY TypeInit, TypeStep, <1>1, KeepOnStep, PTL DEF Spec, EveryCallLeadsOn

=============================================================================
