-------------------------------- MODULE Rest --------------------------------
(***************************************************************************)
(* discord/rest.c: the request queue and the task that works it off, the   *)
(* synchronous calls that other tasks make under a mutex, and the rate     *)
(* limit that all of them share without one.  A request is a number; its   *)
(* path and body are left out.  Times are counted in ticks, as what is     *)
(* left of them.                                                           *)
(***************************************************************************)
EXTENDS Integers, SequencesExt

CONSTANTS
    QUEUE_DEPTH,     \* 8
    MARGIN,          \* RATE_RESET_MARGIN_MS
    LONG_WAIT,       \* the wait that rate_limit_wait() no longer makes: 30 s
    SyncCallers,     \* tasks that call rest_get() or rest_put_sync()
    Delays,          \* the values of X-RateLimit-Reset-After
    MaxRequests      \* bound: requests

ASSUME RestAssumption ==
    /\ QUEUE_DEPTH \in Nat \ {0}
    /\ MARGIN \in Nat /\ LONG_WAIT \in Nat
    /\ Delays \subseteq Nat \ {0}
    /\ MaxRequests \in Nat
    /\ SyncCallers \cap {"rest", "none"} = {}

Executors == SyncCallers \cup {"rest"}

VARIABLES
    s_queue,     \* the queue of rest_task
    sem_holder,  \* who holds s_sync_sem, or "none"
    job,         \* per executor: where it is in do_request()
    reset_left,  \* s_rate_limit_reset_us, as the time left until it
    bucket_left, \* Discord's side of it: the time it refuses requests for
    applied,     \* the queued requests that took effect at Discord, in order
    synced,      \* the synchronous ones that did
    issued       \* requests so far

effects == <<applied, synced>>
vars == <<s_queue, sem_holder, job, reset_left, bucket_left, effects, issued>>

Requests  == [n : 1..MaxRequests, with_auth : BOOLEAN, queued : BOOLEAN]
NoRequest == [n |-> 0, with_auth |-> FALSE, queued |-> FALSE]
Replies  == {"none", "ok", "refused", "limited", "error"}
Job == [pc : {"idle", "take", "check", "delay", "send", "reply", "done"},
        req : Requests \cup {NoRequest}, attempt : 1..2, left : Nat,
        reply : Replies, after : Nat]
IdleJob == [pc |-> "idle", req |-> NoRequest, attempt |-> 1, left |-> 0,
            reply |-> "none", after |-> 0]

TypeOK ==
    /\ s_queue \in Seq(Requests) /\ Len(s_queue) <= QUEUE_DEPTH
    /\ sem_holder \in SyncCallers \cup {"none"}
    /\ job \in [Executors -> Job]
    /\ reset_left \in Nat /\ bucket_left \in Nat
    /\ applied \in Seq(Requests) /\ synced \in Seq(Requests)
    /\ issued \in 0..MaxRequests

Init ==
    /\ s_queue = <<>> /\ sem_holder = "none"
    /\ job = [e \in Executors |-> IdleJob]
    /\ reset_left = 0 /\ bucket_left = 0
    /\ applied = <<>> /\ synced = <<>> /\ issued = 0

Goto(e, from, to) == job[e].pc = from /\ job' = [job EXCEPT ![e].pc = to]

-----------------------------------------------------------------------------
(* The callers. *)

NewRequest(auth, q) == [n |-> issued + 1, with_auth |-> auth, queued |-> q]

Issue == issued < MaxRequests /\ issued' = issued + 1

(* Mutant: every request jumps the queue. *)
PutAtFront(r) == s_queue' = <<r>> \o s_queue

PutInQueue(r) == s_queue' = Append(s_queue, r)

(* Mutant: off by one. *)
HasRoomForOneMore == Len(s_queue) <= QUEUE_DEPTH

HasRoom == Len(s_queue) < QUEUE_DEPTH

(* enqueue(), as rest_post, rest_delete and rest_patch_unauth call it *)
Enqueue ==
    /\ Issue /\ HasRoom
    /\ \E auth \in BOOLEAN : PutInQueue(NewRequest(auth, TRUE))
    /\ UNCHANGED <<sem_holder, job, reset_left, bucket_left, effects>>

(* The queue stays full for 100 ms: the request is dropped. *)
DropOnFull ==
    /\ Issue /\ ~HasRoom
    /\ UNCHANGED <<s_queue, sem_holder, job, reset_left, bucket_left, effects>>

(* rest_task *)
Receive ==
    /\ job["rest"].pc = "idle" /\ s_queue # <<>>
    /\ job' = [job EXCEPT !["rest"] =
                  [IdleJob EXCEPT !.pc = "check", !.req = Head(s_queue)]]
    /\ s_queue' = Tail(s_queue)
    /\ UNCHANGED <<sem_holder, reset_left, bucket_left, effects, issued>>

(* rest_get(), rest_put_sync() *)
CallSync(c) ==
    /\ job[c].pc = "idle" /\ Issue
    /\ job' = [job EXCEPT ![c] =
                  [IdleJob EXCEPT !.pc = "take", !.req = NewRequest(TRUE, FALSE)]]
    /\ UNCHANGED <<s_queue, sem_holder, reset_left, bucket_left, effects>>

TakeSem(c) ==
    /\ sem_holder = "none" /\ Goto(c, "take", "check")
    /\ sem_holder' = c
    /\ UNCHANGED <<s_queue, reset_left, bucket_left, effects, issued>>

(* Mutant: the mutex is given back on success only. *)
GiveSemOnSuccess(e) ==
    sem_holder' = IF e = sem_holder /\ job[e].reply = "ok"
                  THEN "none" ELSE sem_holder

GiveSem(e) == sem_holder' = IF e = sem_holder THEN "none" ELSE sem_holder

Finish(e) ==
    /\ job[e].pc = "done"
    /\ job' = [job EXCEPT ![e] = IdleJob]
    /\ GiveSem(e)
    /\ UNCHANGED <<s_queue, reset_left, bucket_left, effects, issued>>

-----------------------------------------------------------------------------
(* do_request() *)

(* No token, no memory, no client: nothing is sent. *)
GiveUp(e) ==
    /\ job[e].pc = "send" \/ (job[e].pc = "check" /\ job[e].attempt = 1)
    /\ job' = [job EXCEPT ![e].pc = "done"]
    /\ UNCHANGED <<s_queue, sem_holder, reset_left, bucket_left, effects,
                   issued>>

MustWait(e) == /\ job[e].req.with_auth
               /\ reset_left > 0 /\ reset_left + MARGIN < LONG_WAIT

(* rate_limit_wait() *)
CheckLimit(e) ==
    /\ job[e].pc = "check"
    /\ job' = [job EXCEPT ![e] =
                  IF MustWait(e)
                  THEN [@ EXCEPT !.pc = "delay", !.left = reset_left + MARGIN]
                  ELSE [@ EXCEPT !.pc = "send"]]
    /\ UNCHANGED <<s_queue, sem_holder, reset_left, bucket_left, effects,
                   issued>>

DelayOver(e) ==
    /\ job[e].left = 0 /\ Goto(e, "delay", "send")
    /\ UNCHANGED <<s_queue, sem_holder, reset_left, bucket_left, effects,
                   issued>>

Answered(e, status, after) ==
    job' = [job EXCEPT ![e].pc = "reply", ![e].reply = status,
                       ![e].after = after]

TakesEffect(r) ==
    IF r.queued THEN applied' = Append(applied, r) /\ UNCHANGED synced
                ELSE synced' = Append(synced, r) /\ UNCHANGED applied

(* Discord serves the request, and it may have been the last one before a   *)
(* reset.                                                                   *)
SendServed(e) ==
    /\ job[e].pc = "send"
    /\ job[e].req.with_auth => bucket_left = 0
    /\ \E status \in {"ok", "refused"} :
          /\ IF status = "ok" THEN TakesEffect(job[e].req)
                              ELSE UNCHANGED effects
          /\ \E after \in {0} \cup (IF job[e].req.with_auth THEN Delays
                                                            ELSE {}) :
                /\ Answered(e, status, after)
                /\ bucket_left' = IF job[e].req.with_auth THEN after
                                                          ELSE bucket_left
    /\ UNCHANGED <<s_queue, sem_holder, reset_left, issued>>

(* 429 *)
SendLimited(e) ==
    /\ job[e].pc = "send"
    /\ job[e].req.with_auth /\ bucket_left > 0
    /\ Answered(e, "limited", bucket_left)
    /\ UNCHANGED <<s_queue, sem_holder, reset_left, bucket_left, effects,
                   issued>>

(* The connection fails before Discord acts, or before its answer is back.  *)
SendFails(e) ==
    /\ job[e].pc = "send"
    /\ Answered(e, "error", 0)
    /\ \/ UNCHANGED <<effects, bucket_left>>
       \/ /\ job[e].req.with_auth => bucket_left = 0
          /\ TakesEffect(job[e].req)
          /\ bucket_left' \in {bucket_left}
                 \cup (IF job[e].req.with_auth THEN Delays ELSE {})
    /\ UNCHANGED <<s_queue, sem_holder, reset_left, issued>>

(* Mutant: an error is retried as well. *)
RetriesErrors(e) == /\ job[e].reply \in {"limited", "error"}
                    /\ job[e].attempt = 1

Retries(e) == job[e].reply = "limited" /\ job[e].attempt = 1

(* parse_rate_limit() and what follows it; an error has no headers.  The    *)
(* Reset-After of the answer counts from the moment it is parsed.           *)
HandleReply(e) ==
    /\ job[e].pc = "reply"
    /\ reset_left' = IF job[e].after > 0 THEN job[e].after ELSE reset_left
    /\ job' = [job EXCEPT ![e] = IF Retries(e)
                  THEN [@ EXCEPT !.pc = "check", !.attempt = 2]
                  ELSE [@ EXCEPT !.pc = "done"]]
    /\ UNCHANGED <<s_queue, sem_holder, bucket_left, effects, issued>>

-----------------------------------------------------------------------------
Less(t) == IF t > 0 THEN t - 1 ELSE 0

Tick ==
    /\ \/ reset_left > 0 \/ bucket_left > 0
       \/ \E e \in Executors : job[e].left > 0
    /\ reset_left' = Less(reset_left)
    /\ bucket_left' = Less(bucket_left)
    /\ job' = [e \in Executors |-> [job[e] EXCEPT !.left = Less(@)]]
    /\ UNCHANGED <<s_queue, sem_holder, effects, issued>>

Send(e) == SendServed(e) \/ SendLimited(e) \/ SendFails(e)
DoRequest(e) == CheckLimit(e) \/ DelayOver(e) \/ Send(e) \/ HandleReply(e)
                   \/ Finish(e)

Next == \/ Enqueue \/ DropOnFull \/ Receive \/ Tick
        \/ \E c \in SyncCallers : CallSync(c) \/ TakeSem(c)
        \/ \E e \in Executors : DoRequest(e) \/ GiveUp(e)

Spec == Init /\ [][Next]_vars

(* The tasks run, time passes and every HTTP call ends, its timeout at the  *)
(* latest.                                                                  *)
LiveSpec == /\ Spec /\ WF_vars(Receive) /\ WF_vars(Tick)
            /\ \A c \in SyncCallers : WF_vars(TakeSem(c))
            /\ \A e \in Executors : WF_vars(DoRequest(e))

-----------------------------------------------------------------------------
(* Properties. *)

(* No request takes effect twice, retries and lost answers included: a kick *)
(* or a log message is never repeated (the retry in do_request).            *)
AtMostOnce ==
    LET all == applied \o synced
    IN \A i, j \in DOMAIN all : all[i].n = all[j].n => i = j

(* The queued requests behave as an Outbox: bounded, in order, one at a     *)
(* time, each effective once at most, whatever the synchronous callers do   *)
(* at the same time (enqueue, rest_task, do_request).                       *)
Box == INSTANCE Outbox WITH
          Depth <- QUEUE_DEPTH, None <- NoRequest,
          queue <- s_queue, serving <- job["rest"].req

ImplementsOutbox == Box!Spec

(* Every request comes to an end: the queue empties, the mutex is free and  *)
(* no task stays in do_request(), however the calls fail (rest_task,        *)
(* rest_get, rest_put_sync).                                                *)
Quiet == /\ s_queue = <<>> /\ sem_holder = "none"
         /\ \A e \in Executors : job[e].pc = "idle"
QueueDrains == (issued = MaxRequests) ~> Quiet
=============================================================================
