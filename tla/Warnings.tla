------------------------------ MODULE Warnings ------------------------------
(***************************************************************************)
(* mod/warnings.c: the table of warning counters in RAM and their copies   *)
(* in flash.  The auto-moderator calls it on the WebSocket task and the    *)
(* /mod commands on the commands task; nothing locks it, so the functions  *)
(* are modelled statement by statement.  A scan of the table is one step.  *)
(***************************************************************************)
EXTENDS Naturals, FiniteSetsExt

CONSTANTS
    Ids,              \* low words of the user ids, 0 for a blank id
    Callers,          \* the tasks that call
    WARN_TABLE_SIZE,  \* 64
    COUNT_MOD,        \* 256: a count is a uint8_t
    Ops,              \* bound: the operations the callers use
    MaxCalls,         \* bound: calls
    MaxReboots        \* bound: reboots, at any point

ASSUME WarnAssumption ==
    /\ Ids \subseteq Nat /\ Ids # {} /\ Callers # {}
    /\ WARN_TABLE_SIZE \in Nat \ {0}
    /\ COUNT_MOD \in Nat \ {0}
    /\ Ops \subseteq {"increment", "get", "clear"}
    /\ MaxCalls \in Nat /\ MaxReboots \in Nat

Slots == 0..(WARN_TABLE_SIZE - 1)

VARIABLES
    s_table,   \* the entries: valid, user_id_lo, count
    nvs,       \* the keys "w<user_id_lo>"; a key never written reads 0
    pc,        \* per caller: the statement it is at
    call,      \* per caller: operation, user, slot, count read
    reply,     \* per caller: what its last call returned, 0 before it does
    given,     \* history: warnings of a user since the last clear, counted
               \* when they reach flash
    passed,    \* history: users whose entry, not yet named, a scan passed over
    spoiled,   \* history: users whose count something may have put wrong
    calls, reboots

blame == <<passed, spoiled>>
vars == <<s_table, nvs, pc, call, reply, given, blame, calls, reboots>>

Pcs   == {"idle", "find", "check", "enter", "name", "load", "read", "store",
          "flush", "return", "search", "zero"}
Entry == [valid : BOOLEAN, user_id_lo : Nat, count : 0..(COUNT_MOD - 1)]
Call  == [op : {"none", "increment", "get", "clear"}, id : Nat,
          slot : Nat, n : 0..(COUNT_MOD - 1)]
Blank == [valid |-> FALSE, user_id_lo |-> 0, count |-> 0]
NoCall == [op |-> "none", id |-> 0, slot |-> 0, n |-> 0]

TypeOK ==
    /\ s_table \in [Slots -> Entry]
    /\ nvs \in [Ids \cup {0} -> 0..(COUNT_MOD - 1)]
    /\ pc \in [Callers -> Pcs]
    /\ call \in [Callers -> Call]
    /\ \A c \in Callers : call[c].slot \in Slots
    /\ reply \in [Callers -> 0..(COUNT_MOD - 1)]
    /\ given \in [Ids -> Nat]
    /\ passed \subseteq Ids /\ spoiled \subseteq Ids \cup {0}
    /\ calls \in 0..MaxCalls /\ reboots \in 0..MaxReboots

Init ==
    /\ s_table = [i \in Slots |-> Blank]
    /\ nvs = [u \in Ids \cup {0} |-> 0]
    /\ pc = [c \in Callers |-> "idle"]
    /\ call = [c \in Callers |-> NoCall]
    /\ reply = [c \in Callers |-> 0]
    /\ given = [u \in Ids |-> 0]
    /\ passed = {} /\ spoiled = {}
    /\ calls = 0 /\ reboots = 0

-----------------------------------------------------------------------------
SlotsOf(u) == {i \in Slots : s_table[i].valid /\ s_table[i].user_id_lo = u}
FreeSlots  == {i \in Slots : ~s_table[i].valid}

(* find_slot(), and slot 0 when the table is full *)
FindSlot(u) == IF SlotsOf(u) # {} THEN Min(SlotsOf(u))
               ELSE IF FreeSlots # {} THEN Min(FreeSlots) ELSE 0

(* warnings_get() *)
WarningsGet(u) == IF SlotsOf(u) # {} THEN s_table[Min(SlotsOf(u))].count
                  ELSE nvs[u]

Goto(c, from, to) == pc[c] = from /\ pc' = [pc EXCEPT ![c] = to]

Slot(c) == call[c].slot

Busy == {c \in Callers : pc[c] # "idle"}

(* History: the users whose count is put wrong, if anything is.             *)
Spoil(wrong, users) == spoiled' = spoiled \cup (IF wrong THEN users ELSE {})

(* History: whether the scan for user u passes over the entry that another  *)
(* call has decided to make for u and has not yet named.                    *)
PassesOver(u) == \E d \in Callers : /\ pc[d] \in {"enter", "name"}
                                    /\ call[d].id = u /\ Slot(d) # FindSlot(u)
                                    /\ SlotsOf(u) = {}

-----------------------------------------------------------------------------
(* The tasks do not wait for each other.  Calls that overlap may spoil each *)
(* other's users, and the blank id that an entry has until it is named.     *)
Start(c, op, u) ==
    /\ pc[c] = "idle" /\ calls < MaxCalls
    /\ pc' = [pc EXCEPT ![c] = CASE op = "increment" -> "find"
                                 [] op = "clear" -> "search"
                                 [] op = "get" -> "return"]
    /\ call' = [call EXCEPT ![c] = [op |-> op, id |-> u, slot |-> 0, n |-> 0]]
    /\ reply' = [reply EXCEPT ![c] = 0]
    /\ calls' = calls + 1
    /\ Spoil(Busy # {}, {0, u} \cup {call[d].id : d \in Busy})
    /\ UNCHANGED <<s_table, nvs, given, passed, reboots>>

(* warnings_increment().  A full table gives another user's entry away,     *)
(* which keeps its name.                                                    *)
Find(c) ==
    /\ Goto(c, "find", "check")
    /\ LET i == FindSlot(call[c].id)
           owner == s_table[i].user_id_lo
       IN /\ call' = [call EXCEPT ![c].slot = i]
          /\ Spoil(s_table[i].valid /\ owner # call[c].id, {owner, call[c].id})
    /\ passed' = passed \cup {u \in {call[c].id} : PassesOver(u)}
    /\ UNCHANGED <<s_table, nvs, reply, given, calls, reboots>>

CheckValid(c) ==
    /\ Goto(c, "check", IF s_table[Slot(c)].valid THEN "read" ELSE "enter")
    /\ UNCHANGED <<s_table, nvs, call, reply, given, blame, calls, reboots>>

EnterSlot(c) ==
    /\ Goto(c, "enter", "name")
    /\ s_table' = [s_table EXCEPT ![Slot(c)].valid = TRUE]
    /\ UNCHANGED <<nvs, call, reply, given, blame, calls, reboots>>

(* Mutant: the entry is not re-keyed. *)
NameSlotForgotten(c) ==
    /\ Goto(c, "name", "load")
    /\ UNCHANGED <<s_table, nvs, call, reply, given, blame, calls, reboots>>

NameSlot(c) ==
    /\ Goto(c, "name", "load")
    /\ s_table' = [s_table EXCEPT ![Slot(c)].user_id_lo = call[c].id]
    /\ UNCHANGED <<nvs, call, reply, given, blame, calls, reboots>>

(* The entry is in the table by now, so warnings_get() finds it there, and  *)
(* not what flash has.                                                      *)
LoadCount(c) ==
    /\ Goto(c, "load", "read")
    /\ s_table' = [s_table EXCEPT ![Slot(c)].count = WarningsGet(call[c].id)]
    /\ Spoil(WarningsGet(call[c].id) # nvs[call[c].id], {call[c].id})
    /\ UNCHANGED <<nvs, call, reply, given, passed, calls, reboots>>

ReadCount(c) ==
    /\ Goto(c, "read", "store")
    /\ call' = [call EXCEPT ![c].n = s_table[Slot(c)].count]
    /\ UNCHANGED <<s_table, nvs, reply, given, blame, calls, reboots>>

(* Mutant: the sum is kept as the int it is computed as, not as a byte. *)
StoreWideCount(c) ==
    /\ Goto(c, "store", "flush")
    /\ s_table' = [s_table EXCEPT ![Slot(c)].count = call[c].n + 1]
    /\ Spoil(call[c].n + 1 = COUNT_MOD, {call[c].id})
    /\ UNCHANGED <<nvs, call, reply, given, passed, calls, reboots>>

StoreCount(c) ==
    /\ Goto(c, "store", "flush")
    /\ s_table' = [s_table EXCEPT ![Slot(c)].count = (call[c].n + 1) % COUNT_MOD]
    /\ Spoil(call[c].n + 1 = COUNT_MOD, {call[c].id})
    /\ UNCHANGED <<nvs, call, reply, given, passed, calls, reboots>>

(* Mutant: the key is made from the caller's id, not from the slot's. *)
FlushOwnKey(c) ==
    /\ Goto(c, "flush", IF call[c].op = "clear" THEN "idle" ELSE "return")
    /\ nvs' = [nvs EXCEPT ![call[c].id] = s_table[Slot(c)].count]
    /\ given' = [given EXCEPT ![call[c].id] =
                    IF call[c].op = "clear" THEN 0 ELSE @ + 1]
    /\ UNCHANGED <<s_table, call, reply, blame, calls, reboots>>

(* nvs_flush(): the key is made from the slot's own user_id_lo. *)
Flush(c) ==
    /\ Goto(c, "flush", IF call[c].op = "clear" THEN "idle" ELSE "return")
    /\ nvs' = [nvs EXCEPT ![s_table[Slot(c)].user_id_lo] =
                              s_table[Slot(c)].count]
    /\ given' = [given EXCEPT ![call[c].id] =
                    IF call[c].op = "clear" THEN 0 ELSE @ + 1]
    /\ UNCHANGED <<s_table, call, reply, blame, calls, reboots>>

(* The return of warnings_increment(), or all of warnings_get(). *)
Return(c) ==
    /\ Goto(c, "return", "idle")
    /\ reply' = [reply EXCEPT ![c] = IF call[c].op = "get"
                                     THEN WarningsGet(call[c].id)
                                     ELSE s_table[Slot(c)].count]
    /\ UNCHANGED <<s_table, nvs, call, given, blame, calls, reboots>>

(* warnings_clear(): a user who is not in the table is left alone, and so   *)
(* is the copy in flash.                                                    *)
SearchFound(c) ==
    /\ Goto(c, "search", "zero")
    /\ SlotsOf(call[c].id) # {}
    /\ call' = [call EXCEPT ![c].slot = Min(SlotsOf(call[c].id))]
    /\ UNCHANGED <<s_table, nvs, reply, given, blame, calls, reboots>>

SearchMissed(c) ==
    /\ Goto(c, "search", "idle")
    /\ SlotsOf(call[c].id) = {}
    /\ given' = [given EXCEPT ![call[c].id] = 0]
    /\ Spoil(nvs[call[c].id] # 0, {call[c].id})
    /\ UNCHANGED <<s_table, nvs, call, reply, passed, calls, reboots>>

ZeroCount(c) ==
    /\ Goto(c, "zero", "flush")
    /\ s_table' = [s_table EXCEPT ![Slot(c)].count = 0]
    /\ UNCHANGED <<nvs, call, reply, given, blame, calls, reboots>>

(* A reset, and warnings_init(), which zeroes the table and loads nothing. *)
Reboot ==
    /\ reboots < MaxReboots
    /\ reboots' = reboots + 1
    /\ s_table' = [i \in Slots |-> Blank]
    /\ pc' = [c \in Callers |-> "idle"]
    /\ call' = [c \in Callers |-> NoCall]
    /\ reply' = [c \in Callers |-> 0]
    /\ passed' = {}
    /\ UNCHANGED <<nvs, given, spoiled, calls>>

Step(c) == \/ \E op \in Ops, u \in Ids : Start(c, op, u)
           \/ Find(c) \/ CheckValid(c) \/ EnterSlot(c) \/ NameSlot(c)
           \/ LoadCount(c) \/ ReadCount(c) \/ StoreCount(c) \/ Flush(c) \/ Return(c)
           \/ SearchFound(c) \/ SearchMissed(c) \/ ZeroCount(c)

Next == Reboot \/ \E c \in Callers : Step(c)

Spec == Init /\ [][Next]_vars

-----------------------------------------------------------------------------
(* Properties. *)

Idle == Busy = {}

(* README, Auto-Moderation: a violation increments the user's warning       *)
(* count.  At rest warnings_get() reports for every user the warnings given *)
(* since the last clear, after a reset in the middle of a call and after    *)
(* calls for others have run into each other too: a warning counts from the *)
(* moment it is in flash (warnings_increment, warnings_get,                 *)
(* warnings_clear).  Not for a user whose count the code puts wrong: after  *)
(* a reset the first warning starts from 0 over the count in flash, and a   *)
(* clear misses it; a full table gives the entry of slot 0 away; the byte   *)
(* wraps; and a call that overlaps another may spoil the users of both.     *)
CountsMatch == Idle => \A u \in Ids \ spoiled : WarningsGet(u) = given[u]

(* The entries in use come first, and no user has two at rest, however many *)
(* calls interleave, unless a scan for that user passed over the entry that *)
(* another call was making for the same user (find_slot,                    *)
(* warnings_increment).                                                     *)
OneEntryPerUser ==
    \A i, j \in Slots : i < j /\ s_table[j].valid
       => /\ s_table[i].valid
          /\ Idle /\ s_table[i].user_id_lo = s_table[j].user_id_lo
                => s_table[i].user_id_lo \in passed

(* Flash is behind the table by the entries that calls are working on and   *)
(* no other, however many calls interleave, evictions included (nvs_flush,  *)
(* keyed by the slot's own user).  Not for a user with two entries, and not *)
(* for the blank id once two calls overlapped: an entry has it until it is  *)
(* named.  What the first warning after a reset makes of the copy in flash  *)
(* is CountsMatch's matter.                                                 *)
Working(i) == \E c \in Callers :
                 /\ pc[c] \in {"name", "load", "read", "store", "flush"}
                 /\ Slot(c) = i

TableIsDurable ==
    \A i \in Slots : LET u == s_table[i].user_id_lo IN
        s_table[i].valid /\ ~Working(i) /\ u \notin passed \cup (spoiled \cap {0})
           => nvs[u] = s_table[i].count

(* For any users whose counts nothing has put wrong, and until something    *)
(* does, the module keeps WarnCounts' promise to those who call for them,   *)
(* resets and what happens to other users included: a warning or a clear    *)
(* takes effect when it is in flash, and its reply is due from then on.     *)
ReplyDue(c) == IF pc[c] = "return" /\ call[c].op = "increment"
               THEN s_table[Slot(c)].count ELSE reply[c]

Abstract(users) == INSTANCE WarnCounts WITH
    Ids <- users, MaxCount <- COUNT_MOD - 1,
    total <- [u \in users |-> given[u]],
    reply <- [c \in Callers |-> IF call[c].id \in users THEN ReplyDue(c) ELSE 0]

ImplementsCounts ==
    /\ \A users \in SUBSET Ids : Abstract(users)!Init
    /\ [][\A users \in SUBSET Ids : spoiled' \cap users = {}
             => [Abstract(users)!Next]_(Abstract(users)!vars)]_vars

(* warnings.c:79, "New entry - load from NVS first": a new entry starts     *)
(* from the count in flash.                                                 *)
StartsFromFlash ==
    [][\A c \in Callers : LoadCount(c)
          => s_table'[Slot(c)].count = nvs[call[c].id]]_vars
=============================================================================
