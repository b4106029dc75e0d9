--------------------------- MODULE WarningsProofs ---------------------------
(***************************************************************************)
(* The warning counters for every number of slots, callers and users: what *)
(* holds whatever the calls do to each other, and what holds when each is  *)
(* over before the next begins.                                            *)
(***************************************************************************)
EXTENDS Warnings, FiniteSetTheorems, NaturalsInduction, TLAPS

Counts  == 0..(COUNT_MOD - 1)
Entries == [valid : BOOLEAN, user_id_lo : Ids \cup {0}, count : Counts]
CallOps == {"none", "increment", "get", "clear"}
Orders  == [op : CallOps, id : Ids \cup {0}, slot : Slots, n : Counts]

Shape ==
    /\ s_table \in [Slots -> Entries]
    /\ nvs \in [Ids \cup {0} -> Counts]
    /\ pc \in [Callers -> Pcs]
    /\ call \in [Callers -> Orders]
    /\ reply \in [Callers -> Counts]
    /\ given \in [Ids -> Nat]
    /\ passed \subseteq Ids /\ spoiled \subseteq Ids \cup {0}
    /\ calls \in 0..MaxCalls /\ reboots \in 0..MaxReboots

(* What a caller at each statement was asked to do. *)
Filling == {"name", "load", "read", "store"}
CallInv ==
    \A c \in Callers :
       /\ pc[c] # "idle" => call[c].id \in Ids
       /\ pc[c] \in {"find", "check", "enter"} \cup Filling => call[c].op = "increment"
       /\ pc[c] \in {"search", "zero"} => call[c].op = "clear"
       /\ pc[c] = "flush" => call[c].op \in {"increment", "clear"}
       /\ pc[c] = "return" => call[c].op \in {"increment", "get"}

(* What a step of one caller leaves of the others. *)
Goes(c, from, to) ==
    /\ pc[c] = from /\ pc'[c] = to
    /\ \A d \in Callers \ {c} : pc'[d] = pc[d]

Keeps(c) ==
    /\ call'[c].op = call[c].op /\ call'[c].id = call[c].id
    /\ \A d \in Callers \ {c} : call'[d] = call[d]

(* Calls that overlap are about users who are spoiled, and so is the blank  *)
(* id that an entry has before it is named.                                 *)
ApartInv ==
    /\ passed \subseteq spoiled
    /\ \A c, d \in Callers : c # d /\ pc[c] # "idle" /\ pc[d] # "idle"
                             => call[c].id \in spoiled /\ 0 \in spoiled

(* Entries in use come first; a call fills an entry in use only.            *)
FirstInv ==
    /\ \A i, j \in Slots : i < j /\ s_table[j].valid => s_table[i].valid
    /\ \A i \in Slots : ~s_table[i].valid => s_table[i].user_id_lo = 0
    /\ \A c \in Callers :
          /\ pc[c] \in Filling \cup {"zero", "flush"} => s_table[Slot(c)].valid
          /\ pc[c] \in {"check", "enter"} /\ ~s_table[Slot(c)].valid
                => \A i \in Slots : i < Slot(c) => s_table[i].valid

(* A call that is going to name an entry; an entry in use without a name.   *)
Making(c) == \/ pc[c] \in {"enter", "name"}
             \/ pc[c] = "check" /\ ~s_table[Slot(c)].valid
Unnamed(i) == \E c \in Callers : pc[c] = "name" /\ Slot(c) = i

(* No user has two entries, nor an entry and a call that is going to make   *)
(* another, nor two such calls: but for the users that were passed over,    *)
(* and the blank id.                                                        *)
UniqueInv ==
    /\ \A i, j \in Slots :
          /\ i # j /\ s_table[i].valid /\ s_table[j].valid
          /\ s_table[i].user_id_lo = s_table[j].user_id_lo
          => \/ s_table[i].user_id_lo \in passed
             \/ s_table[i].user_id_lo = 0 /\ (Unnamed(i) \/ Unnamed(j))
    /\ \A c \in Callers, j \in Slots :
          /\ Making(c) /\ j # Slot(c) /\ s_table[j].valid
          /\ s_table[j].user_id_lo = call[c].id
          => call[c].id \in passed \/ (call[c].id = 0 /\ Unnamed(j))
    /\ \A c, d \in Callers :
          Making(c) /\ Making(d) /\ call[c].id = call[d].id /\ Slot(c) # Slot(d)
          => call[c].id \in passed

(* A call works on its own user's entry, and between its statements the     *)
(* entry's count is the one given, or the one about to be.                  *)
OwnEntry(c) ==
    \/ pc[c] \in {"load", "read", "store", "zero", "flush"}
    \/ pc[c] = "check" /\ s_table[Slot(c)].valid

CallCounts(c) ==
    LET entry == s_table[Slot(c)]
        u     == call[c].id
    IN /\ OwnEntry(c) => entry.user_id_lo = u \/ {entry.user_id_lo, u} \subseteq spoiled
       /\ u \notin spoiled =>
             /\ pc[c] \in {"read", "store"} => entry.count = given[u]
             /\ pc[c] = "store" => call[c].n = given[u]
             /\ pc[c] = "flush" => entry.count =
                   IF call[c].op = "clear" THEN 0 ELSE given[u] + 1

CountInv ==
    /\ \A u \in Ids \ spoiled : nvs[u] = given[u]
    /\ \A c \in Callers : CallCounts(c)
-----------------------------------------------------------------------------
(* The least slot of a set of slots. *)
LEMMA LeastSlot ==
    ASSUME NEW S \in SUBSET Slots, S # {}
    PROVE  Min(S) \in S /\ \A y \in S : Min(S) <= y
<1>. DEFINE R == {ss \in Nat \X Nat : ss[1] < ss[2]}
<1>1. S \subseteq Nat
  BY WarnAssumption DEF Slots
<1>r. IsWellFoundedOn(R, Nat)
  BY NatLessThanWellFounded, Zenon DEF OpToRel
<1>2. PICK x \in S : \A y \in S : ~(<<y, x>> \in R)
  <2>. HIDE DEF R
  <2>. QED BY <1>1, <1>r, WFMin, Zenon
<1>3. \A y \in S : ~(y < x)
  BY <1>1, <1>2
<1>4. \A y \in S : x <= y
  BY <1>1, <1>3
<1>. QED BY <1>4 DEF Min

(* The slot find_slot() chooses: the user's own; else the first free one;   *)
(* else slot 0.                                                             *)
LEMMA Chosen ==
    ASSUME Shape, NEW u
    PROVE  /\ FindSlot(u) \in Slots
           /\ s_table[FindSlot(u)].valid
                => \/ s_table[FindSlot(u)].user_id_lo = u
                   \/ \A i \in Slots : /\ s_table[i].valid
                                      /\ s_table[i].user_id_lo # u
           /\ ~s_table[FindSlot(u)].valid
                => /\ SlotsOf(u) = {}
                   /\ \A i \in Slots : i < FindSlot(u) => s_table[i].valid
<1>1. 0 \in Slots /\ Slots \subseteq Nat
  BY WarnAssumption DEF Slots
<1>2. CASE SlotsOf(u) # {}
  <2>1. FindSlot(u) = Min(SlotsOf(u))
    BY <1>2 DEF FindSlot
  <2>2. Min(SlotsOf(u)) \in SlotsOf(u)
    BY <1>2, LeastSlot DEF SlotsOf
  <2>. QED BY <2>1, <2>2 DEF SlotsOf
<1>3. CASE SlotsOf(u) = {} /\ FreeSlots # {}
  <2>1. FindSlot(u) = Min(FreeSlots)
    BY <1>3 DEF FindSlot
  <2>2. Min(FreeSlots) \in FreeSlots /\ \A y \in FreeSlots : Min(FreeSlots) <= y
    BY <1>3, LeastSlot DEF FreeSlots
  <2>3. PICK m \in Nat : m = Min(FreeSlots)
    BY <1>1, <2>2 DEF FreeSlots
  <2>4. \A i \in Slots : i < m => i \notin FreeSlots
    <3>. SUFFICES ASSUME NEW i \in Slots, i < m, i \in FreeSlots PROVE FALSE
      OBVIOUS
    <3>1. m <= i
      BY <2>2, <2>3
    <3>. QED BY <1>1, <3>1
  <2>. QED BY <1>3, <2>1, <2>2, <2>3, <2>4 DEF FreeSlots
<1>4. CASE SlotsOf(u) = {} /\ FreeSlots = {}
  <2>1. FindSlot(u) = 0
    BY <1>4 DEF FindSlot
  <2>. QED BY <1>1, <1>4, <2>1 DEF FreeSlots, SlotsOf
<1>. QED BY <1>2, <1>3, <1>4

LEMMA FoundSlot ==
    ASSUME NEW u, SlotsOf(u) # {}
    PROVE  /\ Min(SlotsOf(u)) \in Slots
           /\ s_table[Min(SlotsOf(u))].valid
           /\ s_table[Min(SlotsOf(u))].user_id_lo = u
<1>1. Min(SlotsOf(u)) \in SlotsOf(u)
  BY LeastSlot DEF SlotsOf
<1>. QED BY <1>1 DEF SlotsOf

LEMMA ReportedType ==
    ASSUME Shape, NEW u \in Ids \cup {0}
    PROVE  WarningsGet(u) \in Counts
<1>1. CASE SlotsOf(u) # {}
  BY <1>1, FoundSlot DEF WarningsGet, Shape, Entries
<1>2. CASE SlotsOf(u) = {}
  BY <1>2 DEF WarningsGet, Shape
<1>. QED BY <1>1, <1>2

(* What writing one field of one entry, or of one call, does. *)
LEMMA SetValid ==
    ASSUME s_table \in [Slots -> Entries], NEW i \in Slots,
           s_table' = [s_table EXCEPT ![i].valid = TRUE]
    PROVE  /\ s_table' \in [Slots -> Entries]
           /\ s_table'[i].valid
           /\ s_table'[i].user_id_lo = s_table[i].user_id_lo
           /\ s_table'[i].count = s_table[i].count
           /\ \A j \in Slots \ {i} : s_table'[j] = s_table[j]
BY DEF Entries

LEMMA SetName ==
    ASSUME s_table \in [Slots -> Entries], NEW i \in Slots,
           NEW u \in Ids \cup {0},
           s_table' = [s_table EXCEPT ![i].user_id_lo = u]
    PROVE  /\ s_table' \in [Slots -> Entries]
           /\ s_table'[i].valid = s_table[i].valid
           /\ s_table'[i].user_id_lo = u
           /\ s_table'[i].count = s_table[i].count
           /\ \A j \in Slots \ {i} : s_table'[j] = s_table[j]
BY DEF Entries

LEMMA SetCount ==
    ASSUME s_table \in [Slots -> Entries], NEW i \in Slots,
           NEW n \in Counts,
           s_table' = [s_table EXCEPT ![i].count = n]
    PROVE  /\ s_table' \in [Slots -> Entries]
           /\ s_table'[i].valid = s_table[i].valid
           /\ s_table'[i].user_id_lo = s_table[i].user_id_lo
           /\ s_table'[i].count = n
           /\ \A j \in Slots \ {i} : s_table'[j] = s_table[j]
BY DEF Entries

LEMMA SetSlot ==
    ASSUME call \in [Callers -> Orders], NEW c \in Callers,
           NEW i \in Slots,
           call' = [call EXCEPT ![c].slot = i]
    PROVE  /\ call' \in [Callers -> Orders]
           /\ call'[c].slot = i
           /\ call'[c].op = call[c].op /\ call'[c].id = call[c].id
           /\ \A d \in Callers \ {c} : call'[d] = call[d]
BY DEF Orders

LEMMA SetRead ==
    ASSUME call \in [Callers -> Orders], NEW c \in Callers,
           NEW n \in Counts,
           call' = [call EXCEPT ![c].n = n]
    PROVE  /\ call' \in [Callers -> Orders]
           /\ call'[c].slot = call[c].slot /\ call'[c].n = n
           /\ call'[c].op = call[c].op /\ call'[c].id = call[c].id
           /\ \A d \in Callers \ {c} : call'[d] = call[d]
BY DEF Orders

-----------------------------------------------------------------------------
LEMMA ShapeInit == Init => Shape
BY WarnAssumption DEF Init, Shape, Entries, Orders, Blank, NoCall, CallOps,
   Counts, Pcs, Slots

LEMMA ShapeReboot == Shape /\ Reboot => Shape'
BY WarnAssumption DEF Reboot, Shape, Entries, Orders, Blank, NoCall, CallOps,
   Counts, Pcs, Slots

LEMMA GotoType ==
    ASSUME Shape, NEW c \in Callers, NEW from, NEW to \in Pcs,
           Goto(c, from, to)
    PROVE  pc' \in [Callers -> Pcs] /\ Goes(c, from, to)
BY DEF Goto, Shape, Goes

LEMMA SlotType ==
    ASSUME Shape, NEW c \in Callers
    PROVE  /\ Slot(c) \in Slots
           /\ s_table[Slot(c)] \in Entries
           /\ s_table[Slot(c)].valid \in BOOLEAN
           /\ s_table[Slot(c)].user_id_lo \in Ids \cup {0}
           /\ s_table[Slot(c)].count \in Counts
           /\ call[c].id \in Ids \cup {0} /\ call[c].n \in Counts
BY DEF Slot, Shape, Orders, Entries

(* Blame only grows while the tasks run, and names users. *)
LEMMA SpoilType ==
    ASSUME Shape, NEW wrong \in BOOLEAN, NEW S \in SUBSET (Ids \cup {0}),
           Spoil(wrong, S)
    PROVE  /\ spoiled' \subseteq Ids \cup {0} /\ spoiled \subseteq spoiled'
           /\ wrong => S \subseteq spoiled'
BY DEF Spoil, Shape

(* What each step of a caller does, field by field. *)
LEMMA StepStart ==
    ASSUME Shape, CallInv, NEW c \in Callers, NEW op \in Ops, NEW u \in Ids,
           Start(c, op, u)
    PROVE  /\ Shape'
           /\ op \in {"increment", "get", "clear"}
           /\ Goes(c, "idle", CASE op = "increment" -> "find"
                                [] op = "clear" -> "search"
                                [] op = "get" -> "return")
           /\ call'[c].op = op /\ call'[c].id = u
           /\ \A d \in Callers \ {c} : call'[d] = call[d]
           /\ reply' = [reply EXCEPT ![c] = 0]
           /\ spoiled \subseteq spoiled'
           /\ \A d \in Callers : pc[d] # "idle"
                 => {0, u, call[d].id} \subseteq spoiled'
           /\ UNCHANGED <<s_table, nvs, given, passed>>
<1>. DEFINE k == [op |-> op, id |-> u, slot |-> 0, n |-> 0]
            p == CASE op = "increment" -> "find"
                   [] op = "clear" -> "search"
                   [] op = "get" -> "return"
            S == {0, u} \cup {call[d].id : d \in Busy}
            w == Busy # {}
<1>1. op \in {"increment", "get", "clear"}
  BY WarnAssumption
<1>2. k \in Orders /\ k.op = op /\ k.id = u
  BY <1>1, WarnAssumption DEF Orders, CallOps, Slots, Counts
<1>3. p \in Pcs
  BY <1>1 DEF Pcs
<1>4. pc' = [pc EXCEPT ![c] = p] /\ call' = [call EXCEPT ![c] = k]
      /\ pc[c] = "idle" /\ Spoil(w, S)
  BY Zenon DEF Start
<1>5. S \in SUBSET (Ids \cup {0}) /\ w \in BOOLEAN
  BY DEF Busy, CallInv
<1>6. \A d \in Callers : pc[d] # "idle" => w /\ {0, u, call[d].id} \subseteq S
  BY DEF Busy
<1>. HIDE DEF k, p, S, w
<1>7. /\ spoiled' \subseteq Ids \cup {0} /\ spoiled \subseteq spoiled'
      /\ w => S \subseteq spoiled'
  BY <1>4, <1>5, SpoilType
<1>8. pc' \in [Callers -> Pcs] /\ call' \in [Callers -> Orders]
      /\ Goes(c, "idle", p) /\ call'[c] = k
      /\ \A d \in Callers \ {c} : call'[d] = call[d]
  BY <1>2, <1>3, <1>4 DEF Shape, Goes
<1>9. calls' \in 0..MaxCalls
      /\ UNCHANGED <<s_table, nvs, given, passed, reboots>>
      /\ reply' = [reply EXCEPT ![c] = 0]
  BY WarnAssumption DEF Start, Shape
<1>10. reply' \in [Callers -> Counts]
  BY <1>9, WarnAssumption DEF Shape, Counts
<1>11. Shape'
  BY <1>7, <1>8, <1>9, <1>10 DEF Shape
<1>. QED BY <1>1, <1>2, <1>6, <1>7, <1>8, <1>9, <1>11 DEF p

LEMMA StepFind ==
    ASSUME Shape, CallInv, NEW c \in Callers, Find(c)
    PROVE  /\ Shape' /\ Goes(c, "find", "check") /\ Keeps(c)
           /\ call[c].id \in Ids
           /\ Slot(c)' = FindSlot(call[c].id) /\ Slot(c)' \in Slots
           /\ \/ ~s_table[Slot(c)'].valid
              \/ s_table[Slot(c)'].user_id_lo = call[c].id
              \/ {s_table[Slot(c)'].user_id_lo, call[c].id} \subseteq spoiled'
           /\ spoiled \subseteq spoiled' /\ passed \subseteq passed'
           /\ PassesOver(call[c].id) => call[c].id \in passed'
           /\ passed' # passed
                 => PassesOver(call[c].id) /\ passed' \subseteq passed \cup {call[c].id}
           /\ UNCHANGED <<s_table, nvs, given, reply>>
<1>. DEFINE i == FindSlot(call[c].id)
            o == s_table[i].user_id_lo
            w == s_table[i].valid /\ o # call[c].id
<1>1. pc' \in [Callers -> Pcs] /\ Goes(c, "find", "check")
  BY GotoType DEF Find, Pcs
<1>2. i \in Slots
  BY Chosen
<1>3. call[c].id \in Ids
  BY <1>1 DEF CallInv, Goes
<1>4. /\ call \in [Callers -> Orders]
      /\ call' = [call EXCEPT ![c].slot = i]
      /\ Spoil(w, {o, call[c].id})
      /\ passed' = passed \cup {u \in {call[c].id} : PassesOver(u)}
      /\ UNCHANGED <<s_table, nvs, reply, given, calls, reboots>>
  BY DEF Find, Shape
<1>5. o \in Ids \cup {0} /\ w \in BOOLEAN
  BY <1>2 DEF Shape, Entries
<1>6. w \/ ~s_table[i].valid \/ o = call[c].id
  OBVIOUS
<1>. HIDE DEF i, o, w
<1>7. /\ call' \in [Callers -> Orders]
      /\ call'[c].slot = i /\ Keeps(c)
  BY <1>2, <1>4, SetSlot DEF Keeps
<1>8. /\ spoiled' \subseteq Ids \cup {0} /\ spoiled \subseteq spoiled'
      /\ w => {o, call[c].id} \subseteq spoiled'
  BY <1>3, <1>4, <1>5, SpoilType
<1>9. /\ passed \subseteq passed' /\ passed' \subseteq Ids
      /\ PassesOver(call[c].id) => call[c].id \in passed'
      /\ passed' # passed
            => PassesOver(call[c].id) /\ passed' \subseteq passed \cup {call[c].id}
  BY <1>3, <1>4 DEF Shape
<1>10. Shape'
  BY <1>1, <1>4, <1>7, <1>8, <1>9 DEF Shape
<1>11. Slot(c)' = i
  BY <1>7 DEF Slot
<1>12. \/ ~s_table[Slot(c)'].valid
       \/ s_table[Slot(c)'].user_id_lo = call[c].id
       \/ {s_table[Slot(c)'].user_id_lo, call[c].id} \subseteq spoiled'
  BY <1>6, <1>8, <1>11 DEF o
<1>13. Slot(c)' = FindSlot(call[c].id)
  BY <1>11 DEF i
<1>. QED BY <1>1, <1>2, <1>3, <1>4, <1>7, <1>8, <1>9, <1>10, <1>11, <1>12, <1>13

LEMMA StepCheck ==
    ASSUME Shape, NEW c \in Callers, CheckValid(c)
    PROVE  /\ Shape'
           /\ Goes(c, "check", IF s_table[Slot(c)].valid THEN "read" ELSE "enter")
           /\ UNCHANGED <<s_table, nvs, call, reply, given, passed, spoiled>>
<1>. DEFINE p == IF s_table[Slot(c)].valid THEN "read" ELSE "enter"
<1>1. p \in Pcs
  BY DEF Pcs
<1>2. Goto(c, "check", p)
      /\ UNCHANGED <<s_table, nvs, call, reply, given, passed, spoiled, calls, reboots>>
  BY DEF CheckValid, blame
<1>. HIDE DEF p
<1>3. pc' \in [Callers -> Pcs] /\ Goes(c, "check", p)
  BY <1>1, <1>2, GotoType
<1>4. Shape'
  BY <1>2, <1>3 DEF Shape
<1>. QED BY <1>2, <1>3, <1>4 DEF p

LEMMA StepEnter ==
    ASSUME Shape, NEW c \in Callers, EnterSlot(c)
    PROVE  /\ Shape' /\ Goes(c, "enter", "name")
           /\ s_table'[Slot(c)].valid
           /\ s_table'[Slot(c)].user_id_lo = s_table[Slot(c)].user_id_lo
           /\ s_table'[Slot(c)].count = s_table[Slot(c)].count
           /\ \A j \in Slots \ {Slot(c)} : s_table'[j] = s_table[j]
           /\ UNCHANGED <<nvs, call, reply, given, passed, spoiled>>
<1>1. pc' \in [Callers -> Pcs] /\ Goes(c, "enter", "name")
  BY GotoType DEF EnterSlot, Pcs
<1>2. s_table \in [Slots -> Entries] /\ Slot(c) \in Slots
      /\ s_table' = [s_table EXCEPT ![Slot(c)].valid = TRUE]
      /\ UNCHANGED <<nvs, call, reply, given, passed, spoiled, calls, reboots>>
  BY SlotType DEF EnterSlot, Shape, blame
<1>3. /\ s_table' \in [Slots -> Entries]
      /\ s_table'[Slot(c)].valid
      /\ s_table'[Slot(c)].user_id_lo = s_table[Slot(c)].user_id_lo
      /\ s_table'[Slot(c)].count = s_table[Slot(c)].count
      /\ \A j \in Slots \ {Slot(c)} : s_table'[j] = s_table[j]
  BY <1>2, SetValid
<1>4. Shape'
  BY <1>1, <1>2, <1>3 DEF Shape
<1>. QED BY <1>1, <1>2, <1>3, <1>4

LEMMA StepName ==
    ASSUME Shape, NEW c \in Callers, NameSlot(c)
    PROVE  /\ Shape' /\ Goes(c, "name", "load")
           /\ s_table'[Slot(c)].valid = s_table[Slot(c)].valid
           /\ s_table'[Slot(c)].user_id_lo = call[c].id
           /\ s_table'[Slot(c)].count = s_table[Slot(c)].count
           /\ \A j \in Slots \ {Slot(c)} : s_table'[j] = s_table[j]
           /\ UNCHANGED <<nvs, call, reply, given, passed, spoiled>>
<1>1. pc' \in [Callers -> Pcs] /\ Goes(c, "name", "load")
  BY GotoType DEF NameSlot, Pcs
<1>2. s_table \in [Slots -> Entries] /\ Slot(c) \in Slots
      /\ call[c].id \in Ids \cup {0}
      /\ s_table' = [s_table EXCEPT ![Slot(c)].user_id_lo = call[c].id]
      /\ UNCHANGED <<nvs, call, reply, given, passed, spoiled, calls, reboots>>
  BY SlotType DEF NameSlot, Shape, blame
<1>3. /\ s_table' \in [Slots -> Entries]
      /\ s_table'[Slot(c)].valid = s_table[Slot(c)].valid
      /\ s_table'[Slot(c)].user_id_lo = call[c].id
      /\ s_table'[Slot(c)].count = s_table[Slot(c)].count
      /\ \A j \in Slots \ {Slot(c)} : s_table'[j] = s_table[j]
  BY <1>2, SetName
<1>4. Shape'
  BY <1>1, <1>2, <1>3 DEF Shape
<1>. QED BY <1>1, <1>2, <1>3, <1>4

(* The three statements that write a count; some of them may spoil the user. *)
Counted(c, from, to, n, wrong) ==
    /\ Shape' /\ n \in Counts
    /\ Goes(c, from, to)
    /\ s_table'[Slot(c)].valid = s_table[Slot(c)].valid
    /\ s_table'[Slot(c)].user_id_lo = s_table[Slot(c)].user_id_lo
    /\ s_table'[Slot(c)].count = n
    /\ \A j \in Slots \ {Slot(c)} : s_table'[j] = s_table[j]
    /\ spoiled \subseteq spoiled' /\ (wrong => call[c].id \in spoiled')
    /\ UNCHANGED <<nvs, call, reply, given, passed>>

LEMMA StepCount ==
    ASSUME Shape, NEW c \in Callers, NEW n \in Counts,
           NEW from, NEW to \in Pcs, Goto(c, from, to), NEW wrong \in BOOLEAN,
           s_table' = [s_table EXCEPT ![Slot(c)].count = n],
           Spoil(wrong, {call[c].id}),
           UNCHANGED <<nvs, call, reply, given, passed, calls, reboots>>
    PROVE  Counted(c, from, to, n, wrong)
<1>0. Slot(c) \in Slots /\ s_table \in [Slots -> Entries]
      /\ {call[c].id} \in SUBSET (Ids \cup {0})
  BY SlotType DEF Shape
<1>1. pc' \in [Callers -> Pcs] /\ Goes(c, from, to)
  BY GotoType
<1>2. /\ spoiled' \subseteq Ids \cup {0} /\ spoiled \subseteq spoiled'
      /\ wrong => {call[c].id} \subseteq spoiled'
  BY <1>0, SpoilType
<1>3. /\ s_table' \in [Slots -> Entries]
      /\ s_table'[Slot(c)].valid = s_table[Slot(c)].valid
      /\ s_table'[Slot(c)].user_id_lo = s_table[Slot(c)].user_id_lo
      /\ s_table'[Slot(c)].count = n
      /\ \A j \in Slots \ {Slot(c)} : s_table'[j] = s_table[j]
  BY <1>0, SetCount
<1>4. Shape'
  BY <1>1, <1>2, <1>3 DEF Shape
<1>. QED BY <1>1, <1>2, <1>3, <1>4 DEF Counted

LEMMA StepLoad ==
    ASSUME Shape, NEW c \in Callers, LoadCount(c)
    PROVE  Counted(c, "load", "read", WarningsGet(call[c].id),
                   WarningsGet(call[c].id) # nvs[call[c].id])
<1>. DEFINE n == WarningsGet(call[c].id)
            w == n # nvs[call[c].id]
<1>1. n \in Counts /\ w \in BOOLEAN
  BY SlotType, ReportedType
<1>3. /\ Goto(c, "load", "read") /\ "read" \in Pcs
      /\ s_table' = [s_table EXCEPT ![Slot(c)].count = n]
      /\ Spoil(w, {call[c].id})
      /\ UNCHANGED <<nvs, call, reply, given, passed, calls, reboots>>
  BY Zenon DEF LoadCount, Pcs
<1>. HIDE DEF n, w
<1>4. Counted(c, "load", "read", n, w)
  BY <1>1, <1>3, StepCount
<1>. QED BY <1>4 DEF n, w

LEMMA StepStore ==
    ASSUME Shape, NEW c \in Callers, StoreCount(c)
    PROVE  Counted(c, "store", "flush", (call[c].n + 1) % COUNT_MOD,
                   call[c].n + 1 = COUNT_MOD)
<1>. DEFINE n == (call[c].n + 1) % COUNT_MOD
            w == call[c].n + 1 = COUNT_MOD
<1>1. call[c].n \in Nat
  BY WarnAssumption, SlotType DEF Counts
<1>2. n \in Counts /\ w \in BOOLEAN
  BY <1>1, WarnAssumption DEF Counts
<1>3. /\ Goto(c, "store", "flush") /\ "flush" \in Pcs
      /\ s_table' = [s_table EXCEPT ![Slot(c)].count = n]
      /\ Spoil(w, {call[c].id})
      /\ UNCHANGED <<nvs, call, reply, given, passed, calls, reboots>>
  BY Zenon DEF StoreCount, Pcs
<1>. HIDE DEF n, w
<1>4. Counted(c, "store", "flush", n, w)
  BY <1>2, <1>3, StepCount
<1>. QED BY <1>4 DEF n, w

LEMMA StepZero ==
    ASSUME Shape, NEW c \in Callers, ZeroCount(c)
    PROVE  Counted(c, "zero", "flush", 0, FALSE)
<1>2. 0 \in Counts
  BY WarnAssumption DEF Counts
<1>3. /\ Goto(c, "zero", "flush") /\ "flush" \in Pcs
      /\ s_table' = [s_table EXCEPT ![Slot(c)].count = 0]
      /\ UNCHANGED <<nvs, call, reply, given, passed, spoiled, calls, reboots>>
  BY Zenon DEF ZeroCount, Pcs, blame
<1>4. Spoil(FALSE, {call[c].id})
  BY <1>3 DEF Spoil
<1>. QED BY <1>2, <1>3, <1>4, StepCount


LEMMA StepRead ==
    ASSUME Shape, NEW c \in Callers, ReadCount(c)
    PROVE  /\ Shape' /\ Goes(c, "read", "store") /\ Keeps(c)
           /\ Slot(c)' = Slot(c) /\ call'[c].n = s_table[Slot(c)].count
           /\ UNCHANGED <<s_table, nvs, reply, given, passed, spoiled>>
<1>1. pc' \in [Callers -> Pcs] /\ Goes(c, "read", "store")
  BY GotoType DEF ReadCount, Pcs
<1>2. s_table[Slot(c)].count \in Counts
  BY SlotType
<1>3. call \in [Callers -> Orders]
      /\ call' = [call EXCEPT ![c].n = s_table[Slot(c)].count]
      /\ UNCHANGED <<s_table, nvs, reply, given, passed, spoiled, calls, reboots>>
  BY DEF ReadCount, Shape, blame
<1>4. /\ call' \in [Callers -> Orders]
      /\ call'[c].slot = call[c].slot
      /\ call'[c].n = s_table[Slot(c)].count
      /\ Keeps(c)
  BY <1>2, <1>3, SetRead DEF Keeps
<1>5. Shape'
  BY <1>1, <1>3, <1>4 DEF Shape
<1>6. Slot(c)' = Slot(c)
  BY <1>4 DEF Slot
<1>. QED BY <1>1, <1>3, <1>4, <1>5, <1>6

LEMMA StepFlush ==
    ASSUME Shape, CallInv, NEW c \in Callers, Flush(c)
    PROVE  /\ Shape' /\ call[c].id \in Ids
           /\ Goes(c, "flush", IF call[c].op = "clear" THEN "idle" ELSE "return")
           /\ nvs'[s_table[Slot(c)].user_id_lo] = s_table[Slot(c)].count
           /\ \A u \in (Ids \cup {0}) \ {s_table[Slot(c)].user_id_lo} :
                 nvs'[u] = nvs[u]
           /\ given'[call[c].id] =
                  IF call[c].op = "clear" THEN 0 ELSE given[call[c].id] + 1
           /\ \A u \in Ids \ {call[c].id} : given'[u] = given[u]
           /\ UNCHANGED <<s_table, call, reply, passed, spoiled>>
<1>. DEFINE p == IF call[c].op = "clear" THEN "idle" ELSE "return"
            g == IF call[c].op = "clear" THEN 0 ELSE given[call[c].id] + 1
            o == s_table[Slot(c)].user_id_lo
            n == s_table[Slot(c)].count
<1>1. p \in Pcs
  BY DEF Pcs
<1>2. Goto(c, "flush", p)
  BY DEF Flush
<1>3. o \in Ids \cup {0} /\ n \in Counts
  BY SlotType
<1>4. pc[c] = "flush" /\ call[c].id \in Ids
  BY <1>2 DEF Goto, CallInv
<1>5. g \in Nat
  BY <1>4 DEF Shape
<1>6. given' = [given EXCEPT ![call[c].id] = g]
  BY DEF Flush
<1>7. nvs' = [nvs EXCEPT ![o] = n]
      /\ UNCHANGED <<s_table, call, reply, passed, spoiled, calls, reboots>>
  BY DEF Flush, blame
<1>. HIDE DEF p, g, o, n
<1>8. pc' \in [Callers -> Pcs] /\ Goes(c, "flush", p)
  BY <1>1, <1>2, GotoType
<1>9. given' \in [Ids -> Nat] /\ given'[call[c].id] = g
      /\ \A u \in Ids \ {call[c].id} : given'[u] = given[u]
  BY <1>4, <1>5, <1>6 DEF Shape
<1>10. nvs' \in [Ids \cup {0} -> Counts] /\ nvs'[o] = n
      /\ \A u \in (Ids \cup {0}) \ {o} : nvs'[u] = nvs[u]
  BY <1>3, <1>7 DEF Shape
<1>11. Shape'
  BY <1>7, <1>8, <1>9, <1>10 DEF Shape
<1>. QED BY <1>4, <1>7, <1>8, <1>9, <1>10, <1>11 DEF p, g, o, n

LEMMA StepReturn ==
    ASSUME Shape, NEW c \in Callers, Return(c)
    PROVE  /\ Shape' /\ Goes(c, "return", "idle")
           /\ reply' = [reply EXCEPT ![c] = IF call[c].op = "get"
                                            THEN WarningsGet(call[c].id)
                                            ELSE s_table[Slot(c)].count]
           /\ UNCHANGED <<s_table, nvs, call, given, passed, spoiled>>
<1>. DEFINE r == IF call[c].op = "get" THEN WarningsGet(call[c].id)
                                       ELSE s_table[Slot(c)].count
<1>1. pc' \in [Callers -> Pcs] /\ Goes(c, "return", "idle")
  BY GotoType DEF Return, Pcs
<1>3. r \in Counts
  BY SlotType, ReportedType
<1>4. reply' = [reply EXCEPT ![c] = r]
      /\ UNCHANGED <<s_table, nvs, call, given, passed, spoiled, calls, reboots>>
  BY DEF Return, blame
<1>. HIDE DEF r
<1>5. reply' \in [Callers -> Counts]
  BY <1>3, <1>4 DEF Shape
<1>6. Shape'
  BY <1>1, <1>4, <1>5 DEF Shape
<1>. QED BY <1>1, <1>4, <1>6 DEF r

LEMMA StepFound ==
    ASSUME Shape, NEW c \in Callers, SearchFound(c)
    PROVE  /\ Shape' /\ Goes(c, "search", "zero") /\ Keeps(c)
           /\ Slot(c)' \in Slots /\ s_table[Slot(c)'].valid
           /\ s_table[Slot(c)'].user_id_lo = call[c].id
           /\ UNCHANGED <<s_table, nvs, reply, given, passed, spoiled>>
<1>. DEFINE i == Min(SlotsOf(call[c].id))
<1>1. pc' \in [Callers -> Pcs] /\ Goes(c, "search", "zero")
  BY GotoType DEF SearchFound, Pcs
<1>2. i \in Slots /\ s_table[i].valid /\ s_table[i].user_id_lo = call[c].id
  BY FoundSlot DEF SearchFound
<1>3. call \in [Callers -> Orders] /\ call' = [call EXCEPT ![c].slot = i]
      /\ UNCHANGED <<s_table, nvs, reply, given, passed, spoiled, calls, reboots>>
  BY DEF SearchFound, Shape, blame
<1>. HIDE DEF i
<1>4. call' \in [Callers -> Orders] /\ call'[c].slot = i /\ Keeps(c)
  BY <1>2, <1>3, SetSlot DEF Keeps
<1>5. Shape'
  BY <1>1, <1>3, <1>4 DEF Shape
<1>6. Slot(c)' = i
  BY <1>4 DEF Slot
<1>. QED BY <1>1, <1>2, <1>3, <1>4, <1>5, <1>6

LEMMA StepMissed ==
    ASSUME Shape, CallInv, NEW c \in Callers, SearchMissed(c)
    PROVE  /\ Shape' /\ Goes(c, "search", "idle")
           /\ call[c].id \in Ids
           /\ given' = [given EXCEPT ![call[c].id] = 0]
           /\ spoiled \subseteq spoiled'
           /\ nvs[call[c].id] # 0 => call[c].id \in spoiled'
           /\ UNCHANGED <<s_table, nvs, call, reply, passed>>
<1>. DEFINE w == nvs[call[c].id] # 0
<1>1. pc' \in [Callers -> Pcs] /\ Goes(c, "search", "idle")
  BY GotoType DEF SearchMissed, Pcs
<1>2. call[c].id \in Ids /\ w \in BOOLEAN
  BY <1>1 DEF CallInv, Goes
<1>3. given' = [given EXCEPT ![call[c].id] = 0] /\ Spoil(w, {call[c].id})
      /\ UNCHANGED <<s_table, nvs, call, reply, passed, calls, reboots>>
  BY Zenon DEF SearchMissed
<1>. HIDE DEF w
<1>4. /\ spoiled' \subseteq Ids \cup {0} /\ spoiled \subseteq spoiled'
      /\ w => {call[c].id} \subseteq spoiled'
  BY <1>2, <1>3, SpoilType
<1>5. given' \in [Ids -> Nat]
  BY <1>2, <1>3 DEF Shape
<1>6. Shape'
  BY <1>1, <1>3, <1>4, <1>5 DEF Shape
<1>. QED BY <1>1, <1>2, <1>3, <1>4, <1>6 DEF w

-----------------------------------------------------------------------------
LEMMA CallInit == Init => CallInv
BY DEF Init, CallInv, Filling

LEMMA CallReboot == Reboot => CallInv'
BY DEF Reboot, CallInv, Filling

(* A caller's step leaves the other calls as they are. *)
LEMMA CallOthers ==
    ASSUME CallInv, NEW c \in Callers, NEW from, NEW to, Goes(c, from, to),
           \A d \in Callers \ {c} : call'[d] = call[d],
           /\ to # "idle" => call'[c].id \in Ids
           /\ to \in {"find", "check", "enter"} \cup Filling
                 => call'[c].op = "increment"
           /\ to \in {"search", "zero"} => call'[c].op = "clear"
           /\ to = "flush" => call'[c].op \in {"increment", "clear"}
           /\ to = "return" => call'[c].op \in {"increment", "get"}
    PROVE  CallInv'
BY DEF CallInv, Goes

LEMMA CallSame ==
    ASSUME CallInv, NEW c \in Callers, NEW from, NEW to, Goes(c, from, to),
           Keeps(c) \/ call' = call, from # "idle",
           /\ to \in {"find", "check", "enter"} \cup Filling
                 => from \in {"find", "check", "enter"} \cup Filling
           /\ to = "zero" => from = "search"
           /\ to # "search"
           /\ to = "flush" => from \in {"store", "zero"}
           /\ to = "return" => from = "flush" /\ call[c].op # "clear"
    PROVE  CallInv'
<1>1. /\ call'[c].op = call[c].op /\ call'[c].id = call[c].id
      /\ \A d \in Callers \ {c} : call'[d] = call[d]
  BY DEF Keeps
<1>2. /\ pc[c] = from /\ call[c].id \in Ids
      /\ from \in {"find", "check", "enter"} \cup Filling
            => call[c].op = "increment"
      /\ from \in {"search", "zero"} => call[c].op = "clear"
      /\ from = "flush" => call[c].op \in {"increment", "clear"}
  BY DEF CallInv, Goes
<1>3. /\ to # "idle" => call'[c].id \in Ids
      /\ to \in {"find", "check", "enter"} \cup Filling
            => call'[c].op = "increment"
      /\ to \in {"search", "zero"} => call'[c].op = "clear"
      /\ to = "flush" => call'[c].op \in {"increment", "clear"}
      /\ to = "return" => call'[c].op \in {"increment", "get"}
  BY <1>1, <1>2 DEF Filling
<1>. QED BY <1>1, <1>3, CallOthers

LEMMA CallStep ==
    ASSUME Shape, CallInv, NEW c \in Callers, Step(c)
    PROVE  Shape' /\ CallInv'
<1>. USE DEF Filling
<1>1. ASSUME NEW op \in Ops, NEW u \in Ids, Start(c, op, u)
      PROVE  Shape' /\ CallInv'
  <2>. DEFINE p == CASE op = "increment" -> "find"
                     [] op = "clear" -> "search"
                     [] op = "get" -> "return"
  <2>1. /\ Shape' /\ op \in {"increment", "get", "clear"}
        /\ Goes(c, "idle", p) /\ call'[c].op = op /\ call'[c].id = u
        /\ \A d \in Callers \ {c} : call'[d] = call[d]
    BY <1>1, StepStart
  <2>2. \/ op = "increment" /\ p = "find"
        \/ op = "clear" /\ p = "search"
        \/ op = "get" /\ p = "return"
    BY <2>1
  <2>. HIDE DEF p
  <2>. QED BY <2>1, <2>2, CallOthers
<1>2. CASE Find(c)
  BY <1>2, StepFind, CallSame
<1>3. CASE CheckValid(c)
  <2>. DEFINE p == IF s_table[Slot(c)].valid THEN "read" ELSE "enter"
  <2>1. Shape' /\ Goes(c, "check", p) /\ call' = call
    BY <1>3, StepCheck
  <2>2. p \in {"read", "enter"}
    OBVIOUS
  <2>. HIDE DEF p
  <2>. QED BY <2>1, <2>2, CallSame
<1>4. CASE EnterSlot(c)
  BY <1>4, StepEnter, CallSame
<1>5. CASE NameSlot(c)
  BY <1>5, StepName, CallSame
<1>6. ASSUME NEW n, NEW w, \/ Counted(c, "load", "read", n, w)
                           \/ Counted(c, "store", "flush", n, w)
                           \/ Counted(c, "zero", "flush", n, w)
      PROVE  Shape' /\ CallInv'
  BY <1>6, CallSame DEF Counted
<1>7. CASE LoadCount(c)
  BY <1>6, <1>7, StepLoad
<1>8. CASE StoreCount(c)
  BY <1>6, <1>8, StepStore
<1>9. CASE ZeroCount(c)
  BY <1>6, <1>9, StepZero
<1>10. CASE ReadCount(c)
  BY <1>10, StepRead, CallSame
<1>11. CASE Flush(c)
  <2>. DEFINE p == IF call[c].op = "clear" THEN "idle" ELSE "return"
  <2>1. Shape' /\ Goes(c, "flush", p) /\ call' = call
    BY <1>11, StepFlush
  <2>2. p = "idle" \/ (p = "return" /\ call[c].op # "clear")
    OBVIOUS
  <2>. HIDE DEF p
  <2>. QED BY <2>1, <2>2, CallSame
<1>12. CASE Return(c)
  BY <1>12, StepReturn, CallSame
<1>13. CASE SearchFound(c)
  BY <1>13, StepFound, CallSame
<1>14. CASE SearchMissed(c)
  BY <1>14, StepMissed, CallSame
<1>. QED
  BY <1>1, <1>2, <1>3, <1>4, <1>5, <1>7, <1>8, <1>9, <1>10, <1>11, <1>12,
     <1>13, <1>14 DEF Step

LEMMA CallKept == Shape /\ CallInv /\ UNCHANGED vars => Shape' /\ CallInv'
BY DEF vars, blame, Shape, CallInv

LEMMA ShapeAndCalls == Spec => [](Shape /\ CallInv)
<1>1. Init => Shape /\ CallInv
  BY ShapeInit, CallInit
<1>2. Shape /\ CallInv /\ [Next]_vars => Shape' /\ CallInv'
  BY CallStep, CallKept, ShapeReboot, CallReboot DEF Next
<1>. QED BY <1>1, <1>2, PTL DEF Spec

LEMMA ShapeIsTyped == Shape => TypeOK
<1>a. Ids \cup {0} \subseteq Nat /\ Slots \subseteq Nat
  BY WarnAssumption DEF Slots
<1>b. /\ Entry = [valid : BOOLEAN, user_id_lo : Nat, count : Counts]
      /\ Call = [op : CallOps, id : Nat, slot : Nat, n : Counts]
  BY DEF Entry, Call, CallOps, Counts
<1>1. Entries \subseteq Entry
  BY <1>a, <1>b DEF Entries
<1>2. \A k \in Orders : k \in Call /\ k.slot \in Slots
  BY <1>a, <1>b DEF Orders
<1>3. Shape => \A c \in Callers : call[c] \in Orders
  BY DEF Shape
<1>4. Shape => call \in [Callers -> Call]
  BY <1>2, <1>3 DEF Shape
<1>. QED BY <1>1, <1>2, <1>3, <1>4 DEF Shape, TypeOK, Counts

(* The fields of an entry and of a call stay in their ranges, a slot number  *)
(* is one of the table's and flash has keys of users only, whatever the      *)
(* tasks do to each other (warnings.c has no lock).                          *)
THEOREM TypeCorrect == Spec => []TypeOK
BY ShapeAndCalls, ShapeIsTyped, PTL

-----------------------------------------------------------------------------
(* Overlapping calls, and which entries are in use. *)
LEMMA ApartInit == Init => ApartInv
BY DEF Init, ApartInv

LEMMA ApartReboot == Shape /\ Reboot => ApartInv'
BY DEF Reboot, ApartInv

LEMMA ApartKept == ApartInv /\ UNCHANGED vars => ApartInv'
BY DEF ApartInv, vars, blame

LEMMA ApartSame ==
    ASSUME ApartInv, NEW c \in Callers, NEW from, NEW to, Goes(c, from, to),
           from # "idle", Keeps(c) \/ call' = call,
           spoiled \subseteq spoiled', passed' \subseteq spoiled'
    PROVE  ApartInv'
<1>1. \A d \in Callers : call'[d].id = call[d].id
  BY DEF Keeps
<1>2. \A d \in Callers : pc'[d] # "idle" => pc[d] # "idle"
  BY DEF Goes
<1>. QED BY <1>1, <1>2 DEF ApartInv

LEMMA ApartStep ==
    ASSUME Shape, CallInv, ApartInv, NEW c \in Callers, Step(c)
    PROVE  ApartInv'
<1>0. passed \subseteq spoiled
  BY DEF ApartInv
<1>1. ASSUME NEW op \in Ops, NEW u \in Ids, Start(c, op, u)
      PROVE  ApartInv'
  <2>. DEFINE p == CASE op = "increment" -> "find"
                     [] op = "clear" -> "search"
                     [] op = "get" -> "return"
  <2>1. /\ Goes(c, "idle", p) /\ call'[c].id = u
        /\ \A d \in Callers \ {c} : call'[d] = call[d]
        /\ spoiled \subseteq spoiled' /\ passed' = passed
        /\ \A d \in Callers : pc[d] # "idle"
              => {0, u, call[d].id} \subseteq spoiled'
    BY <1>1, StepStart
  <2>. HIDE DEF p
  <2>2. passed' \subseteq spoiled'
    BY <1>0, <2>1
  <2>3. ASSUME NEW a \in Callers, NEW b \in Callers, a # b,
               pc'[a] # "idle", pc'[b] # "idle"
        PROVE  call'[a].id \in spoiled' /\ 0 \in spoiled'
    BY <2>1, <2>3 DEF Goes
  <2>. QED BY <2>2, <2>3 DEF ApartInv
<1>2. CASE Find(c)
  <2>1. /\ Goes(c, "find", "check") /\ Keeps(c) /\ spoiled \subseteq spoiled'
        /\ passed' # passed
              => PassesOver(call[c].id) /\ passed' \subseteq passed \cup {call[c].id}
    BY <1>2, StepFind
  <2>2. ASSUME PassesOver(call[c].id) PROVE call[c].id \in spoiled
    <3>1. PICK d \in Callers : /\ pc[d] \in {"enter", "name"}
                               /\ call[d].id = call[c].id
      BY <2>2 DEF PassesOver
    <3>. QED BY <2>1, <3>1 DEF ApartInv, Goes
  <2>3. passed' \subseteq spoiled'
    BY <1>0, <2>1, <2>2
  <2>. QED BY <2>1, <2>3, ApartSame
<1>3. ASSUME NEW n, NEW w, \/ Counted(c, "load", "read", n, w)
                           \/ Counted(c, "store", "flush", n, w)
                           \/ Counted(c, "zero", "flush", n, w)
      PROVE  ApartInv'
  BY <1>0, <1>3, ApartSame DEF Counted
<1>4. CASE CheckValid(c)
  BY <1>0, <1>4, StepCheck, ApartSame
<1>5. CASE EnterSlot(c)
  BY <1>0, <1>5, StepEnter, ApartSame
<1>6. CASE NameSlot(c)
  BY <1>0, <1>6, StepName, ApartSame
<1>7. CASE LoadCount(c)
  BY <1>3, <1>7, StepLoad
<1>8. CASE StoreCount(c)
  BY <1>3, <1>8, StepStore
<1>9. CASE ZeroCount(c)
  BY <1>3, <1>9, StepZero
<1>10. CASE ReadCount(c)
  BY <1>0, <1>10, StepRead, ApartSame
<1>11. CASE Flush(c)
  BY <1>0, <1>11, StepFlush, ApartSame
<1>12. CASE Return(c)
  BY <1>0, <1>12, StepReturn, ApartSame
<1>13. CASE SearchFound(c)
  BY <1>0, <1>13, StepFound, ApartSame
<1>14. CASE SearchMissed(c)
  BY <1>0, <1>14, StepMissed, ApartSame
<1>. QED
  BY <1>1, <1>2, <1>4, <1>5, <1>6, <1>7, <1>8, <1>9, <1>10, <1>11, <1>12,
     <1>13, <1>14 DEF Step

LEMMA FirstInit == Init => FirstInv
BY DEF Init, FirstInv, Blank, Filling

LEMMA FirstReboot == Reboot => FirstInv'
BY DEF Reboot, FirstInv, Blank, Filling

LEMMA FirstKept == FirstInv /\ UNCHANGED vars => FirstInv'
BY DEF FirstInv, Slot, vars

(* A step that takes no new entry. *)
LEMMA FirstSame ==
    ASSUME FirstInv, NEW c \in Callers, NEW from, NEW to, Goes(c, from, to),
           \A d \in Callers \ {c} : call'[d] = call[d],
           \A i \in Slots : /\ s_table'[i].valid = s_table[i].valid
                            /\ ~s_table[i].valid
                                  => s_table'[i].user_id_lo = s_table[i].user_id_lo,
           \A d \in Callers : Slot(d)' \in Slots,
           /\ to \in Filling \cup {"zero", "flush"} => s_table[Slot(c)'].valid
           /\ to \in {"check", "enter"} /\ ~s_table[Slot(c)'].valid
                 => \A i \in Slots : i < Slot(c)' => s_table[i].valid
    PROVE  FirstInv'
<1>1. \A i, j \in Slots : i < j /\ s_table'[j].valid => s_table'[i].valid
  BY DEF FirstInv
<1>2. \A i \in Slots : ~s_table'[i].valid => s_table'[i].user_id_lo = 0
  BY DEF FirstInv
<1>3. ASSUME NEW d \in Callers
      PROVE  /\ pc'[d] \in Filling \cup {"zero", "flush"} => s_table'[Slot(d)'].valid
             /\ pc'[d] \in {"check", "enter"} /\ ~s_table'[Slot(d)'].valid
                   => \A i \in Slots : i < Slot(d)' => s_table'[i].valid
  <2>1. CASE d = c
    BY <2>1 DEF Goes
  <2>2. CASE d # c
    <3>1. pc'[d] = pc[d] /\ Slot(d)' = Slot(d)
      BY <2>2 DEF Goes, Slot
    <3>2. /\ pc[d] \in Filling \cup {"zero", "flush"} => s_table[Slot(d)].valid
          /\ pc[d] \in {"check", "enter"} /\ ~s_table[Slot(d)].valid
                => \A i \in Slots : i < Slot(d) => s_table[i].valid
      BY DEF FirstInv
    <3>. QED BY <3>1, <3>2
  <2>. QED BY <2>1, <2>2
<1>. QED BY <1>1, <1>2, <1>3 DEF FirstInv

LEMMA FirstEnter ==
    ASSUME Shape, FirstInv, NEW c \in Callers, EnterSlot(c)
    PROVE  FirstInv'
<1>. DEFINE k == Slot(c)
<1>1. /\ Goes(c, "enter", "name") /\ k \in Slots
      /\ s_table'[k].valid
      /\ \A j \in Slots \ {k} : s_table'[j] = s_table[j]
      /\ call' = call
      /\ \A d \in Callers : Slot(d) \in Slots
  BY StepEnter, SlotType
<1>2. ~s_table[k].valid => \A i \in Slots : i < k => s_table[i].valid
  BY <1>1 DEF FirstInv, Goes
<1>3. \A d \in Callers : Slot(d)' = Slot(d)
  BY <1>1 DEF Slot
<1>. HIDE DEF k
<1>4. \A i \in Slots : s_table[i].valid => s_table'[i].valid
  BY <1>1
<1>5. ASSUME NEW i \in Slots, NEW j \in Slots, i < j, s_table'[j].valid
      PROVE  s_table'[i].valid
  <2>1. CASE j = k /\ ~s_table[k].valid
    BY <1>2, <1>4, <1>5, <2>1
  <2>2. CASE s_table[j].valid
    BY <1>4, <1>5, <2>2 DEF FirstInv
  <2>. QED BY <1>1, <1>5, <2>1, <2>2
<1>6. \A i \in Slots : ~s_table'[i].valid => s_table'[i].user_id_lo = 0
  BY <1>1 DEF FirstInv
<1>7. ASSUME NEW d \in Callers
      PROVE  /\ pc'[d] \in Filling \cup {"zero", "flush"} => s_table'[Slot(d)'].valid
             /\ pc'[d] \in {"check", "enter"} /\ ~s_table'[Slot(d)'].valid
                   => \A i \in Slots : i < Slot(d)' => s_table'[i].valid
  <2>1. CASE d = c
    BY <1>1, <1>3, <2>1 DEF Goes, k
  <2>2. CASE d # c
    <3>1. pc'[d] = pc[d] /\ Slot(d)' = Slot(d)
      BY <1>1, <1>3, <2>2 DEF Goes
    <3>2. /\ pc[d] \in Filling \cup {"zero", "flush"} => s_table[Slot(d)].valid
          /\ pc[d] \in {"check", "enter"} /\ ~s_table[Slot(d)].valid
                => \A i \in Slots : i < Slot(d) => s_table[i].valid
      BY DEF FirstInv
    <3>. QED BY <1>1, <1>4, <3>1, <3>2
  <2>. QED BY <2>1, <2>2
<1>. QED BY <1>5, <1>6, <1>7 DEF FirstInv

LEMMA FirstStep ==
    ASSUME Shape, CallInv, FirstInv, NEW c \in Callers, Step(c)
    PROVE  FirstInv'
<1>. USE DEF Filling
<1>0. /\ \A d \in Callers : Slot(d) \in Slots
      /\ pc[c] \in Filling \cup {"zero", "flush"} => s_table[Slot(c)].valid
      /\ pc[c] \in {"check", "enter"} /\ ~s_table[Slot(c)].valid
            => \A i \in Slots : i < Slot(c) => s_table[i].valid
  BY SlotType DEF FirstInv
<1>s. \A d \in Callers : Shape' => Slot(d)' \in Slots
  BY DEF Shape, Orders, Slot
<1>k. call' = call => Slot(c)' = Slot(c)
  BY DEF Slot
<1>1. ASSUME NEW op \in Ops, NEW u \in Ids, Start(c, op, u)
      PROVE  FirstInv'
  <2>. DEFINE p == CASE op = "increment" -> "find"
                     [] op = "clear" -> "search"
                     [] op = "get" -> "return"
  <2>1. /\ Shape' /\ op \in {"increment", "get", "clear"}
        /\ Goes(c, "idle", p) /\ s_table' = s_table
        /\ \A d \in Callers \ {c} : call'[d] = call[d]
    BY <1>1, StepStart
  <2>2. p \in {"find", "search", "return"}
    BY <2>1
  <2>. HIDE DEF p
  <2>. QED BY <1>s, <2>1, <2>2, FirstSame
<1>2. CASE Find(c)
  <2>1. /\ Shape' /\ Goes(c, "find", "check") /\ s_table' = s_table
        /\ \A d \in Callers \ {c} : call'[d] = call[d]
        /\ Slot(c)' = FindSlot(call[c].id)
    BY <1>2, StepFind DEF Keeps
  <2>2. ~s_table[Slot(c)'].valid
           => \A i \in Slots : i < Slot(c)' => s_table[i].valid
    BY <2>1, Chosen
  <2>. QED BY <1>s, <2>1, <2>2, FirstSame
<1>3. CASE CheckValid(c)
  <2>. DEFINE p == IF s_table[Slot(c)].valid THEN "read" ELSE "enter"
  <2>1. Shape' /\ Goes(c, "check", p) /\ call' = call /\ s_table' = s_table
    BY <1>3, StepCheck
  <2>2. (p = "read" /\ s_table[Slot(c)].valid) \/ p = "enter"
    OBVIOUS
  <2>3. pc[c] = "check"
    BY <2>1 DEF Goes
  <2>. HIDE DEF p
  <2>. QED BY <1>0, <1>s, <1>k, <2>1, <2>2, <2>3, FirstSame
<1>4. CASE EnterSlot(c)
  BY <1>4, FirstEnter
<1>5. CASE NameSlot(c)
  <2>1. /\ Shape' /\ Goes(c, "name", "load") /\ call' = call
        /\ s_table'[Slot(c)].valid = s_table[Slot(c)].valid
        /\ \A j \in Slots \ {Slot(c)} : s_table'[j] = s_table[j]
        /\ s_table[Slot(c)].valid
    BY <1>0, <1>5, StepName DEF Goes
  <2>. QED BY <1>s, <1>k, <2>1, FirstSame
<1>6. ASSUME NEW n, NEW w, \/ Counted(c, "load", "read", n, w)
                           \/ Counted(c, "store", "flush", n, w)
                           \/ Counted(c, "zero", "flush", n, w)
      PROVE  FirstInv'
  <2>1. PICK from, to : /\ Counted(c, from, to, n, w)
                        /\ from \in {"load", "store", "zero"}
                        /\ to \in {"read", "flush"}
    BY <1>6
  <2>2. /\ Shape' /\ Goes(c, from, to) /\ call' = call
        /\ s_table'[Slot(c)].valid = s_table[Slot(c)].valid
        /\ s_table'[Slot(c)].user_id_lo = s_table[Slot(c)].user_id_lo
        /\ \A j \in Slots \ {Slot(c)} : s_table'[j] = s_table[j]
    BY <2>1 DEF Counted
  <2>3. s_table[Slot(c)].valid
    BY <1>0, <2>1, <2>2 DEF Goes
  <2>. QED BY <1>s, <1>k, <2>1, <2>2, <2>3, FirstSame
<1>7. CASE LoadCount(c)
  BY <1>6, <1>7, StepLoad
<1>8. CASE StoreCount(c)
  BY <1>6, <1>8, StepStore
<1>9. CASE ZeroCount(c)
  BY <1>6, <1>9, StepZero
<1>10. CASE ReadCount(c)
  <2>1. /\ Shape' /\ Goes(c, "read", "store") /\ s_table' = s_table
        /\ \A d \in Callers \ {c} : call'[d] = call[d]
        /\ Slot(c)' = Slot(c) /\ s_table[Slot(c)].valid
    BY <1>0, <1>10, StepRead DEF Keeps, Goes
  <2>. QED BY <1>s, <2>1, FirstSame
<1>11. CASE Flush(c)
  <2>. DEFINE p == IF call[c].op = "clear" THEN "idle" ELSE "return"
  <2>1. Shape' /\ Goes(c, "flush", p) /\ call' = call /\ s_table' = s_table
    BY <1>11, StepFlush
  <2>2. p \in {"idle", "return"}
    OBVIOUS
  <2>. HIDE DEF p
  <2>. QED BY <1>s, <2>1, <2>2, FirstSame
<1>12. CASE Return(c)
  BY <1>s, <1>12, StepReturn, FirstSame
<1>13. CASE SearchFound(c)
  <2>1. /\ Shape' /\ Goes(c, "search", "zero") /\ s_table' = s_table
        /\ \A d \in Callers \ {c} : call'[d] = call[d]
        /\ s_table[Slot(c)'].valid
    BY <1>13, StepFound DEF Keeps
  <2>. QED BY <1>s, <2>1, FirstSame
<1>14. CASE SearchMissed(c)
  BY <1>s, <1>14, StepMissed, FirstSame
<1>. QED
  BY <1>1, <1>2, <1>3, <1>4, <1>5, <1>7, <1>8, <1>9, <1>10, <1>11, <1>12,
     <1>13, <1>14 DEF Step

-----------------------------------------------------------------------------
(* One entry for each user. *)
LEMMA UniqueInit == Init => UniqueInv
BY DEF Init, UniqueInv, Making, Blank

LEMMA UniqueReboot == Reboot => UniqueInv'
BY DEF Reboot, UniqueInv, Making, Blank

LEMMA UniqueKept == UniqueInv /\ UNCHANGED vars => UniqueInv'
BY DEF UniqueInv, Making, Unnamed, Slot, vars, blame

(* A step that names nothing and makes no call one that is going to. *)
LEMMA UniqueSame ==
    ASSUME UniqueInv, NEW c \in Callers, NEW from, NEW to, Goes(c, from, to),
           from # "name",
           \A d \in Callers \ {c} : call'[d] = call[d],
           \A i \in Slots : /\ s_table'[i].valid = s_table[i].valid
                            /\ s_table'[i].user_id_lo = s_table[i].user_id_lo,
           \A d \in Callers : Slot(d) \in Slots /\ Slot(d)' \in Slots,
           passed' = passed,
           Making(c)' => /\ Making(c)
                         /\ Slot(c)' = Slot(c) /\ call'[c].id = call[c].id
    PROVE  UniqueInv'
<1>1. \A i \in Slots : Unnamed(i) => Unnamed(i)'
  BY DEF Unnamed, Goes, Slot
<1>2. ASSUME NEW d \in Callers, Making(d)'
      PROVE  /\ Making(d)
             /\ Slot(d)' = Slot(d) /\ call'[d].id = call[d].id
  <2>1. CASE d = c
    BY <1>2, <2>1
  <2>2. CASE d # c
    <3>1. pc'[d] = pc[d] /\ call'[d] = call[d] /\ Slot(d)' = Slot(d)
      BY <2>2 DEF Goes, Slot
    <3>. QED BY <1>2, <3>1 DEF Making
  <2>. QED BY <2>1, <2>2
<1>3. ASSUME NEW i \in Slots, NEW j \in Slots, i # j,
             s_table'[i].valid, s_table'[j].valid,
             s_table'[i].user_id_lo = s_table'[j].user_id_lo
      PROVE  \/ s_table'[i].user_id_lo \in passed'
             \/ s_table'[i].user_id_lo = 0 /\ (Unnamed(i)' \/ Unnamed(j)')
  BY <1>1, <1>3 DEF UniqueInv
<1>4. ASSUME NEW d \in Callers, NEW j \in Slots, Making(d)', j # Slot(d)',
             s_table'[j].valid, s_table'[j].user_id_lo = call'[d].id
      PROVE  call'[d].id \in passed' \/ (call'[d].id = 0 /\ Unnamed(j)')
  BY <1>1, <1>2, <1>4 DEF UniqueInv
<1>5. ASSUME NEW d \in Callers, NEW e \in Callers, Making(d)', Making(e)',
             call'[d].id = call'[e].id, Slot(d)' # Slot(e)'
      PROVE  call'[d].id \in passed'
  <2>1. Making(d) /\ Slot(d)' = Slot(d) /\ call'[d].id = call[d].id
    BY <1>2, <1>5
  <2>2. Making(e) /\ Slot(e)' = Slot(e) /\ call'[e].id = call[e].id
    BY <1>2, <1>5
  <2>. QED BY <1>5, <2>1, <2>2 DEF UniqueInv
<1>. HIDE DEF UniqueInv
<1>. QED BY <1>3, <1>4, <1>5 DEF UniqueInv

(* A scan that finds no entry of the user's takes the slot that every such  *)
(* call has, or passes it over.                                             *)
LEMMA UniqueFind ==
    ASSUME Shape, CallInv, FirstInv, UniqueInv, NEW c \in Callers, Find(c)
    PROVE  UniqueInv'
<1>. DEFINE k == Slot(c)'
            u == call[c].id
<1>1. /\ Goes(c, "find", "check") /\ call'[c].id = u
      /\ \A d \in Callers \ {c} : call'[d] = call[d]
      /\ k = FindSlot(u) /\ k \in Slots
      /\ passed \subseteq passed' /\ (PassesOver(u) => u \in passed')
      /\ s_table' = s_table
      /\ \A d \in Callers : Slot(d) \in Slots
  BY StepFind, SlotType DEF Keeps
<1>2. ~s_table[k].valid
         => SlotsOf(u) = {} /\ \A i \in Slots : i < k => s_table[i].valid
  BY <1>1, Chosen
<1>3. ASSUME NEW d \in Callers \ {c}
      PROVE  pc'[d] = pc[d] /\ call'[d] = call[d] /\ Slot(d)' = Slot(d)
             /\ (Making(d)' <=> Making(d))
  BY <1>1 DEF Goes, Slot, Making
<1>4. Making(c)' => ~s_table[k].valid
  BY <1>1 DEF Making, Goes
<1>5. \A i \in Slots : Unnamed(i) => Unnamed(i)'
  BY <1>1, <1>3 DEF Unnamed, Goes
<1>6. ASSUME Making(c)', NEW d \in Callers \ {c}, Making(d), call[d].id = u,
             Slot(d) # k
      PROVE  u \in passed'
  <2>1. CASE pc[d] \in {"enter", "name"}
    BY <1>1, <1>2, <1>4, <1>6, <2>1 DEF PassesOver
  <2>2. CASE pc[d] = "check" /\ ~s_table[Slot(d)].valid
    <3>1. \A i \in Slots : i < Slot(d) => s_table[i].valid
      BY <2>2 DEF FirstInv
    <3>2. ~(k < Slot(d)) /\ ~(Slot(d) < k)
      BY <1>1, <1>2, <1>4, <1>6, <2>2, <3>1
    <3>3. k \in Nat /\ Slot(d) \in Nat
      BY <1>1, WarnAssumption DEF Slots
    <3>4. k = Slot(d)
      <4>. HIDE DEF k
      <4>. QED BY <3>2, <3>3
    <3>. QED BY <1>6, <3>4
  <2>. QED BY <1>6, <2>1, <2>2 DEF Making
<1>. HIDE DEF k, u
<1>7. ASSUME NEW i \in Slots, NEW j \in Slots, i # j,
             s_table'[i].valid, s_table'[j].valid,
             s_table'[i].user_id_lo = s_table'[j].user_id_lo
      PROVE  \/ s_table'[i].user_id_lo \in passed'
             \/ s_table'[i].user_id_lo = 0 /\ (Unnamed(i)' \/ Unnamed(j)')
  BY <1>1, <1>5, <1>7 DEF UniqueInv
<1>8. ASSUME NEW d \in Callers, NEW j \in Slots, Making(d)', j # Slot(d)',
             s_table'[j].valid, s_table'[j].user_id_lo = call'[d].id
      PROVE  call'[d].id \in passed' \/ (call'[d].id = 0 /\ Unnamed(j)')
  <2>1. CASE d = c
    BY <1>1, <1>2, <1>4, <1>8, <2>1 DEF SlotsOf
  <2>2. CASE d # c
    <3>1. Making(d) /\ call'[d] = call[d] /\ Slot(d)' = Slot(d)
      BY <1>3, <1>8, <2>2
    <3>. QED BY <1>1, <1>5, <1>8, <3>1 DEF UniqueInv
  <2>. QED BY <2>1, <2>2
<1>9. ASSUME NEW d \in Callers, NEW e \in Callers, Making(d)', Making(e)',
             call'[d].id = call'[e].id, Slot(d)' # Slot(e)'
      PROVE  call'[d].id \in passed'
  <2>1. CASE d = c /\ e # c
    BY <1>1, <1>3, <1>6, <1>9, <2>1 DEF k
  <2>2. CASE d # c /\ e = c
    BY <1>1, <1>3, <1>6, <1>9, <2>2 DEF k
  <2>3. CASE d # c /\ e # c
    <3>1. Making(d) /\ call'[d] = call[d] /\ Slot(d)' = Slot(d)
      BY <1>3, <1>9, <2>3
    <3>2. Making(e) /\ call'[e] = call[e] /\ Slot(e)' = Slot(e)
      BY <1>3, <1>9, <2>3
    <3>. QED BY <1>1, <1>9, <3>1, <3>2 DEF UniqueInv
  <2>. QED BY <1>9, <2>1, <2>2, <2>3
<1>. QED BY <1>7, <1>8, <1>9 DEF UniqueInv

LEMMA UniqueEnter ==
    ASSUME Shape, FirstInv, UniqueInv, NEW c \in Callers, EnterSlot(c)
    PROVE  UniqueInv'
<1>k. PICK k : k = Slot(c)
  OBVIOUS
<1>1. /\ Goes(c, "enter", "name") /\ k \in Slots
      /\ s_table'[k].valid
      /\ s_table'[k].user_id_lo = s_table[k].user_id_lo
      /\ \A j \in Slots \ {k} : s_table'[j] = s_table[j]
      /\ call' = call /\ passed' = passed
      /\ \A d \in Callers : Slot(d) \in Slots
  BY <1>k, StepEnter, SlotType
<1>2. \A d \in Callers : Slot(d)' = Slot(d)
  BY <1>1 DEF Slot
<1>3. Unnamed(k)' /\ \A i \in Slots : Unnamed(i) => Unnamed(i)'
  BY <1>k, <1>1, <1>2 DEF Unnamed, Goes
<1>4. ~s_table[k].valid => s_table[k].user_id_lo = 0
  BY <1>1 DEF FirstInv
<1>5. \A i \in Slots : s_table'[i].user_id_lo = s_table[i].user_id_lo
                       /\ (i # k => s_table'[i].valid = s_table[i].valid)
                       /\ (s_table[i].valid => s_table'[i].valid)
  BY <1>1
<1>6. ASSUME NEW d \in Callers, Making(d)' PROVE Making(d)
  <2>1. pc[d] = pc'[d] \/ pc[d] = "enter"
    BY <1>1 DEF Goes
  <2>2. s_table[Slot(d)].valid => s_table'[Slot(d)].valid
    BY <1>1, <1>5
  <2>. QED BY <1>2, <1>6, <2>1, <2>2 DEF Making
<1>7. ASSUME NEW i \in Slots, NEW j \in Slots, i # j,
             s_table'[i].valid, s_table'[j].valid,
             s_table'[i].user_id_lo = s_table'[j].user_id_lo
      PROVE  \/ s_table'[i].user_id_lo \in passed'
             \/ s_table'[i].user_id_lo = 0 /\ (Unnamed(i)' \/ Unnamed(j)')
  <2>1. CASE s_table[i].valid /\ s_table[j].valid
    BY <1>1, <1>3, <1>5, <1>7, <2>1 DEF UniqueInv
  <2>2. CASE ~s_table[i].valid
    BY <1>3, <1>4, <1>5, <1>7, <2>2
  <2>3. CASE ~s_table[j].valid
    BY <1>3, <1>4, <1>5, <1>7, <2>3
  <2>. QED BY <2>1, <2>2, <2>3
<1>8. ASSUME NEW d \in Callers, NEW j \in Slots, Making(d)', j # Slot(d)',
             s_table'[j].valid, s_table'[j].user_id_lo = call'[d].id
      PROVE  call'[d].id \in passed' \/ (call'[d].id = 0 /\ Unnamed(j)')
  <2>1. CASE s_table[j].valid
    BY <1>1, <1>2, <1>3, <1>5, <1>6, <1>8, <2>1 DEF UniqueInv
  <2>2. CASE ~s_table[j].valid
    BY <1>1, <1>3, <1>4, <1>5, <1>8, <2>2
  <2>. QED BY <2>1, <2>2
<1>9. ASSUME NEW d \in Callers, NEW e \in Callers, Making(d)', Making(e)',
             call'[d].id = call'[e].id, Slot(d)' # Slot(e)'
      PROVE  call'[d].id \in passed'
  BY <1>1, <1>2, <1>6, <1>9 DEF UniqueInv
<1>. QED BY <1>7, <1>8, <1>9 DEF UniqueInv

LEMMA UniqueName ==
    ASSUME Shape, UniqueInv, NEW c \in Callers, NameSlot(c)
    PROVE  UniqueInv'
<1>. DEFINE k == Slot(c)
            u == call[c].id
<1>1. /\ Goes(c, "name", "load") /\ k \in Slots
      /\ s_table'[k].valid = s_table[k].valid
      /\ s_table'[k].user_id_lo = u
      /\ \A j \in Slots \ {k} : s_table'[j] = s_table[j]
      /\ call' = call /\ passed' = passed
      /\ \A d \in Callers : Slot(d) \in Slots
  BY StepName, SlotType
<1>2. \A d \in Callers : Slot(d)' = Slot(d)
  BY <1>1 DEF Slot
<1>3. \A i \in Slots \ {k} : Unnamed(i) => Unnamed(i)'
  BY <1>1, <1>2 DEF Unnamed, Goes
<1>4. Making(c) /\ ~Making(c)'
  BY <1>1 DEF Making, Goes
<1>5. \A i \in Slots : s_table'[i].valid = s_table[i].valid
  BY <1>1
<1>6. ASSUME NEW d \in Callers, Making(d)' PROVE Making(d) /\ d # c
  <2>1. d # c
    BY <1>4, <1>6
  <2>2. pc[d] = pc'[d] /\ s_table'[Slot(d)].valid = s_table[Slot(d)].valid
    BY <1>1, <1>5, <2>1 DEF Goes
  <2>. QED BY <1>2, <1>6, <2>1, <2>2 DEF Making
<1>7. ASSUME NEW j \in Slots \ {k}, s_table[j].valid, s_table[j].user_id_lo = u
      PROVE  u \in passed \/ (u = 0 /\ Unnamed(j))
  BY <1>4, <1>7 DEF UniqueInv
<1>8. ASSUME NEW d \in Callers, Making(d)', call[d].id = u, Slot(d) # k
      PROVE  u \in passed
  BY <1>4, <1>6, <1>8 DEF UniqueInv
<1>. HIDE DEF k, u
<1>9. ASSUME NEW i \in Slots, NEW j \in Slots, i # j,
             s_table'[i].valid, s_table'[j].valid,
             s_table'[i].user_id_lo = s_table'[j].user_id_lo
      PROVE  \/ s_table'[i].user_id_lo \in passed'
             \/ s_table'[i].user_id_lo = 0 /\ (Unnamed(i)' \/ Unnamed(j)')
  <2>1. CASE i # k /\ j # k
    BY <1>1, <1>3, <1>9, <2>1 DEF UniqueInv
  <2>2. CASE i = k
    BY <1>1, <1>3, <1>7, <1>9, <2>2
  <2>3. CASE j = k
    BY <1>1, <1>3, <1>7, <1>9, <2>3
  <2>. QED BY <2>1, <2>2, <2>3
<1>10. ASSUME NEW d \in Callers, NEW j \in Slots, Making(d)', j # Slot(d)',
             s_table'[j].valid, s_table'[j].user_id_lo = call'[d].id
      PROVE  call'[d].id \in passed' \/ (call'[d].id = 0 /\ Unnamed(j)')
  <2>1. CASE j = k
    BY <1>1, <1>2, <1>8, <1>10, <2>1
  <2>2. CASE j # k
    BY <1>1, <1>2, <1>3, <1>6, <1>10, <2>2 DEF UniqueInv
  <2>. QED BY <2>1, <2>2
<1>11. ASSUME NEW d \in Callers, NEW e \in Callers, Making(d)', Making(e)',
             call'[d].id = call'[e].id, Slot(d)' # Slot(e)'
      PROVE  call'[d].id \in passed'
  BY <1>1, <1>2, <1>6, <1>11 DEF UniqueInv
<1>. QED BY <1>9, <1>10, <1>11 DEF UniqueInv

LEMMA UniqueStep ==
    ASSUME Shape, CallInv, FirstInv, UniqueInv, NEW c \in Callers, Step(c)
    PROVE  UniqueInv'
<1>0. \A d \in Callers : Slot(d) \in Slots /\ (Shape' => Slot(d)' \in Slots)
  BY DEF Shape, Orders, Slot
<1>k. call' = call => Slot(c)' = Slot(c)
  BY DEF Slot
<1>m. ASSUME NEW from, NEW to, Goes(c, from, to),
             to \notin {"check", "enter", "name"}
      PROVE  ~Making(c)'
  BY <1>m DEF Making, Goes
<1>1. ASSUME NEW op \in Ops, NEW u \in Ids, Start(c, op, u)
      PROVE  UniqueInv'
  <2>. DEFINE p == CASE op = "increment" -> "find"
                     [] op = "clear" -> "search"
                     [] op = "get" -> "return"
  <2>1. /\ Shape' /\ op \in {"increment", "get", "clear"}
        /\ Goes(c, "idle", p) /\ s_table' = s_table /\ passed' = passed
        /\ \A d \in Callers \ {c} : call'[d] = call[d]
    BY <1>1, StepStart
  <2>2. p \in {"find", "search", "return"}
    BY <2>1
  <2>. HIDE DEF p
  <2>. QED BY <1>0, <1>m, <2>1, <2>2, UniqueSame
<1>2. CASE Find(c)
  BY <1>2, UniqueFind
<1>3. CASE CheckValid(c)
  <2>. DEFINE p == IF s_table[Slot(c)].valid THEN "read" ELSE "enter"
  <2>1. /\ Shape' /\ Goes(c, "check", p) /\ call' = call /\ s_table' = s_table
        /\ passed' = passed
    BY <1>3, StepCheck
  <2>2. pc[c] = "check" /\ pc'[c] = p
    BY <2>1 DEF Goes
  <2>3. Making(c)' => Making(c)
    BY <2>2 DEF Making
  <2>. HIDE DEF p
  <2>. QED BY <1>0, <1>k, <2>1, <2>3, UniqueSame
<1>4. CASE EnterSlot(c)
  BY <1>4, UniqueEnter
<1>5. CASE NameSlot(c)
  BY <1>5, UniqueName
<1>6. ASSUME NEW n, NEW w, \/ Counted(c, "load", "read", n, w)
                           \/ Counted(c, "store", "flush", n, w)
                           \/ Counted(c, "zero", "flush", n, w)
      PROVE  UniqueInv'
  <2>1. PICK from, to : /\ Counted(c, from, to, n, w)
                        /\ from \in {"load", "store", "zero"}
                        /\ to \in {"read", "flush"}
    BY <1>6
  <2>2. /\ Shape' /\ Goes(c, from, to) /\ call' = call /\ passed' = passed
        /\ \A i \in Slots : /\ s_table'[i].valid = s_table[i].valid
                            /\ s_table'[i].user_id_lo = s_table[i].user_id_lo
    BY <2>1 DEF Counted
  <2>. QED BY <1>0, <1>m, <2>1, <2>2, UniqueSame
<1>7. CASE LoadCount(c)
  BY <1>6, <1>7, StepLoad
<1>8. CASE StoreCount(c)
  BY <1>6, <1>8, StepStore
<1>9. CASE ZeroCount(c)
  BY <1>6, <1>9, StepZero
<1>10. CASE ReadCount(c)
  BY <1>0, <1>m, <1>10, StepRead, UniqueSame DEF Keeps
<1>11. CASE Flush(c)
  <2>. DEFINE p == IF call[c].op = "clear" THEN "idle" ELSE "return"
  <2>1. /\ Shape' /\ Goes(c, "flush", p) /\ call' = call /\ s_table' = s_table
        /\ passed' = passed
    BY <1>11, StepFlush
  <2>2. p \in {"idle", "return"}
    OBVIOUS
  <2>. HIDE DEF p
  <2>. QED BY <1>0, <1>m, <2>1, <2>2, UniqueSame
<1>12. CASE Return(c)
  BY <1>0, <1>m, <1>12, StepReturn, UniqueSame
<1>13. CASE SearchFound(c)
  BY <1>0, <1>m, <1>13, StepFound, UniqueSame DEF Keeps
<1>14. CASE SearchMissed(c)
  BY <1>0, <1>m, <1>14, StepMissed, UniqueSame
<1>. QED
  BY <1>1, <1>2, <1>3, <1>4, <1>5, <1>7, <1>8, <1>9, <1>10, <1>11, <1>12,
     <1>13, <1>14 DEF Step

SlotInv == Shape /\ CallInv /\ ApartInv /\ FirstInv /\ UniqueInv

LEMMA SlotsKept == Spec => []SlotInv
<1>1. Init => SlotInv
  BY ShapeInit, CallInit, ApartInit, FirstInit, UniqueInit DEF SlotInv
<1>2. SlotInv /\ [Next]_vars => SlotInv'
  <2>1. SlotInv /\ UNCHANGED vars => SlotInv'
    BY CallKept, ApartKept, FirstKept, UniqueKept DEF SlotInv
  <2>2. SlotInv /\ Reboot => SlotInv'
    BY ShapeReboot, CallReboot, ApartReboot, FirstReboot, UniqueReboot
       DEF SlotInv
  <2>3. ASSUME SlotInv, NEW c \in Callers, Step(c) PROVE SlotInv'
    BY <2>3, CallStep, ApartStep, FirstStep, UniqueStep DEF SlotInv
  <2>. QED BY <2>1, <2>2, <2>3 DEF Next
<1>. QED BY <1>1, <1>2, PTL DEF Spec

(* The entries in use come first and no user has two, whatever the tasks do *)
(* to each other, unless a scan passed over an entry in the making          *)
(* (find_slot, warnings_increment).                                         *)
THEOREM NoSecondEntry == Spec => []OneEntryPerUser
<1>1. SlotInv => OneEntryPerUser
  <2>. SUFFICES ASSUME SlotInv, NEW i \in Slots, NEW j \in Slots,
                       i < j, s_table[j].valid
                PROVE  /\ s_table[i].valid
                       /\ Idle /\ s_table[i].user_id_lo = s_table[j].user_id_lo
                             => s_table[i].user_id_lo \in passed
    BY DEF OneEntryPerUser
  <2>1. s_table[i].valid
    BY DEF SlotInv, FirstInv
  <2>2. i # j
    BY WarnAssumption DEF Slots
  <2>3. Idle => ~Unnamed(i) /\ ~Unnamed(j)
    BY DEF Idle, Busy, Unnamed
  <2>. QED BY <2>1, <2>2, <2>3 DEF SlotInv, UniqueInv
<1>. QED BY <1>1, SlotsKept, PTL

-----------------------------------------------------------------------------
(* The copies in flash. *)
AtWork == {"name", "load", "read", "store", "flush"}

LEMMA FlashInit == Init => TableIsDurable
BY DEF Init, TableIsDurable, Blank

LEMMA FlashReboot == Reboot => TableIsDurable'
BY DEF Reboot, TableIsDurable, Blank

LEMMA FlashKept == TableIsDurable /\ UNCHANGED vars => TableIsDurable'
BY DEF TableIsDurable, Working, Slot, vars, blame

(* A step that changes the entry that its call works on, or none. *)
LEMMA FlashSame ==
    ASSUME TableIsDurable, NEW c \in Callers, NEW from, NEW to, Goes(c, from, to),
           \A d \in Callers \ {c} : call'[d] = call[d],
           from \in AtWork => to \in AtWork /\ Slot(c)' = Slot(c),
           \A i \in Slots : \/ s_table'[i] = s_table[i]
                            \/ to \in AtWork /\ i = Slot(c)',
           nvs' = nvs, passed \subseteq passed', spoiled \subseteq spoiled'
    PROVE  TableIsDurable'
<1>. SUFFICES ASSUME NEW i \in Slots, s_table'[i].valid, ~Working(i)',
                     s_table'[i].user_id_lo \notin passed' \cup (spoiled' \cap {0})
              PROVE  nvs'[s_table'[i].user_id_lo] = s_table'[i].count
  BY DEF TableIsDurable
<1>1. to \in AtWork => i # Slot(c)'
  BY DEF Working, AtWork, Goes
<1>2. s_table'[i] = s_table[i]
  BY <1>1
<1>3. ASSUME NEW d \in Callers, pc[d] \in AtWork, Slot(d) = i PROVE FALSE
  <2>1. CASE d = c
    BY <1>1, <1>3, <2>1 DEF Goes
  <2>2. CASE d # c
    BY <1>3, <2>2 DEF Goes, Slot, Working, AtWork
  <2>. QED BY <2>1, <2>2
<1>4. ~Working(i)
  BY <1>3 DEF Working, AtWork
<1>5. s_table[i].user_id_lo \notin passed \cup (spoiled \cap {0})
  BY <1>2
<1>. QED BY <1>2, <1>4, <1>5 DEF TableIsDurable

(* A flush puts one entry and its copy in step, and there is no other entry *)
(* with the same key at rest.                                               *)
LEMMA FlashFlush ==
    ASSUME SlotInv, TableIsDurable, NEW c \in Callers, Flush(c)
    PROVE  TableIsDurable'
<1>k. PICK k : k = Slot(c)
  OBVIOUS
<1>1. /\ pc[c] = "flush" /\ k \in Slots
      /\ \A d \in Callers \ {c} : pc'[d] = pc[d]
      /\ nvs'[s_table[k].user_id_lo] = s_table[k].count
      /\ \A u \in (Ids \cup {0}) \ {s_table[k].user_id_lo} : nvs'[u] = nvs[u]
      /\ UNCHANGED <<s_table, call, passed, spoiled>>
  BY <1>k, StepFlush, SlotType DEF SlotInv, Goes
<1>2. s_table[k].valid
  BY <1>k, <1>1 DEF SlotInv, FirstInv
<1>3. \A d \in Callers : Slot(d)' = Slot(d)
  BY <1>1 DEF Slot
<1>. SUFFICES ASSUME NEW i \in Slots, s_table[i].valid, ~Working(i)',
                     s_table[i].user_id_lo \notin passed \cup (spoiled \cap {0})
              PROVE  nvs'[s_table[i].user_id_lo] = s_table[i].count
  BY <1>1 DEF TableIsDurable
<1>4. CASE i = k
  BY <1>1, <1>4
<1>5. CASE i # k
  <2>1. ~Working(i)
    BY <1>k, <1>1, <1>3, <1>5 DEF Working
  <2>2. nvs[s_table[i].user_id_lo] = s_table[i].count
    BY <2>1 DEF TableIsDurable
  <2>3. ~Unnamed(i)
    BY <2>1 DEF Unnamed, Working
  <2>4. ASSUME Unnamed(k) PROVE 0 \in spoiled
    <3>1. PICK d \in Callers : pc[d] = "name"
      BY <2>4 DEF Unnamed
    <3>2. d # c /\ pc[d] # "idle" /\ pc[c] # "idle"
      BY <1>1, <3>1
    <3>. QED BY <3>2 DEF SlotInv, ApartInv
  <2>5. s_table[i].user_id_lo # s_table[k].user_id_lo
    BY <1>1, <1>2, <1>5, <2>3, <2>4 DEF SlotInv, UniqueInv
  <2>6. s_table[i].user_id_lo \in Ids \cup {0}
    BY DEF SlotInv, Shape, Entries
  <2>. QED BY <1>1, <2>2, <2>5, <2>6
<1>. QED BY <1>4, <1>5

LEMMA FlashStep ==
    ASSUME SlotInv, TableIsDurable, NEW c \in Callers, Step(c)
    PROVE  TableIsDurable'
<1>0. Shape /\ CallInv
  BY DEF SlotInv
<1>k. call' = call => Slot(c)' = Slot(c)
  BY DEF Slot
<1>. USE DEF AtWork
<1>1. ASSUME NEW op \in Ops, NEW u \in Ids, Start(c, op, u)
      PROVE  TableIsDurable'
  <2>. DEFINE p == CASE op = "increment" -> "find"
                     [] op = "clear" -> "search"
                     [] op = "get" -> "return"
  <2>1. /\ Goes(c, "idle", p) /\ UNCHANGED <<s_table, nvs, passed>>
        /\ \A d \in Callers \ {c} : call'[d] = call[d]
        /\ spoiled \subseteq spoiled'
    BY <1>0, <1>1, StepStart
  <2>. HIDE DEF p
  <2>. QED BY <2>1, FlashSame
<1>2. CASE Find(c)
  BY <1>0, <1>2, StepFind, FlashSame DEF Keeps
<1>3. CASE CheckValid(c)
  <2>. DEFINE p == IF s_table[Slot(c)].valid THEN "read" ELSE "enter"
  <2>1. Goes(c, "check", p) /\ UNCHANGED <<s_table, nvs, call, passed, spoiled>>
    BY <1>0, <1>3, StepCheck
  <2>. HIDE DEF p
  <2>. QED BY <2>1, FlashSame
<1>4. CASE EnterSlot(c)
  BY <1>0, <1>k, <1>4, StepEnter, FlashSame
<1>5. CASE NameSlot(c)
  BY <1>0, <1>k, <1>5, StepName, FlashSame
<1>6. ASSUME NEW n, NEW w, \/ Counted(c, "load", "read", n, w)
                           \/ Counted(c, "store", "flush", n, w)
                           \/ Counted(c, "zero", "flush", n, w)
      PROVE  TableIsDurable'
  <2>1. PICK from, to : /\ Counted(c, from, to, n, w)
                        /\ from \in {"load", "store", "zero"}
                        /\ to \in {"read", "flush"}
    BY <1>6
  <2>. QED BY <1>k, <2>1, FlashSame DEF Counted
<1>7. CASE LoadCount(c)
  BY <1>0, <1>6, <1>7, StepLoad
<1>8. CASE StoreCount(c)
  BY <1>0, <1>6, <1>8, StepStore
<1>9. CASE ZeroCount(c)
  BY <1>0, <1>6, <1>9, StepZero
<1>10. CASE ReadCount(c)
  BY <1>0, <1>10, StepRead, FlashSame DEF Keeps
<1>11. CASE Flush(c)
  BY <1>11, FlashFlush
<1>12. CASE Return(c)
  BY <1>0, <1>12, StepReturn, FlashSame
<1>13. CASE SearchFound(c)
  BY <1>0, <1>13, StepFound, FlashSame DEF Keeps
<1>14. CASE SearchMissed(c)
  BY <1>0, <1>14, StepMissed, FlashSame
<1>. QED
  BY <1>1, <1>2, <1>3, <1>4, <1>5, <1>7, <1>8, <1>9, <1>10, <1>11, <1>12,
     <1>13, <1>14 DEF Step

LEMMA FlashNext == SlotInv /\ TableIsDurable /\ [Next]_vars => TableIsDurable'
BY FlashStep, FlashReboot, FlashKept DEF Next

(* Flash is behind the table by the entries that calls work on, and no      *)
(* other, whatever the tasks do to each other: a call's write of an entry's *)
(* copy is never undone by another's of the same key (nvs_flush).           *)
THEOREM NothingUnsaved == Spec => []TableIsDurable
BY FlashInit, FlashNext, SlotsKept, PTL DEF Spec

-----------------------------------------------------------------------------
(* The counts. *)
CountedInv == SlotInv /\ TableIsDurable /\ CountInv

LEMMA CountInit == Init => CountInv
BY DEF Init, CountInv, CallCounts, OwnEntry

LEMMA CountReboot == CountInv /\ Reboot => CountInv'
BY DEF Reboot, CountInv, CallCounts, OwnEntry

LEMMA CountKept == CountInv /\ UNCHANGED vars => CountInv'
BY DEF CountInv, CallCounts, OwnEntry, Slot, vars, blame

(* A call under way while another takes a step is about a spoiled user, and *)
(* its entry is its own or that of a spoiled user.                          *)
LEMMA CountOthers ==
    ASSUME SlotInv, CountInv,
           NEW c \in Callers, NEW from, NEW to, Goes(c, from, to),
           \A e \in Callers \ {c} : call'[e] = call[e],
           spoiled \subseteq spoiled',
           NEW d \in Callers \ {c},
           pc[d] # "idle" =>
              /\ call[d].id \in spoiled'
              /\ \A i \in Slots :
                    \/ s_table'[i].user_id_lo \in spoiled'
                    \/ /\ s_table'[i].user_id_lo = s_table[i].user_id_lo
                       /\ s_table'[i].valid = s_table[i].valid
    PROVE  CallCounts(d)'
<1>1. /\ pc'[d] = pc[d] /\ call'[d] = call[d] /\ Slot(d)' = Slot(d)
      /\ Slot(d) \in Slots
  BY SlotType DEF Goes, Slot, SlotInv
<1>2. CASE pc[d] = "idle"
  BY <1>1, <1>2 DEF CallCounts, OwnEntry
<1>3. CASE pc[d] # "idle"
  <2>1. call'[d].id \in spoiled'
    BY <1>1, <1>3
  <2>2. ASSUME OwnEntry(d)', s_table'[Slot(d)].user_id_lo \notin spoiled'
        PROVE  s_table'[Slot(d)].user_id_lo = call[d].id
    <3>1. /\ s_table'[Slot(d)].user_id_lo = s_table[Slot(d)].user_id_lo
          /\ s_table'[Slot(d)].valid = s_table[Slot(d)].valid
      BY <1>1, <1>3, <2>2
    <3>2. OwnEntry(d)
      BY <1>1, <2>2, <3>1 DEF OwnEntry
    <3>3. CallCounts(d)
      BY DEF CountInv
    <3>. QED BY <2>2, <3>1, <3>2, <3>3 DEF CallCounts
  <2>. QED BY <1>1, <2>1, <2>2 DEF CallCounts
<1>. QED BY <1>2, <1>3

(* When no name and no use of an entry changes. *)
LEMMA CountSame ==
    ASSUME SlotInv, CountInv,
           NEW c \in Callers, NEW from, NEW to, Goes(c, from, to),
           from # "idle", \A e \in Callers \ {c} : call'[e] = call[e],
           spoiled \subseteq spoiled',
           \A i \in Slots : /\ s_table'[i].user_id_lo = s_table[i].user_id_lo
                            /\ s_table'[i].valid = s_table[i].valid
    PROVE  \A d \in Callers \ {c} : CallCounts(d)'
<1>. SUFFICES ASSUME NEW d \in Callers \ {c} PROVE CallCounts(d)'
  OBVIOUS
<1>1. pc[d] # "idle" => call[d].id \in spoiled'
  BY DEF SlotInv, ApartInv, Goes
<1>. QED BY <1>1, CountOthers

LEMMA CountStart ==
    ASSUME CountedInv, NEW c \in Callers, NEW op \in Ops, NEW u \in Ids,
           Start(c, op, u)
    PROVE  CountInv'
<1>. DEFINE p == CASE op = "increment" -> "find"
                   [] op = "clear" -> "search"
                   [] op = "get" -> "return"
<1>1. /\ op \in {"increment", "get", "clear"}
      /\ Goes(c, "idle", p)
      /\ \A d \in Callers \ {c} : call'[d] = call[d]
      /\ spoiled \subseteq spoiled'
      /\ \A d \in Callers : pc[d] # "idle" => call[d].id \in spoiled'
      /\ UNCHANGED <<s_table, nvs, given>>
  BY StepStart DEF CountedInv, SlotInv
<1>2. p \in {"find", "search", "return"}
  BY <1>1
<1>. HIDE DEF p
<1>3. \A d \in Callers \ {c} : CallCounts(d)'
  BY <1>1, CountOthers DEF CountedInv
<1>4. CallCounts(c)'
  BY <1>1, <1>2 DEF CallCounts, OwnEntry, Goes
<1>. QED BY <1>1, <1>3, <1>4 DEF CountedInv, CountInv

LEMMA CountFind ==
    ASSUME CountedInv, NEW c \in Callers, Find(c)
    PROVE  CountInv'
<1>1. /\ Goes(c, "find", "check") /\ call'[c].id = call[c].id
      /\ \A d \in Callers \ {c} : call'[d] = call[d]
      /\ spoiled \subseteq spoiled'
      /\ \/ ~s_table[Slot(c)'].valid
         \/ s_table[Slot(c)'].user_id_lo = call[c].id
         \/ {s_table[Slot(c)'].user_id_lo, call[c].id} \subseteq spoiled'
      /\ UNCHANGED <<s_table, nvs, given>>
  BY StepFind DEF CountedInv, SlotInv, Keeps
<1>2. \A d \in Callers \ {c} : CallCounts(d)'
  BY <1>1, CountSame DEF CountedInv
<1>3. CallCounts(c)'
  BY <1>1 DEF CallCounts, OwnEntry, Goes
<1>. QED BY <1>1, <1>2, <1>3 DEF CountedInv, CountInv

LEMMA CountCheck ==
    ASSUME CountedInv, NEW c \in Callers, CheckValid(c)
    PROVE  CountInv'
<1>. DEFINE p == IF s_table[Slot(c)].valid THEN "read" ELSE "enter"
            u == call[c].id
<1>1. Goes(c, "check", p) /\ UNCHANGED <<s_table, nvs, call, given, spoiled>>
  BY StepCheck DEF CountedInv, SlotInv
<1>2. p = "enter" \/ (p = "read" /\ s_table[Slot(c)].valid)
  OBVIOUS
<1>. HIDE DEF p
<1>3. \A d \in Callers \ {c} : CallCounts(d)'
  BY <1>1, CountSame DEF CountedInv
<1>4. Slot(c)' = Slot(c) /\ pc[c] = "check" /\ pc'[c] = p /\ Slot(c) \in Slots
      /\ u \in Ids
  BY <1>1, SlotType DEF Slot, Goes, CountedInv, SlotInv, CallInv
<1>5. CASE p = "enter"
  <2>1. CallCounts(c)'
    BY <1>4, <1>5 DEF CallCounts, OwnEntry
  <2>. QED BY <1>1, <1>3, <2>1 DEF CountedInv, CountInv
<1>6. CASE p = "read" /\ s_table[Slot(c)].valid
  <2>1. CallCounts(c) /\ OwnEntry(c)
    BY <1>4, <1>6 DEF CountedInv, CountInv, OwnEntry
  <2>2. \/ s_table[Slot(c)].user_id_lo = u
        \/ {s_table[Slot(c)].user_id_lo, u} \subseteq spoiled
    BY <2>1 DEF CallCounts
  <2>3. ASSUME u \notin spoiled PROVE s_table[Slot(c)].count = given[u]
    <3>1. s_table[Slot(c)].user_id_lo = u /\ u \notin passed
      BY <2>2, <2>3 DEF CountedInv, SlotInv, ApartInv
    <3>2. ASSUME Working(Slot(c)) PROVE FALSE
      <4>1. PICK d \in Callers : pc[d] \in AtWork
        BY <3>2 DEF Working, AtWork
      <4>2. d # c /\ pc[d] # "idle"
        BY <1>4, <4>1 DEF AtWork
      <4>. QED BY <1>4, <2>3, <4>2 DEF CountedInv, SlotInv, ApartInv
    <3>3. nvs[u] = s_table[Slot(c)].count
      BY <1>4, <1>6, <2>3, <3>1, <3>2 DEF CountedInv, TableIsDurable
    <3>. QED BY <1>4, <2>3, <3>3 DEF CountedInv, CountInv
  <2>4. CallCounts(c)'
    BY <1>1, <1>4, <1>6, <2>2, <2>3 DEF CallCounts
  <2>. QED BY <1>1, <1>3, <2>4 DEF CountedInv, CountInv
<1>. QED BY <1>2, <1>5, <1>6

LEMMA CountEnter ==
    ASSUME CountedInv, NEW c \in Callers, EnterSlot(c)
    PROVE  CountInv'
<1>k. PICK k : k = Slot(c)
  OBVIOUS
<1>1. /\ Goes(c, "enter", "name") /\ k \in Slots
      /\ s_table'[k].user_id_lo = s_table[k].user_id_lo
      /\ s_table'[k].valid /\ s_table[k].valid \in BOOLEAN
      /\ \A j \in Slots \ {k} : s_table'[j] = s_table[j]
      /\ UNCHANGED <<nvs, call, given, spoiled>>
  BY <1>k, StepEnter, SlotType DEF CountedInv, SlotInv
<1>2. ASSUME NEW d \in Callers \ {c} PROVE CallCounts(d)'
  <2>1. pc[d] # "idle" => call[d].id \in spoiled /\ 0 \in spoiled
    BY <1>1 DEF CountedInv, SlotInv, ApartInv, Goes
  <2>2. \/ s_table[k].valid
        \/ s_table'[k].user_id_lo = 0
    BY <1>1 DEF CountedInv, SlotInv, FirstInv
  <2>3. pc[d] # "idle" =>
           /\ call[d].id \in spoiled'
           /\ \A i \in Slots :
                 \/ s_table'[i].user_id_lo \in spoiled'
                 \/ /\ s_table'[i].user_id_lo = s_table[i].user_id_lo
                    /\ s_table'[i].valid = s_table[i].valid
    BY <1>1, <2>1, <2>2
  <2>. QED BY <1>1, <2>3, CountOthers DEF CountedInv
<1>3. CallCounts(c)'
  BY <1>1 DEF CallCounts, OwnEntry, Goes
<1>. QED BY <1>1, <1>2, <1>3 DEF CountedInv, CountInv

LEMMA CountName ==
    ASSUME CountedInv, NEW c \in Callers, NameSlot(c)
    PROVE  CountInv'
<1>k. PICK k : k = Slot(c)
  OBVIOUS
<1>1. /\ Goes(c, "name", "load") /\ k \in Slots
      /\ s_table'[k].user_id_lo = call[c].id
      /\ s_table'[k].valid = s_table[k].valid
      /\ \A j \in Slots \ {k} : s_table'[j] = s_table[j]
      /\ UNCHANGED <<nvs, call, given, spoiled>>
  BY <1>k, StepName, SlotType DEF CountedInv, SlotInv
<1>2. ASSUME NEW d \in Callers \ {c} PROVE CallCounts(d)'
  <2>1. pc[d] # "idle" => call[d].id \in spoiled /\ call[c].id \in spoiled
    BY <1>1 DEF CountedInv, SlotInv, ApartInv, Goes
  <2>2. pc[d] # "idle" =>
           /\ call[d].id \in spoiled'
           /\ \A i \in Slots :
                 \/ s_table'[i].user_id_lo \in spoiled'
                 \/ /\ s_table'[i].user_id_lo = s_table[i].user_id_lo
                    /\ s_table'[i].valid = s_table[i].valid
    BY <1>1, <2>1
  <2>. QED BY <1>1, <2>2, CountOthers DEF CountedInv
<1>3. Slot(c)' = k /\ pc'[c] = "load"
  BY <1>k, <1>1 DEF Slot, Goes
<1>4. CallCounts(c)'
  BY <1>1, <1>3 DEF CallCounts
<1>. QED BY <1>1, <1>2, <1>4 DEF CountedInv, CountInv

(* What a statement that writes a count leaves to show. *)
LEMMA CountWritten ==
    ASSUME CountedInv, NEW c \in Callers, NEW n, NEW w, NEW from, NEW to,
           Counted(c, from, to, n, w),
           from \in {"load", "store", "zero"}, to \in {"read", "flush"},
           call[c].id \notin spoiled' =>
              n = IF to = "read" \/ call[c].op # "clear"
                  THEN given[call[c].id] + (IF to = "read" THEN 0 ELSE 1)
                  ELSE 0
    PROVE  CountInv'
<1>k. PICK k, u : k = Slot(c) /\ u = call[c].id
  OBVIOUS
<1>1. /\ Goes(c, from, to) /\ k \in Slots
      /\ s_table'[k].user_id_lo = s_table[k].user_id_lo
      /\ s_table'[k].valid = s_table[k].valid
      /\ s_table'[k].count = n
      /\ \A j \in Slots \ {k} : s_table'[j] = s_table[j]
      /\ spoiled \subseteq spoiled'
      /\ UNCHANGED <<nvs, call, given>>
  BY <1>k, SlotType DEF CountedInv, SlotInv, Counted
<1>2. \A d \in Callers \ {c} : CallCounts(d)'
  BY <1>1, CountSame DEF CountedInv
<1>3. pc[c] = from /\ pc'[c] = to /\ Slot(c)' = k /\ u \in Ids
  BY <1>k, <1>1 DEF Goes, Slot, CountedInv, SlotInv, CallInv
<1>4. \/ s_table[k].user_id_lo = u
      \/ {s_table[k].user_id_lo, u} \subseteq spoiled'
  <2>1. CallCounts(c) /\ OwnEntry(c)
    BY <1>3 DEF CountedInv, CountInv, OwnEntry
  <2>. QED BY <1>k, <1>1, <2>1 DEF CallCounts
<1>5. given[u] \in Nat
  BY <1>3 DEF CountedInv, SlotInv, Shape
<1>6. u \notin spoiled' =>
         s_table'[k].count = IF to = "flush" /\ call[c].op = "clear" THEN 0
                             ELSE IF to = "read" THEN given[u] ELSE given[u] + 1
  BY <1>k, <1>1, <1>5
<1>7. CallCounts(c)'
  BY <1>k, <1>1, <1>3, <1>4, <1>6 DEF CallCounts
<1>. QED BY <1>1, <1>2, <1>7 DEF CountedInv, CountInv

LEMMA CountLoad ==
    ASSUME CountedInv, NEW c \in Callers, LoadCount(c)
    PROVE  CountInv'
<1>k. PICK u, n : u = call[c].id /\ n = WarningsGet(u)
  OBVIOUS
<1>1. Counted(c, "load", "read", n, n # nvs[u])
  BY <1>k, StepLoad DEF CountedInv, SlotInv
<1>2. pc[c] = "load" /\ (n # nvs[u] => u \in spoiled') /\ spoiled \subseteq spoiled'
  BY <1>k, <1>1 DEF Counted, Goes
<1>3. u \in Ids
  BY <1>k, <1>2 DEF CountedInv, SlotInv, CallInv
<1>4. given[u] \in Nat
  BY <1>3 DEF CountedInv, SlotInv, Shape
<1>5. u \notin spoiled' => n = given[u] + 0
  BY <1>2, <1>3, <1>4 DEF CountedInv, CountInv
<1>. QED BY <1>k, <1>1, <1>5, CountWritten

LEMMA CountStore ==
    ASSUME CountedInv, NEW c \in Callers, StoreCount(c)
    PROVE  CountInv'
<1>k. PICK u, n, r : u = call[c].id /\ r = call[c].n /\ n = (r + 1) % COUNT_MOD
  OBVIOUS
<1>1. Counted(c, "store", "flush", n, r + 1 = COUNT_MOD)
  BY <1>k, StepStore DEF CountedInv, SlotInv
<1>2. /\ pc[c] = "store" /\ spoiled \subseteq spoiled'
      /\ r + 1 = COUNT_MOD => u \in spoiled'
  BY <1>k, <1>1 DEF Counted, Goes
<1>3. r \in Counts /\ call[c].op = "increment"
  BY <1>k, <1>2, SlotType DEF CountedInv, SlotInv, CallInv, Filling
<1>4. r + 1 # COUNT_MOD => n = r + 1
  BY <1>k, <1>3, WarnAssumption DEF Counts
<1>5. CallCounts(c)
  BY DEF CountedInv, CountInv
<1>6. u \notin spoiled => r = given[u]
  BY <1>k, <1>2, <1>5 DEF CallCounts
<1>7. u \notin spoiled' => n = given[u] + 1
  BY <1>2, <1>4, <1>6
<1>. QED BY <1>k, <1>1, <1>3, <1>7, CountWritten

LEMMA CountZero ==
    ASSUME CountedInv, NEW c \in Callers, ZeroCount(c)
    PROVE  CountInv'
<1>1. Counted(c, "zero", "flush", 0, FALSE)
  BY StepZero DEF CountedInv, SlotInv
<1>2. call[c].op = "clear"
  BY <1>1 DEF CountedInv, SlotInv, CallInv, Counted, Goes
<1>. QED BY <1>1, <1>2, CountWritten

LEMMA CountRead ==
    ASSUME CountedInv, NEW c \in Callers, ReadCount(c)
    PROVE  CountInv'
<1>1. /\ Goes(c, "read", "store") /\ call'[c].id = call[c].id
      /\ \A d \in Callers \ {c} : call'[d] = call[d]
      /\ Slot(c)' = Slot(c) /\ call'[c].n = s_table[Slot(c)].count
      /\ UNCHANGED <<s_table, nvs, given, spoiled>>
  BY StepRead DEF CountedInv, SlotInv, Keeps
<1>2. \A d \in Callers \ {c} : CallCounts(d)'
  BY <1>1, CountSame DEF CountedInv
<1>3. CallCounts(c) /\ pc[c] = "read" /\ pc'[c] = "store"
  BY <1>1 DEF CountedInv, CountInv, Goes
<1>4. CallCounts(c)'
  BY <1>1, <1>3 DEF CallCounts, OwnEntry
<1>. QED BY <1>1, <1>2, <1>4 DEF CountedInv, CountInv

LEMMA CountFlush ==
    ASSUME CountedInv, NEW c \in Callers, Flush(c)
    PROVE  CountInv'
<1>. DEFINE p == IF call[c].op = "clear" THEN "idle" ELSE "return"
<1>k. PICK k, u, o : k = Slot(c) /\ u = call[c].id /\ o = s_table[k].user_id_lo
  OBVIOUS
<1>1. /\ Goes(c, "flush", p) /\ u \in Ids
      /\ nvs'[o] = s_table[k].count
      /\ \A v \in (Ids \cup {0}) \ {o} : nvs'[v] = nvs[v]
      /\ given'[u] = IF call[c].op = "clear" THEN 0 ELSE given[u] + 1
      /\ \A v \in Ids \ {u} : given'[v] = given[v]
      /\ UNCHANGED <<s_table, call, spoiled>>
  BY <1>k, StepFlush DEF CountedInv, SlotInv
<1>2. p \in {"idle", "return"}
  OBVIOUS
<1>. HIDE DEF p
<1>3. \A d \in Callers \ {c} : CallCounts(d)'
  BY <1>1, CountSame DEF CountedInv
<1>4. CallCounts(c)'
  BY <1>1, <1>2 DEF CallCounts, OwnEntry, Goes
<1>5. pc[c] = "flush" /\ CallCounts(c)
  BY <1>1 DEF Goes, CountedInv, CountInv
<1>6. ASSUME NEW v \in Ids \ spoiled PROVE nvs'[v] = given'[v]
  <2>1. nvs[v] = given[v]
    BY DEF CountedInv, CountInv
  <2>2. o = u \/ {o, u} \subseteq spoiled
    BY <1>k, <1>5 DEF CallCounts, OwnEntry
  <2>3. CASE v = u
    <3>1. s_table[k].count = IF call[c].op = "clear" THEN 0 ELSE given[u] + 1
      BY <1>k, <1>5, <2>3 DEF CallCounts
    <3>. QED BY <1>1, <2>2, <2>3, <3>1
  <2>4. CASE v # u
    BY <1>1, <2>1, <2>2, <2>4
  <2>. QED BY <2>3, <2>4
<1>. QED BY <1>1, <1>3, <1>4, <1>6 DEF CountInv

LEMMA CountReturn ==
    ASSUME CountedInv, NEW c \in Callers, Return(c)
    PROVE  CountInv'
<1>1. Goes(c, "return", "idle")
      /\ UNCHANGED <<s_table, nvs, call, given, spoiled>>
  BY StepReturn DEF CountedInv, SlotInv
<1>2. \A d \in Callers \ {c} : CallCounts(d)'
  BY <1>1, CountSame DEF CountedInv
<1>3. CallCounts(c)'
  BY <1>1 DEF CallCounts, OwnEntry, Goes
<1>. QED BY <1>1, <1>2, <1>3 DEF CountedInv, CountInv

LEMMA CountFound ==
    ASSUME CountedInv, NEW c \in Callers, SearchFound(c)
    PROVE  CountInv'
<1>1. /\ Goes(c, "search", "zero") /\ call'[c].id = call[c].id
      /\ \A d \in Callers \ {c} : call'[d] = call[d]
      /\ s_table[Slot(c)'].user_id_lo = call[c].id
      /\ UNCHANGED <<s_table, nvs, given, spoiled>>
  BY StepFound DEF CountedInv, SlotInv, Keeps
<1>2. \A d \in Callers \ {c} : CallCounts(d)'
  BY <1>1, CountSame DEF CountedInv
<1>3. CallCounts(c)'
  BY <1>1 DEF CallCounts, Goes
<1>. QED BY <1>1, <1>2, <1>3 DEF CountedInv, CountInv

LEMMA CountMissed ==
    ASSUME CountedInv, NEW c \in Callers, SearchMissed(c)
    PROVE  CountInv'
<1>1. /\ Goes(c, "search", "idle")
      /\ call[c].id \in Ids
      /\ given' = [given EXCEPT ![call[c].id] = 0]
      /\ spoiled \subseteq spoiled'
      /\ nvs[call[c].id] # 0 => call[c].id \in spoiled'
      /\ UNCHANGED <<s_table, nvs, call>>
  BY StepMissed DEF CountedInv, SlotInv
<1>2. \A d \in Callers \ {c} : CallCounts(d)'
  BY <1>1, CountSame DEF CountedInv
<1>3. CallCounts(c)'
  BY <1>1 DEF CallCounts, OwnEntry, Goes
<1>4. given \in [Ids -> Nat]
  BY DEF CountedInv, SlotInv, Shape
<1>5. ASSUME NEW v \in Ids \ spoiled' PROVE nvs'[v] = given'[v]
  BY <1>1, <1>4, <1>5 DEF CountedInv, CountInv
<1>. QED BY <1>2, <1>3, <1>5 DEF CountInv

LEMMA CountStep ==
    ASSUME CountedInv, NEW c \in Callers, Step(c)
    PROVE  CountInv'
BY CountStart, CountFind, CountCheck, CountEnter, CountName, CountLoad,
   CountRead, CountStore, CountFlush, CountReturn, CountFound, CountMissed,
   CountZero DEF Step

LEMMA Counting == Spec => []CountedInv
<1>1. Init => TableIsDurable /\ CountInv
  BY FlashInit, CountInit
<1>2. SlotInv /\ TableIsDurable /\ CountInv /\ [Next]_vars
         => TableIsDurable' /\ CountInv'
  <2>1. CountedInv /\ [Next]_vars => CountInv'
    BY CountStep, CountReboot, CountKept DEF Next, CountedInv
  <2>. QED BY <2>1, FlashNext DEF CountedInv
<1>. QED BY <1>1, <1>2, SlotsKept, PTL DEF Spec, CountedInv

(* A query for a user on whom nobody is working. *)
LEMMA Reported ==
    ASSUME CountedInv, NEW u \in Ids \ spoiled,
           \A i \in SlotsOf(u) : ~Working(i)
    PROVE  WarningsGet(u) = given[u]
<1>1. nvs[u] = given[u]
  BY DEF CountedInv, CountInv
<1>2. CASE SlotsOf(u) = {}
  BY <1>1, <1>2 DEF WarningsGet
<1>3. CASE SlotsOf(u) # {}
  <2>1. PICK i \in Slots : /\ i = Min(SlotsOf(u)) /\ s_table[i].valid
                           /\ s_table[i].user_id_lo = u
    BY <1>3, FoundSlot
  <2>2. u \notin passed
    BY DEF CountedInv, SlotInv, ApartInv
  <2>3. ~Working(i)
    BY <2>1 DEF SlotsOf
  <2>4. nvs[u] = s_table[i].count
    BY <2>1, <2>2, <2>3 DEF CountedInv, TableIsDurable
  <2>. QED BY <1>1, <1>3, <2>1, <2>4 DEF WarningsGet
<1>. QED BY <1>2, <1>3

(* At rest every answer is the number of warnings given since the last      *)
(* clear, for every user whose count the code has not put wrong: resets at  *)
(* any statement, and calls that run into each other over other users, are  *)
(* among the behaviours (warnings_increment, warnings_get, warnings_clear). *)
THEOREM CountsAreTrue == Spec => []CountsMatch
<1>1. CountedInv => CountsMatch
  BY Reported DEF CountsMatch, Idle, Busy, Working
<1>. QED BY <1>1, Counting, PTL

-----------------------------------------------------------------------------
(* WarnCounts is implemented. *)
Due(users) == [c \in Callers |-> IF call[c].id \in users THEN ReplyDue(c) ELSE 0]

LEMMA AbstractInit ==
    ASSUME Init, NEW users \in SUBSET Ids
    PROVE  Abstract(users)!Init
<1>1. \A c \in Callers : ReplyDue(c) = 0
  BY DEF Init, ReplyDue
<1>2. \A u \in users : given[u] = 0
  BY DEF Init
<1>3. [u \in users |-> given[u]] = [u \in users |-> 0]
  BY <1>2
<1>4. Due(users) = [c \in Callers |-> 0]
  BY <1>1 DEF Due
<1>. QED BY <1>3, <1>4 DEF Due, Abstract!Init

(* The calls under way while another takes a step have nothing to do with   *)
(* users whose counts are good.                                             *)
LEMMA DueOthers ==
    ASSUME NEW users \in SUBSET Ids, spoiled' \cap users = {},
           NEW c \in Callers, NEW from, NEW to, Goes(c, from, to),
           \A d \in Callers \ {c} : call'[d] = call[d] /\ reply'[d] = reply[d],
           \A d \in Callers \ {c} : pc[d] # "idle" => call[d].id \in spoiled'
    PROVE  \A d \in Callers \ {c} : Due(users)'[d] = Due(users)[d]
<1>. SUFFICES ASSUME NEW d \in Callers \ {c}
              PROVE  Due(users)'[d] = Due(users)[d]
  OBVIOUS
<1>1. pc'[d] = pc[d] /\ call'[d] = call[d] /\ reply'[d] = reply[d]
  BY DEF Goes
<1>2. CASE pc[d] = "idle"
  BY <1>1, <1>2 DEF Due, ReplyDue
<1>3. CASE pc[d] # "idle"
  BY <1>1, <1>3 DEF Due
<1>. QED BY <1>2, <1>3

LEMMA AbstractSame ==
    ASSUME NEW users \in SUBSET Ids,
           \A u \in users : given'[u] = given[u],
           \A c \in Callers : Due(users)'[c] = Due(users)[c]
    PROVE  [Abstract(users)!Next]_(Abstract(users)!vars)
<1>1. [u \in users |-> given[u]]' = [u \in users |-> given[u]]
  OBVIOUS
<1>2. Due(users)' = Due(users)
  BY DEF Due
<1>. QED BY <1>1, <1>2 DEF Due, Abstract!vars

LEMMA AbstractStart ==
    ASSUME CountedInv, NEW c \in Callers, NEW op \in Ops, NEW v \in Ids,
           Start(c, op, v),
           NEW users \in SUBSET Ids, spoiled' \cap users = {}
    PROVE  Abstract(users)!Next
<1>. DEFINE p == CASE op = "increment" -> "find"
                   [] op = "clear" -> "search"
                   [] op = "get" -> "return"
<1>1. /\ op \in {"increment", "get", "clear"}
      /\ Goes(c, "idle", p) /\ call'[c].op = op
      /\ \A d \in Callers \ {c} : call'[d] = call[d]
      /\ reply' = [reply EXCEPT ![c] = 0]
      /\ \A d \in Callers : pc[d] # "idle" => call[d].id \in spoiled'
      /\ UNCHANGED <<s_table, nvs, given>>
  BY StepStart DEF CountedInv, SlotInv
<1>2. p = "return" => op = "get"
  BY <1>1
<1>. HIDE DEF p
<1>3. reply \in [Callers -> Counts]
  BY DEF CountedInv, SlotInv, Shape
<1>4. \A d \in Callers \ {c} : Due(users)'[d] = Due(users)[d]
  BY <1>1, <1>3, DueOthers
<1>5. Due(users)'[c] = 0
  BY <1>1, <1>2, <1>3 DEF Due, ReplyDue, Goes
<1>6. Due(users)' = [Due(users) EXCEPT ![c] = 0]
  BY <1>4, <1>5 DEF Due
<1>. QED BY <1>1, <1>6 DEF Due, Abstract!Next, Abstract!Ask

(* A step of a call about another user than these. *)
LEMMA AbstractAway ==
    ASSUME CountedInv, NEW c \in Callers, NEW from, NEW to, Goes(c, from, to),
           from # "idle", Keeps(c) \/ call' = call,
           NEW users \in SUBSET Ids, spoiled' \cap users = {},
           spoiled \subseteq spoiled',
           \A d \in Callers \ {c} : reply'[d] = reply[d],
           \A u \in Ids \ {call[c].id} : given'[u] = given[u],
           call[c].id \notin users
    PROVE  [Abstract(users)!Next]_(Abstract(users)!vars)
<1>1. \A d \in Callers \ {c} : pc[d] # "idle" => call[d].id \in spoiled'
  BY DEF CountedInv, SlotInv, ApartInv, Goes
<1>2. /\ \A d \in Callers \ {c} : call'[d] = call[d]
      /\ call'[c].id = call[c].id
  BY DEF Keeps
<1>3. \A d \in Callers \ {c} : Due(users)'[d] = Due(users)[d]
  BY <1>1, <1>2, DueOthers
<1>4. Due(users)'[c] = Due(users)[c]
  BY <1>2 DEF Due
<1>. QED BY <1>3, <1>4, AbstractSame

(* A step that nobody sees. *)
LEMMA AbstractQuiet ==
    ASSUME CountedInv, NEW c \in Callers, NEW from, NEW to, Goes(c, from, to),
           from \notin {"idle", "return"}, to # "return",
           Keeps(c) \/ call' = call,
           NEW users \in SUBSET Ids, spoiled' \cap users = {},
           spoiled \subseteq spoiled', reply' = reply, given' = given
    PROVE  [Abstract(users)!Next]_(Abstract(users)!vars)
<1>1. \A d \in Callers \ {c} : pc[d] # "idle" => call[d].id \in spoiled'
  BY DEF CountedInv, SlotInv, ApartInv, Goes
<1>2. /\ \A d \in Callers \ {c} : call'[d] = call[d]
      /\ call'[c].id = call[c].id
  BY DEF Keeps
<1>3. \A d \in Callers \ {c} : Due(users)'[d] = Due(users)[d]
  BY <1>1, <1>2, DueOthers
<1>4. Due(users)'[c] = Due(users)[c]
  BY <1>2 DEF Due, ReplyDue, Goes
<1>. QED BY <1>3, <1>4, AbstractSame

(* A warning or a clear is in flash, or a clear finds nothing. *)
LEMMA AbstractFlush ==
    ASSUME CountedInv, NEW c \in Callers, Flush(c),
           NEW users \in SUBSET Ids, spoiled' \cap users = {}
    PROVE  [Abstract(users)!Next]_(Abstract(users)!vars)
<1>. DEFINE p == IF call[c].op = "clear" THEN "idle" ELSE "return"
<1>k. PICK u, n : u = call[c].id /\ n = s_table[Slot(c)].count
  OBVIOUS
<1>1. /\ Goes(c, "flush", p) /\ u \in Ids
      /\ given'[u] = IF call[c].op = "clear" THEN 0 ELSE given[u] + 1
      /\ \A v \in Ids \ {u} : given'[v] = given[v]
      /\ UNCHANGED <<s_table, call, reply, spoiled>>
  BY <1>k, StepFlush DEF CountedInv, SlotInv
<1>2. \/ call[c].op = "clear" /\ p = "idle"
      \/ call[c].op # "clear" /\ p = "return"
  OBVIOUS
<1>. HIDE DEF p
<1>3. CASE u \notin users
  BY <1>k, <1>1, <1>3, AbstractAway
<1>4. CASE u \in users
  <2>1. u \notin spoiled /\ pc[c] = "flush" /\ CallCounts(c) /\ n \in Counts
        /\ call[c].op \in {"increment", "clear"}
    BY <1>k, <1>1, <1>4, SlotType
       DEF Goes, CountedInv, CountInv, SlotInv, CallInv
  <2>2. n = IF call[c].op = "clear" THEN 0 ELSE given[u] + 1
    BY <1>k, <2>1 DEF CallCounts
  <2>3. \A d \in Callers \ {c} : pc[d] # "idle" => call[d].id \in spoiled'
    BY <1>1, <2>1 DEF CountedInv, SlotInv, ApartInv
  <2>4. \A d \in Callers \ {c} : Due(users)'[d] = Due(users)[d]
    BY <1>1, <2>3, DueOthers
  <2>5. pc'[c] = p /\ Slot(c)' = Slot(c)
    BY <1>1 DEF Goes, Slot
  <2>6. Due(users)[c] = reply[c]
    BY <1>k, <1>4, <2>1 DEF Due, ReplyDue
  <2>7. given[u] \in Nat
    BY <1>1 DEF CountedInv, SlotInv, Shape
  <2>8. CASE call[c].op = "clear"
    <3>1. Due(users)'[c] = reply[c]
      BY <1>k, <1>1, <1>2, <1>4, <2>5, <2>8 DEF Due, ReplyDue
    <3>2. Due(users)' = Due(users)
      BY <2>4, <2>6, <3>1 DEF Due
    <3>3. [v \in users |-> given[v]]' = [[v \in users |-> given[v]] EXCEPT ![u] = 0]
      BY <1>1, <1>4, <2>8
    <3>4. Abstract(users)!Clear(u)
      BY <3>2, <3>3 DEF Due, Abstract!Clear
    <3>. QED BY <1>4, <3>4 DEF Abstract!Next
  <2>9. CASE call[c].op = "increment"
    <3>1. Due(users)'[c] = given[u] + 1
      BY <1>k, <1>1, <1>2, <1>4, <2>2, <2>5, <2>9 DEF Due, ReplyDue
    <3>2. Due(users)' = [Due(users) EXCEPT ![c] = given[u] + 1]
      BY <2>4, <3>1 DEF Due
    <3>3. /\ [v \in users |-> given[v]]' =
                [[v \in users |-> given[v]] EXCEPT ![u] = given[u] + 1]
          /\ [v \in users |-> given[v]][u] = given[u]
          /\ [v \in users |-> given[v]]'[u] = given[u] + 1
      BY <1>1, <1>4, <2>9
    <3>4. given[u] < COUNT_MOD - 1
      BY <2>1, <2>2, <2>7, <2>9, WarnAssumption DEF Counts
    <3>5. Abstract(users)!Increment(c, u)
      BY <3>2, <3>3, <3>4 DEF Due, Abstract!Increment
    <3>. QED BY <1>4, <3>5 DEF Abstract!Next
  <2>. QED BY <2>1, <2>8, <2>9
<1>. QED BY <1>3, <1>4

LEMMA AbstractMissed ==
    ASSUME CountedInv, NEW c \in Callers, SearchMissed(c),
           NEW users \in SUBSET Ids, spoiled' \cap users = {}
    PROVE  [Abstract(users)!Next]_(Abstract(users)!vars)
<1>k. PICK u : u = call[c].id
  OBVIOUS
<1>1. /\ Goes(c, "search", "idle") /\ u \in Ids
      /\ given' = [given EXCEPT ![u] = 0]
      /\ spoiled \subseteq spoiled'
      /\ UNCHANGED <<s_table, call, reply>>
  BY <1>k, StepMissed DEF CountedInv, SlotInv
<1>2. given \in [Ids -> Nat]
  BY DEF CountedInv, SlotInv, Shape
<1>3. CASE u \notin users
  BY <1>k, <1>1, <1>2, <1>3, AbstractAway
<1>4. CASE u \in users
  <2>1. \A d \in Callers \ {c} : pc[d] # "idle" => call[d].id \in spoiled'
    BY <1>1 DEF CountedInv, SlotInv, ApartInv, Goes
  <2>2. \A d \in Callers \ {c} : Due(users)'[d] = Due(users)[d]
    BY <1>1, <2>1, DueOthers
  <2>3. Due(users)'[c] = Due(users)[c]
    BY <1>1 DEF Due, ReplyDue, Goes
  <2>4. Due(users)' = Due(users)
    BY <2>2, <2>3 DEF Due
  <2>5. [v \in users |-> given[v]]' = [[v \in users |-> given[v]] EXCEPT ![u] = 0]
    BY <1>1, <1>2, <1>4
  <2>6. Abstract(users)!Clear(u)
    BY <2>4, <2>5 DEF Due, Abstract!Clear
  <2>. QED BY <1>4, <2>6 DEF Abstract!Next
<1>. QED BY <1>3, <1>4

(* The reply of a warning is the count due since the flush; a query's is    *)
(* what WarnCounts says at that instant.                                    *)
LEMMA AbstractReturn ==
    ASSUME CountedInv, NEW c \in Callers, Return(c),
           NEW users \in SUBSET Ids, spoiled' \cap users = {}
    PROVE  [Abstract(users)!Next]_(Abstract(users)!vars)
<1>k. PICK u : u = call[c].id
  OBVIOUS
<1>1. /\ Goes(c, "return", "idle")
      /\ reply' = [reply EXCEPT ![c] = IF call[c].op = "get"
                                       THEN WarningsGet(u)
                                       ELSE s_table[Slot(c)].count]
      /\ UNCHANGED <<s_table, nvs, call, given, spoiled>>
  BY <1>k, StepReturn DEF CountedInv, SlotInv
<1>2. reply \in [Callers -> Counts] /\ pc[c] = "return" /\ pc'[c] = "idle"
      /\ call[c].op \in {"increment", "get"} /\ u \in Ids
  BY <1>k, <1>1 DEF CountedInv, SlotInv, Shape, CallInv, Goes
<1>3. CASE u \notin users
  BY <1>k, <1>1, <1>2, <1>3, AbstractAway
<1>4. CASE u \in users
  <2>1. \A d \in Callers \ {c} : pc[d] # "idle" => call[d].id \in spoiled'
    BY <1>1, <1>2 DEF CountedInv, SlotInv, ApartInv
  <2>2. \A d \in Callers \ {c} : Due(users)'[d] = Due(users)[d]
    BY <1>1, <1>2, <2>1, DueOthers
  <2>3. Due(users)'[c] = IF call[c].op = "get" THEN WarningsGet(u)
                         ELSE s_table[Slot(c)].count
    BY <1>k, <1>1, <1>2, <1>4 DEF Due, ReplyDue
  <2>4. CASE call[c].op = "increment"
    <3>1. Due(users)'[c] = Due(users)[c]
      BY <1>k, <1>2, <1>4, <2>3, <2>4 DEF Due, ReplyDue
    <3>. QED BY <1>1, <2>2, <3>1, AbstractSame
  <2>5. CASE call[c].op = "get"
    <3>1. ASSUME NEW i \in Slots, Working(i) PROVE FALSE
      <4>1. PICK d \in Callers : pc[d] \in AtWork
        BY <3>1 DEF Working, AtWork
      <4>2. d # c /\ pc[d] # "idle"
        BY <1>2, <4>1 DEF AtWork
      <4>3. u \in spoiled
        BY <1>k, <1>2, <4>2 DEF CountedInv, SlotInv, ApartInv
      <4>. QED BY <1>1, <1>4, <4>3
    <3>2. WarningsGet(u) = given[u]
      BY <1>1, <1>2, <1>4, <3>1, Reported DEF SlotsOf
    <3>3. Due(users)' = [Due(users) EXCEPT ![c] = given[u]]
      BY <2>2, <2>3, <2>5, <3>2 DEF Due
    <3>4. /\ [v \in users |-> given[v]]' = [v \in users |-> given[v]]
          /\ [v \in users |-> given[v]][u] = given[u]
      BY <1>1, <1>4
    <3>5. Abstract(users)!Get(c, u)
      BY <3>3, <3>4 DEF Due, Abstract!Get
    <3>. QED BY <1>4, <3>5 DEF Abstract!Next
  <2>. QED BY <1>2, <2>4, <2>5
<1>. QED BY <1>3, <1>4

LEMMA AbstractReboot ==
    ASSUME CountedInv, Reboot, NEW users \in SUBSET Ids
    PROVE  Abstract(users)!Next
<1>1. Due(users)' = [c \in Callers |-> 0]
  BY DEF Due, ReplyDue, Reboot
<1>2. given' = given
  BY DEF Reboot
<1>. QED BY <1>1, <1>2 DEF Due, Abstract!Next, Abstract!Reset

LEMMA AbstractKept ==
    ASSUME UNCHANGED vars, NEW users \in SUBSET Ids
    PROVE  [Abstract(users)!Next]_(Abstract(users)!vars)
<1>1. Due(users)' = Due(users) /\ given' = given
  BY DEF Due, ReplyDue, Slot, vars
<1>. QED BY <1>1 DEF Due, Abstract!vars

LEMMA AbstractStep ==
    ASSUME CountedInv, NEW c \in Callers, Step(c),
           NEW users \in SUBSET Ids, spoiled' \cap users = {}
    PROVE  [Abstract(users)!Next]_(Abstract(users)!vars)
<1>0. Shape /\ CallInv
  BY DEF CountedInv, SlotInv
<1>1. ASSUME NEW op \in Ops, NEW u \in Ids, Start(c, op, u)
      PROVE  [Abstract(users)!Next]_(Abstract(users)!vars)
  BY <1>1, AbstractStart
<1>2. CASE Find(c)
  BY <1>0, <1>2, StepFind, AbstractQuiet
<1>3. CASE CheckValid(c)
  <2>. DEFINE p == IF s_table[Slot(c)].valid THEN "read" ELSE "enter"
  <2>1. Goes(c, "check", p) /\ UNCHANGED <<call, given, reply, spoiled>>
    BY <1>0, <1>3, StepCheck
  <2>2. p # "return"
    OBVIOUS
  <2>. HIDE DEF p
  <2>. QED BY <2>1, <2>2, AbstractQuiet
<1>4. CASE EnterSlot(c)
  BY <1>0, <1>4, StepEnter, AbstractQuiet
<1>5. CASE NameSlot(c)
  BY <1>0, <1>5, StepName, AbstractQuiet
<1>6. ASSUME NEW n, NEW w, \/ Counted(c, "load", "read", n, w)
                           \/ Counted(c, "store", "flush", n, w)
                           \/ Counted(c, "zero", "flush", n, w)
      PROVE  [Abstract(users)!Next]_(Abstract(users)!vars)
  BY <1>6, AbstractQuiet DEF Counted
<1>7. CASE LoadCount(c)
  BY <1>0, <1>6, <1>7, StepLoad
<1>8. CASE StoreCount(c)
  BY <1>0, <1>6, <1>8, StepStore
<1>9. CASE ZeroCount(c)
  BY <1>0, <1>6, <1>9, StepZero
<1>10. CASE ReadCount(c)
  BY <1>0, <1>10, StepRead, AbstractQuiet
<1>11. CASE Flush(c)
  BY <1>11, AbstractFlush
<1>12. CASE Return(c)
  BY <1>12, AbstractReturn
<1>13. CASE SearchFound(c)
  BY <1>0, <1>13, StepFound, AbstractQuiet
<1>14. CASE SearchMissed(c)
  BY <1>14, AbstractMissed
<1>. QED
  BY <1>1, <1>2, <1>3, <1>4, <1>5, <1>7, <1>8, <1>9, <1>10, <1>11, <1>12,
     <1>13, <1>14 DEF Step

(* Every step of warnings.c is, for any users whose counts it does not put   *)
(* wrong, a step of WarnCounts or none at all, resets and calls that run     *)
(* into each other over other users included.                                *)
THEOREM CountsImplemented == Spec => ImplementsCounts
<1>1. Init => \A users \in SUBSET Ids : Abstract(users)!Init
  BY AbstractInit
<1>2. CountedInv /\ [Next]_vars =>
         [\A users \in SUBSET Ids : spoiled' \cap users = {}
             => [Abstract(users)!Next]_(Abstract(users)!vars)]_vars
  BY AbstractStep, AbstractReboot, AbstractKept DEF Next
<1>. QED BY <1>1, <1>2, Counting, PTL DEF Spec, ImplementsCounts

=============================================================================
