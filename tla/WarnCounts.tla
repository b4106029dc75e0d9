----------------------------- MODULE WarnCounts -----------------------------
(***************************************************************************)
(* What mod/warnings.c promises its callers: one counter per user, which a *)
(* warning raises by one, a clear sets to zero and a query reports, each   *)
(* as if it happened at one instant, and which outlives a reset.           *)
(***************************************************************************)
EXTENDS Naturals

CONSTANTS Ids,       \* users, by the low word of their Discord id
          Callers,   \* the tasks that call
          MaxCount   \* the largest count one byte holds

VARIABLES total, reply

Init == /\ total = [u \in Ids |-> 0]
        /\ reply = [c \in Callers |-> 0]

Increment(c, u) ==
    /\ total[u] < MaxCount
    /\ total' = [total EXCEPT ![u] = @ + 1]
    /\ reply' = [reply EXCEPT ![c] = total'[u]]

Get(c, u) == /\ reply' = [reply EXCEPT ![c] = total[u]]
             /\ UNCHANGED total

Clear(u) == /\ total' = [total EXCEPT ![u] = 0]
            /\ UNCHANGED reply

(* A call begins: its caller has no reply yet. *)
Ask(c) == /\ reply' = [reply EXCEPT ![c] = 0]
          /\ UNCHANGED total

(* The callers are gone, the counters stay. *)
Reset == /\ reply' = [c \in Callers |-> 0]
         /\ UNCHANGED total

Next == \/ Reset
        \/ \E u \in Ids : \/ Clear(u)
                          \/ \E c \in Callers : Increment(c, u) \/ Get(c, u)
        \/ \E c \in Callers : Ask(c)

vars == <<total, reply>>

Spec == Init /\ [][Next]_vars
=============================================================================
