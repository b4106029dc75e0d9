------------------------------- MODULE Outbox -------------------------------
(***************************************************************************)
(* What discord/rest.c promises for the requests that tasks leave in its   *)
(* queue: they are taken in the order they were accepted, one at a time,   *)
(* and each takes effect at Discord once or not at all.                    *)
(***************************************************************************)
EXTENDS Naturals, Sequences

CONSTANTS Requests, Depth, None

VARIABLES queue, serving, applied

Init == queue = <<>> /\ serving = None /\ applied = <<>>

Accept(r) == /\ Len(queue) < Depth
             /\ queue' = Append(queue, r)
             /\ UNCHANGED <<serving, applied>>

Take == /\ serving = None /\ queue # <<>>
        /\ serving' = Head(queue)
        /\ queue' = Tail(queue)
        /\ UNCHANGED applied

TakesEffect ==
    /\ serving # None
    /\ \A i \in DOMAIN applied : applied[i] # serving
    /\ applied' = Append(applied, serving)
    /\ UNCHANGED <<queue, serving>>

Finish == /\ serving # None
          /\ serving' = None
          /\ UNCHANGED <<queue, applied>>

Next == Take \/ TakesEffect \/ Finish \/ \E r \in Requests : Accept(r)

Spec == Init /\ [][Next]_<<queue, serving, applied>>
=============================================================================
