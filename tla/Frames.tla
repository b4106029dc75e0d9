-------------------------------- MODULE Frames --------------------------------
(***************************************************************************)
(* ws_event_handler() (discord/gateway.c) on WEBSOCKET_EVENT_DATA.  A      *)
(* message is one frame or several, with control frames in between; the    *)
(* WebSocket client reports each frame in pieces, over connections that    *)
(* break, and the pieces are put together in one buffer.  What a message   *)
(* says is module Inbound's matter.                                        *)
(***************************************************************************)
EXTENDS Integers, Sequences

CONSTANTS
    Lengths,         \* lengths of a frame
    Piece,           \* the client's buffer: the longest piece it reports
    RECV_BUF_SIZE,   \* 16384
    MaxFrames        \* bound: frames sent

ASSUME FramesAssumption ==
    /\ Lengths \subseteq Nat \ {0} /\ Piece \in Nat \ {0}
    /\ RECV_BUF_SIZE \in Nat \ {0} /\ MaxFrames \in Nat

VARIABLES
    sent,       \* the frame on its way: [id, op, fin, open, len, offset]; the
                \* last of its message when fin; open: its message goes on
    recv_buf,   \* gateway.c: whose bytes they are, as <<frame, place>>
    recv_total,
    handled,    \* history: frames processed, 0 for a mixture
    whole       \* history: frames of text that came to the end and fit

frames == <<sent, recv_buf, recv_total, handled, whole>>

FramesTypeOK ==
    /\ sent.id \in 0..MaxFrames /\ sent.offset \in 0..sent.len
    /\ sent.op \in {"text", "more", "control"}
    /\ sent.fin \in BOOLEAN /\ sent.open \in BOOLEAN
    /\ recv_buf \in Seq((0..MaxFrames) \X Nat)
    /\ Len(recv_buf) < RECV_BUF_SIZE
    /\ recv_total \in Lengths \cup {0}
    /\ handled \in Seq(0..MaxFrames) /\ whole \in Seq(1..MaxFrames)

FramesInit ==
    /\ sent = [id |-> 0, op |-> "control", fin |-> TRUE, open |-> FALSE,
               len |-> 0, offset |-> 0]
    /\ recv_buf = <<>> /\ recv_total = 0
    /\ handled = <<>> /\ whole = <<>>

-----------------------------------------------------------------------------
(* Discord and the client: a message begins, goes on, or is interrupted by  *)
(* a control frame.                                                         *)
SendFrames(len) ==
    /\ sent.offset = sent.len /\ sent.id < MaxFrames
    /\ \E op \in {IF sent.open THEN "more" ELSE "text", "control"},
          fin \in BOOLEAN :
          sent' = [id |-> sent.id + 1, op |-> op, fin |-> fin,
                   open |-> IF op = "control" THEN sent.open ELSE ~fin,
                   len |-> len, offset |-> 0]
    /\ UNCHANGED <<recv_buf, recv_total, handled, whole>>

(* The connection ends in the middle; the next one starts with a message.   *)
DropFrames ==
    /\ sent.offset < sent.len \/ sent.open
    /\ sent' = [sent EXCEPT !.len = sent.offset, !.open = FALSE]
    /\ UNCHANGED <<recv_buf, recv_total, handled, whole>>

-----------------------------------------------------------------------------
(* ws_event_handler() *)

(* op_code 0x01 or 0x00 *)
Accepted == sent.op \in {"text", "more"}

(* Mutant of Kept: what an earlier frame left stays in front. *)
KeptAlways == recv_buf

(* payload_offset is 0 at the start of every frame. *)
Kept == IF sent.offset = 0 THEN <<>> ELSE recv_buf

(* Mutant of Space: no place for the terminating zero. *)
SpaceToTheEnd == RECV_BUF_SIZE - Len(Kept)

Space == RECV_BUF_SIZE - Len(Kept) - 1

Total == IF sent.offset = 0 THEN sent.len ELSE recv_total

(* The buffer holds one frame from its first byte to its last. *)
Complete(buf) == buf = [i \in 1..sent.len |-> <<sent.id, i>>]

(* A step that takes the last piece the buffer waits for: what is there      *)
(* goes to gateway_process_message().                                       *)
Arrives == Accepted /\ Len(recv_buf') >= recv_total'

Data(n) ==
    /\ sent.offset + n <= sent.len
    /\ sent' = [sent EXCEPT !.offset = @ + n]
    /\ IF ~Accepted THEN UNCHANGED <<recv_buf, recv_total>>
       ELSE /\ recv_total' = Total
            /\ LET copy == IF n < Space THEN n ELSE Space
               IN recv_buf' = Kept \o [i \in 1..copy |-> <<sent.id, sent.offset + i>>]
    /\ whole' = IF /\ Accepted /\ sent.offset + n = sent.len
                   /\ sent.len < RECV_BUF_SIZE
                THEN Append(whole, sent.id) ELSE whole
    /\ handled' = IF ~Arrives THEN handled
                  ELSE Append(handled, IF Complete(recv_buf') THEN sent.id ELSE 0)

FramesNext == \/ \E len \in Lengths : SendFrames(len)
              \/ DropFrames
              \/ \E n \in 1..Piece : Data(n)

FramesSpec == FramesInit /\ [][FramesNext]_frames

-----------------------------------------------------------------------------
(* What is processed is every frame of text that came to its end and fits   *)
(* the buffer, each once, in order and unmixed with others or with control  *)
(* frames, however the client cuts it and wherever connections break        *)
(* (ws_event_handler).  So a message of one frame is processed as a whole;  *)
(* one of several is not put together, whatever the comment at 345 says,    *)
(* but processed frame by frame.                                            *)
FramesWhole == handled = whole
=============================================================================
