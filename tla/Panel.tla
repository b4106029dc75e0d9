-------------------------------- MODULE Panel --------------------------------
(***************************************************************************)
(* The two buttons, from the finger to what the hardware task does: the    *)
(* contacts bounce, btn_isr() (hardware/buttons.c) reads the level some    *)
(* time after the edge that called it, a queue of four holds the events,   *)
(* and hardware_task() (hardware/display.c) handles one in a round,        *)
(* beeping (module Buzzer) and waiting for the web server to stop          *)
(* meanwhile.  Time is in ticks; what the screen shows is left out.        *)
(***************************************************************************)
EXTENDS Buzzer

CONSTANTS
    QUEUE_LEN,     \* 4
    DEBOUNCE,      \* 50 ms, in ticks
    LONG_PRESS,    \* 2 s
    LOCKOUT,       \* 1.5 s
    Bouncy,        \* bound: buttons whose contacts bounce
    MaxPresses,    \* bound: presses
    MaxViolations  \* bound: patterns of the WebSocket task

ASSUME PanelAssumption ==
    /\ Tasks = {"hardware", "ws"}
    /\ {QUEUE_LEN, DEBOUNCE} \subseteq Nat \ {0}
    /\ {MaxPresses, MaxViolations} \subseteq Nat /\ Bouncy \subseteq {"A", "B"}
    /\ LOCKOUT \in DEBOUNCE..LONG_PRESS /\ LONG_PRESS \in Nat

VARIABLES
    finger,      \* how long each button has been held down, -1 for not
    level,       \* its contact is closed
    bouncing,    \* its contact has not settled
    intr,        \* its interrupt is pending
    s_state,     \* buttons.c: ticks since press_us, -1 when not pressed
    queue,       \* s_evt_queue
    pc,          \* hardware task: "loop", or "stopping" the web server
    mod_muted,
    since,       \* ticks since s_last_cfg_toggle_us, up to LOCKOUT
    server,      \* s_server is there
    handling,    \* the web server's handler: "no", "receives" a body, "works"
    owed,        \* history: events that presses called for less those queued
    lost,        \* history: events lost at a full queue or to a bounce
    late,        \* history: an interrupt of this press has waited a tick
    presses, violations

buttons  == <<finger, level, bouncing>>
hardware == <<pc, mod_muted, since, server>>
bounds   == <<presses, violations>>
accounts == <<owed, lost, late>>
vars == <<buttons, intr, s_state, queue, hardware, handling, accounts, bounds,
          buzzer>>

Button == {"A", "B"}
Type   == {"short", "long"}
Event  == [id : Button, type : Type]

Older(age) == IF age \in 0..(LONG_PRESS - 1) THEN age + 1 ELSE age

TypeOK ==
    /\ BuzzerTypeOK
    /\ finger \in [Button -> -1..LONG_PRESS]
    /\ level \in [Button -> BOOLEAN] /\ bouncing \in [Button -> BOOLEAN]
    /\ intr \in [Button -> BOOLEAN]
    /\ s_state \in [Button -> -1..LONG_PRESS]
    /\ queue \in Seq(Event) /\ Len(queue) <= QUEUE_LEN
    /\ pc \in {"loop", "stopping"} /\ mod_muted \in BOOLEAN
    /\ since \in 0..LOCKOUT
    /\ server \in BOOLEAN /\ handling \in {"no", "receives", "works"}
    /\ handling # "no" => server
    /\ owed \in [Event -> -MaxPresses..MaxPresses]
    /\ lost \in [Event -> 0..MaxPresses] /\ late \in [Button -> BOOLEAN]
    /\ presses \in 0..MaxPresses /\ violations \in 0..MaxViolations

Init ==
    /\ BuzzerInit
    /\ finger = [b \in Button |-> -1]
    /\ level = [b \in Button |-> FALSE] /\ bouncing = [b \in Button |-> FALSE]
    /\ intr = [b \in Button |-> FALSE]
    /\ s_state = [b \in Button |-> -1]
    /\ queue = <<>>
    /\ pc = "loop" /\ mod_muted = FALSE /\ since = LOCKOUT
    /\ server = FALSE /\ handling = "no"
    /\ owed = [e \in Event |-> 0] /\ lost = [e \in Event |-> 0]
    /\ late = [b \in Button |-> FALSE]
    /\ presses = 0 /\ violations = 0

-----------------------------------------------------------------------------
(* Fingers, contacts and time. *)

(* The contact closes or opens: an interrupt, merged with one that waits. *)
Edge(b, closed) ==
    /\ level' = [level EXCEPT ![b] = closed]
    /\ intr' = [intr EXCEPT ![b] = TRUE]

Held(b) == finger[b] >= 0

TypeHeld(ticks) == IF ticks >= LONG_PRESS THEN "long" ELSE "short"

(* The accounts are closed for a press whose interrupt was late. *)
Counted(account, event, n) ==
    [account EXCEPT ![event] = IF late[event.id] THEN @ ELSE @ + n]

Unmoved == <<s_state, queue, hardware, handling, lost, late, violations, buzzer>>

Press(b) ==
    /\ ~Held(b) /\ presses < MaxPresses /\ presses' = presses + 1
    /\ finger' = [finger EXCEPT ![b] = 0]
    /\ bouncing' = [bouncing EXCEPT ![b] = b \in Bouncy]
    /\ Edge(b, TRUE)
    /\ UNCHANGED <<Unmoved, owed>>

Release(b) ==
    /\ Held(b)
    /\ finger' = [finger EXCEPT ![b] = -1]
    /\ bouncing' = [bouncing EXCEPT ![b] = b \in Bouncy]
    /\ Edge(b, FALSE)
    /\ IF finger[b] < DEBOUNCE THEN UNCHANGED owed
       ELSE owed' = Counted(owed, [id |-> b, type |-> TypeHeld(finger[b])], 1)
    /\ UNCHANGED <<Unmoved, presses>>

Bounce(b) ==
    /\ bouncing[b]
    /\ Edge(b, ~level[b])
    /\ UNCHANGED <<finger, bouncing, Unmoved, owed, presses>>

(* Contacts settle within a tick.  An interrupt that waits any longer, while *)
(* flash is written, is late, until the button is up and read as such.      *)
Tick ==
    /\ \A b \in Button : level[b] = Held(b)
    /\ finger' = [b \in Button |-> Older(finger[b])]
    /\ bouncing' = [b \in Button |-> FALSE]
    /\ s_state' = [b \in Button |-> Older(s_state[b])]
    /\ since' = IF since < LOCKOUT THEN since + 1 ELSE since
    /\ late' = [b \in Button |-> intr[b] \/ (late[b] /\ Held(b))]
    /\ owed' = [e \in Event |-> IF intr[e.id] THEN 0 ELSE owed[e]]
    /\ lost' = [e \in Event |-> IF intr[e.id] THEN 0 ELSE lost[e]]
    /\ UNCHANGED <<level, intr, queue, pc, mod_muted, server, handling, bounds,
                   buzzer>>

-----------------------------------------------------------------------------
(* hardware/buttons.c *)

(* Mutant of Ripe: the limit missed by one. *)
RipeOver(b) == s_state[b] > DEBOUNCE

(* The release ends a press, and one that is no bounce. *)
Ripe(b) == s_state[b] >= DEBOUNCE

(* Mutant of Put: no limit. *)
PutUnbounded(evt) == queue' = Append(queue, evt)

(* xQueueSendFromISR(): an event that finds the queue full is dropped. *)
Put(evt) == queue' = IF Len(queue) < QUEUE_LEN THEN Append(queue, evt)
                     ELSE queue

TypeOf(b) == TypeHeld(s_state[b])

(* A press has ended, and the ISR has not read the contact open since. *)
Unheard(b) == finger[b] <= 0 /\ s_state[b] >= DEBOUNCE

(* btn_isr(): a contact that is closed starts the clock anew, whatever press *)
(* was being timed.                                                         *)
Isr(b) ==
    /\ intr[b]
    /\ intr' = [intr EXCEPT ![b] = FALSE]
    /\ IF level[b]
       THEN /\ s_state' = [s_state EXCEPT ![b] = 0]
            /\ lost' = IF Unheard(b)
                       THEN Counted(lost, [id |-> b, type |-> TypeOf(b)], 1)
                       ELSE lost
            /\ UNCHANGED <<queue, owed>>
       ELSE /\ s_state' = [s_state EXCEPT ![b] = -1]
            /\ IF ~Ripe(b) THEN UNCHANGED <<queue, owed, lost>>
               ELSE LET evt == [id |-> b, type |-> TypeOf(b)]
                    IN /\ Put(evt)
                       /\ IF Len(queue) < QUEUE_LEN
                          THEN owed' = Counted(owed, evt, -1) /\ UNCHANGED lost
                          ELSE lost' = Counted(lost, evt, 1) /\ UNCHANGED owed
    /\ UNCHANGED <<buttons, hardware, handling, late, bounds, buzzer>>

-----------------------------------------------------------------------------
(* hardware_task() *)

BeepNow(count) == StartPattern("hardware", Beep(count))

ShortPress(evt) ==
    /\ evt.type = "short"
    /\ UNCHANGED <<hardware, buzzer>>

Mute(evt) ==
    /\ evt = [id |-> "A", type |-> "long"]
    /\ mod_muted' = ~mod_muted
    /\ BeepNow(IF mod_muted' THEN 3 ELSE 1)
    /\ UNCHANGED <<pc, since, server>>

(* The server is switched on, or is to stop; httpd_start() may fail. *)
Toggle(evt) ==
    /\ evt = [id |-> "B", type |-> "long"]
    /\ IF since < LOCKOUT THEN UNCHANGED <<hardware, buzzer>>
       ELSE /\ since' = 0
            /\ IF server
               THEN pc' = "stopping" /\ UNCHANGED <<server, buzzer>>
               ELSE /\ server' \in BOOLEAN /\ BeepNow(1) /\ UNCHANGED pc
            /\ UNCHANGED mod_muted

(* Mutant of Take: the event stays at the head of the queue. *)
TakePeek == queue' = queue

Take == queue' = Tail(queue)

Round ==
    /\ pc = "loop" /\ Quiet("hardware") /\ queue # <<>>
    /\ Take
    /\ \/ ShortPress(Head(queue)) \/ Mute(Head(queue)) \/ Toggle(Head(queue))
    /\ UNCHANGED <<buttons, intr, s_state, handling, accounts, bounds>>

(* httpd_stop() returns when no handler runs. *)
Stopped ==
    /\ pc = "stopping" /\ handling = "no"
    /\ server' = FALSE /\ pc' = "loop" /\ BeepNow(1)
    /\ UNCHANGED <<mod_muted, since, buttons, intr, s_state, queue, handling,
                   accounts, bounds>>

-----------------------------------------------------------------------------
(* The other tasks. *)

Handler(from, to) ==
    /\ handling = from /\ handling' = to
    /\ UNCHANGED <<buttons, intr, s_state, queue, hardware, accounts, bounds,
                   buzzer>>

HandlerBegins == server /\ pc = "loop" /\ Handler("no", "receives")

(* A read that times out is repeated without end. *)
BodyComes == Handler("receives", "works")

HandlerEnds == Handler("works", "no")

(* A violation: two beeps, and a long tone from the third on (filter.c) *)
Violation ==
    /\ violations < MaxViolations /\ violations' = violations + 1
    /\ \E tone \in {<<>>, LongTone} : StartPattern("ws", Beep(2) \o tone)
    /\ UNCHANGED <<buttons, intr, s_state, queue, hardware, handling, accounts,
                   presses>>

Sound(t) ==
    /\ Drive(t)
    /\ UNCHANGED <<buttons, intr, s_state, queue, hardware, handling, accounts,
                   bounds>>

Next == \/ \E b \in Button : Press(b) \/ Release(b) \/ Bounce(b) \/ Isr(b)
        \/ Tick \/ Round \/ Stopped \/ Violation
        \/ HandlerBegins \/ BodyComes \/ HandlerEnds
        \/ \E t \in Tasks : Sound(t)

Spec == Init /\ [][Next]_vars

(* The hardware task gets its turns, and a handler that has its body comes   *)
(* to its end; nothing makes a client send the body.                        *)
LiveSpec == Spec /\ WF_vars(Round) /\ WF_vars(Stopped) /\ WF_vars(HandlerEnds)
                 /\ WF_vars(Sound("hardware"))

-----------------------------------------------------------------------------
(* Properties. *)

NoSpuriousEvent == \A e \in Event : owed[e] >= lost[e]

NoLostPress ==
    \A b \in Button :
       ~late[b] /\ ~Held(b) /\ ~intr[b] =>
          \A e \in Event : e.id = b => owed[e] = lost[e]

(* One event in the queue for one press, of the type its time calls for:    *)
(* none without a press, however the contact bounces and interrupts merge,  *)
(* and none missing except, one for one, those the ISR made at a full queue *)
(* and those of presses whose release it read only when the contact had     *)
(* closed again.  A press with an interrupt that waited a tick and more is  *)
(* left out, for better or worse (btn_isr).                                 *)
OneEventPerPress == NoSpuriousEvent /\ NoLostPress

(* Every event is handled in the end, whatever pattern or handler the       *)
(* hardware task has to wait for, except while the web server, asked to     *)
(* stop, waits for the body of a form (hardware_task, web_server_stop,      *)
(* handler_post_save).                                                      *)
EventsHandled ==
    queue # <<>> ~> queue = <<>> \/ (pc = "stopping" /\ handling = "receives")
=============================================================================
