-------------------------------- MODULE Buzzer --------------------------------
(***************************************************************************)
(* hardware/buzzer.c: tasks sound patterns on one PWM channel, without a   *)
(* lock.  The driver sets a duty first and takes it over with an update;   *)
(* waits between the calls are left to the scheduler.                      *)
(***************************************************************************)
EXTENDS Integers, Sequences

CONSTANT Tasks    \* the tasks that beep

VARIABLES
    pattern,      \* the driver calls each task still has to make
    duty,         \* set, and waiting for an update
    sounding      \* what the channel puts out

buzzer == <<pattern, duty, sounding>>

Call == {"on", "off", "update"}

BuzzerTypeOK == /\ pattern \in [Tasks -> Seq(Call)]
                /\ duty \in BOOLEAN /\ sounding \in BOOLEAN

BuzzerInit == /\ pattern = [t \in Tasks |-> <<>>]
              /\ duty = FALSE /\ sounding = FALSE

BeepOn == <<"on", "update">>

(* Mutant of BeepOff: updated first, set then. *)
BeepOffSwapped == <<"update", "off">>

BeepOff == <<"off", "update">>

OneBeep == BeepOn \o BeepOff

(* buzzer_beep(count); a long tone makes the calls of a single beep *)
Beep(count) == [i \in 1..(4 * count) |-> OneBeep[((i - 1) % 4) + 1]]

LongTone == Beep(1)

Quiet(t) == pattern[t] = <<>>

(* Other modules call this in an action of task t. *)
StartPattern(t, calls) == /\ Quiet(t)
                          /\ pattern' = [pattern EXCEPT ![t] = calls]
                          /\ UNCHANGED <<duty, sounding>>

(* One call of the driver *)
Drive(t) ==
    /\ ~Quiet(t)
    /\ LET call == Head(pattern[t])
       IN /\ duty' = IF call = "update" THEN duty ELSE call = "on"
          /\ sounding' = IF call = "update" THEN duty ELSE sounding
    /\ pattern' = [pattern EXCEPT ![t] = Tail(@)]

(* However two tasks' patterns overlap, the buzzer is silent when both have *)
(* ended (beep_on, beep_off: a set and an update that may be torn apart).   *)
SilentAtRest == (\A t \in Tasks : Quiet(t)) => ~sounding /\ ~duty
=============================================================================
