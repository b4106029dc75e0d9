----------------------------- MODULE PanelProofs -----------------------------
(***************************************************************************)
(* The buttons and the buzzer, for every debounce time, length of the      *)
(* queue and number of presses: one event for one press, and silence at    *)
(* the end.                                                                *)
(***************************************************************************)
EXTENDS Panel, SequenceTheorems, TLAPS

(* A pattern still to come: each "on" is followed by an "off", and the last *)
(* call is an update.                                                       *)
Closes(q) ==
    /\ \A i \in 1..Len(q) : q[i] = "on" => \E j \in 1..Len(q) : j > i /\ q[j] = "off"
    /\ q # <<>> => q[Len(q)] = "update"

HasOff(q) == \E i \in 1..Len(q) : q[i] = "off"

BuzzerInv ==
    /\ BuzzerTypeOK
    /\ \A t \in Tasks : Closes(pattern[t])
    /\ duty => \E t \in Tasks : HasOff(pattern[t])
    /\ sounding => \E t \in Tasks : ~Quiet(t)

Shape ==
    /\ finger \in [Button -> -1..LONG_PRESS]
    /\ level \in [Button -> BOOLEAN] /\ bouncing \in [Button -> BOOLEAN]
    /\ intr \in [Button -> BOOLEAN]
    /\ s_state \in [Button -> -1..LONG_PRESS]
    /\ late \in [Button -> BOOLEAN]
    /\ owed \in [Event -> Int] /\ lost \in [Event -> Int]
    /\ presses \in 0..MaxPresses

RestShape ==
    /\ queue \in Seq(Event) /\ Len(queue) <= QUEUE_LEN
    /\ pc \in {"loop", "stopping"} /\ mod_muted \in BOOLEAN
    /\ since \in 0..LOCKOUT
    /\ server \in BOOLEAN /\ handling \in {"no", "receives", "works"}
    /\ handling # "no" => server
    /\ violations \in 0..MaxViolations

Evt(b, type) == [id |-> b, type |-> type]

(* A press whose interrupts were never late: the ISR's clock agrees with     *)
(* the finger, except for a release it has still to hear of; that press is  *)
(* owed, beside the events that were lost.                                  *)
AgreeInv(b) ==
    /\ ~intr[b] => (s_state[b] >= 0 <=> level[b])
    /\ ~late[b] =>
          /\ finger[b] >= 1 => /\ s_state[b] = finger[b]
                               /\ ~intr[b] /\ level[b] /\ ~bouncing[b]
          /\ finger[b] <= 0 /\ ~intr[b] => s_state[b] <= 0

Open(b, type) == IF ~late[b] /\ Unheard(b) /\ type = TypeOf(b) THEN 1 ELSE 0

OwedInv(b) ==
    \A type \in Type :
       /\ lost[Evt(b, type)] >= 0
       /\ owed[Evt(b, type)] = lost[Evt(b, type)] + Open(b, type)
       /\ owed[Evt(b, type)] + (IF Held(b) THEN 1 ELSE 0) <= presses

PressInv == \A b \in Button : AgreeInv(b) /\ OwedInv(b)
-----------------------------------------------------------------------------

(* The buzzer. *)
LEMMA BeepCloses ==
    ASSUME NEW count \in Nat \ {0}
    PROVE  Beep(count) \in Seq(Call) /\ Closes(Beep(count))
<1>. DEFINE q == Beep(count)
            len == 4 * count
<1>1. /\ OneBeep[1] = "on" /\ OneBeep[2] = "update"
      /\ OneBeep[3] = "off" /\ OneBeep[4] = "update"
  BY DEF OneBeep, BeepOn, BeepOff
<1>2. len \in Nat /\ len >= 4 /\ len % 4 = 0
  OBVIOUS
<1>3. \A i \in 1..len : ((i - 1) % 4) + 1 \in {1, 2, 3, 4}
  OBVIOUS
<1>4. \A i \in 1..len : OneBeep[((i - 1) % 4) + 1] \in Call
  BY <1>1, <1>3 DEF Call
<1>5. q \in Seq(Call) /\ Len(q) = len
      /\ \A i \in 1..len : q[i] = OneBeep[((i - 1) % 4) + 1]
  BY <1>2, <1>4, IsASeq, LenProperties DEF Beep
<1>6. q[len] = "update"
  <2>1. len \in 1..len /\ ((len - 1) % 4) + 1 = 4
    BY <1>2
  <2>. QED BY <1>1, <1>5, <2>1
<1>7. ASSUME NEW i \in 1..len, q[i] = "on"
      PROVE  i + 2 \in 1..len /\ q[i + 2] = "off"
  <2>1. (i - 1) % 4 = 0
    <3>1. ((i - 1) % 4) + 1 = 1
      <4>. HIDE DEF q, len
      <4>. QED BY <1>1, <1>3, <1>5, <1>7
    <3>. QED BY <3>1
  <2>2. i + 2 \in 1..len /\ (((i + 2) - 1) % 4) + 1 = 3
    BY <1>2, <2>1
  <2>. QED BY <1>1, <1>5, <2>2
<1>8. \A i \in 1..Len(q) : q[i] = "on" => \E j \in 1..Len(q) : j > i /\ q[j] = "off"
  <2>. SUFFICES ASSUME NEW i \in 1..len, q[i] = "on"
                PROVE  \E j \in 1..len : j > i /\ q[j] = "off"
    BY <1>5
  <2>1. i + 2 \in 1..len /\ q[i + 2] = "off" /\ i + 2 > i
    BY <1>7
  <2>. QED BY <2>1
<1>. HIDE DEF q
<1>9. Closes(q)
  BY <1>5, <1>6, <1>8 DEF Closes
<1>. QED BY <1>5, <1>9 DEF q

LEMMA ConcatCloses ==
    ASSUME NEW p \in Seq(Call), NEW q \in Seq(Call), Closes(p), Closes(q)
    PROVE  p \o q \in Seq(Call) /\ Closes(p \o q)
<1>. DEFINE r == p \o q
<1>1. /\ r \in Seq(Call) /\ Len(p) \in Nat /\ Len(q) \in Nat
      /\ Len(r) = Len(p) + Len(q)
      /\ \A i \in 1..Len(p) : r[i] = p[i]
      /\ \A i \in 1..Len(q) : r[Len(p) + i] = q[i]
  <2>1. /\ r \in Seq(Call) /\ Len(p) \in Nat /\ Len(q) \in Nat
        /\ Len(r) = Len(p) + Len(q)
        /\ \A i \in 1..Len(r) : r[i] = IF i <= Len(p) THEN p[i] ELSE q[i - Len(p)]
    BY ConcatProperties, LenProperties
  <2>. HIDE DEF r
  <2>2. ASSUME NEW i \in 1..Len(p) PROVE r[i] = p[i]
    BY <2>1
  <2>3. ASSUME NEW i \in 1..Len(q) PROVE r[Len(p) + i] = q[i]
    <3>1. /\ Len(p) + i \in 1..Len(r) /\ ~(Len(p) + i <= Len(p))
          /\ (Len(p) + i) - Len(p) = i
      BY <2>1
    <3>. QED BY <2>1, <3>1
  <2>. QED BY <2>1, <2>2, <2>3
<1>. HIDE DEF r
<1>2. ASSUME NEW i \in 1..Len(r), r[i] = "on"
      PROVE  \E j \in 1..Len(r) : j > i /\ r[j] = "off"
  <2>1. CASE i \in 1..Len(p)
    <3>1. PICK j \in 1..Len(p) : j > i /\ p[j] = "off"
      BY <1>1, <1>2, <2>1 DEF Closes
    <3>. QED BY <1>1, <3>1
  <2>2. CASE i \notin 1..Len(p)
    <3>1. i - Len(p) \in 1..Len(q) /\ Len(p) + (i - Len(p)) = i
      BY <1>1, <2>2
    <3>2. q[i - Len(p)] = "on"
      BY <1>1, <1>2, <3>1
    <3>3. PICK j \in 1..Len(q) : j > i - Len(p) /\ q[j] = "off"
      BY <3>1, <3>2 DEF Closes
    <3>4. /\ Len(p) + j \in 1..Len(r) /\ Len(p) + j > i
          /\ r[Len(p) + j] = "off"
      BY <1>1, <3>3
    <3>. QED BY <3>4
  <2>. QED BY <2>1, <2>2
<1>3. ASSUME r # <<>> PROVE r[Len(r)] = "update"
  <2>1. CASE q = <<>>
    <3>1. Len(q) = 0 /\ Len(r) = Len(p) /\ Len(p) # 0
      BY <1>1, <1>3, <2>1, EmptySeq
    <3>2. p # <<>> /\ Len(p) \in 1..Len(p)
      BY <1>1, <3>1, EmptySeq
    <3>. QED BY <1>1, <3>1, <3>2 DEF Closes
  <2>2. CASE q # <<>>
    <3>1. Len(q) \in 1..Len(q)
      BY <1>1, <2>2, EmptySeq
    <3>. QED BY <1>1, <2>2, <3>1 DEF Closes
  <2>. QED BY <2>1, <2>2
<1>4. Closes(r)
  BY <1>2, <1>3 DEF Closes
<1>. QED BY <1>1, <1>4 DEF r

LEMMA TailCloses ==
    ASSUME NEW q \in Seq(Call), q # <<>>, Closes(q), NEW r, r = Tail(q)
    PROVE  /\ r \in Seq(Call) /\ Closes(r) /\ Head(q) \in Call
           /\ Head(q) = "on" => HasOff(r)
           /\ Head(q) # "off" /\ HasOff(q) => HasOff(r)
           /\ r = <<>> => Head(q) = "update"
<1>1. /\ r \in Seq(Call) /\ Len(q) \in Nat /\ Len(q) > 0
      /\ Len(r) = Len(q) - 1 /\ Head(q) = q[1] /\ Head(q) \in Call
      /\ \A i \in 1..Len(r) : i + 1 \in 1..Len(q) /\ r[i] = q[i + 1]
  <2>1. Len(q) \in Nat /\ Len(q) > 0
    BY LenProperties, EmptySeq
  <2>. QED BY <2>1, HeadTailProperties, ElementOfSeq
<1>2. \A j \in 1..Len(q) : j > 1 => j - 1 \in 1..Len(r) /\ r[j - 1] = q[j]
  <2>. SUFFICES ASSUME NEW j \in 1..Len(q), j > 1
                PROVE  j - 1 \in 1..Len(r) /\ r[j - 1] = q[j]
    OBVIOUS
  <2>1. j - 1 \in 1..Len(r) /\ (j - 1) + 1 = j
    BY <1>1
  <2>. QED BY <1>1, <2>1
<1>3. ASSUME NEW i \in 1..Len(r), r[i] = "on"
      PROVE  \E j \in 1..Len(r) : j > i /\ r[j] = "off"
  <2>1. i + 1 \in 1..Len(q) /\ q[i + 1] = "on"
    BY <1>1, <1>3
  <2>2. PICK j \in 1..Len(q) : j > i + 1 /\ q[j] = "off"
    BY <2>1 DEF Closes
  <2>3. j - 1 \in 1..Len(r) /\ j - 1 > i /\ r[j - 1] = "off"
    BY <1>1, <1>2, <2>2
  <2>. QED BY <2>3
<1>4. ASSUME r # <<>> PROVE r[Len(r)] = "update"
  <2>1. Len(r) \in 1..Len(r) /\ Len(r) + 1 = Len(q)
    BY <1>1, <1>4, EmptySeq
  <2>. QED BY <1>1, <2>1 DEF Closes
<1>5. ASSUME Head(q) = "on" PROVE HasOff(r)
  <2>1. 1 \in 1..Len(q) /\ q[1] = "on"
    BY <1>1, <1>5
  <2>2. PICK j \in 1..Len(q) : j > 1 /\ q[j] = "off"
    BY <2>1 DEF Closes
  <2>. QED BY <1>2, <2>2 DEF HasOff
<1>6. ASSUME Head(q) # "off", HasOff(q) PROVE HasOff(r)
  <2>1. PICK j \in 1..Len(q) : q[j] = "off"
    BY <1>6 DEF HasOff
  <2>2. j > 1
    BY <1>1, <1>6, <2>1
  <2>. QED BY <1>2, <2>1, <2>2 DEF HasOff
<1>7. ASSUME r = <<>> PROVE Head(q) = "update"
  <2>1. Len(q) = 1
    <3>1. Len(<<>>) = 0
      OBVIOUS
    <3>2. Len(r) = 0
      BY <1>7, <3>1, Zenon
    <3>. QED BY <1>1, <3>2
  <2>. QED BY <1>1, <2>1 DEF Closes
<1>8. Closes(r)
  BY <1>3, <1>4 DEF Closes
<1>. QED BY <1>1, <1>5, <1>6, <1>7, <1>8

LEMMA EmptyCloses == /\ <<>> \in Seq(Call) /\ Closes(<<>>) /\ ~HasOff(<<>>)
BY EmptySeq DEF Closes, HasOff

LEMMA BuzzerStart ==
    ASSUME BuzzerInv, NEW t \in Tasks, NEW calls \in Seq(Call), Closes(calls),
           StartPattern(t, calls)
    PROVE  BuzzerInv'
<1>1. /\ pattern \in [Tasks -> Seq(Call)] /\ duty \in BOOLEAN
      /\ sounding \in BOOLEAN
      /\ \A u \in Tasks : Closes(pattern[u])
      /\ duty => \E u \in Tasks : HasOff(pattern[u])
      /\ sounding => \E u \in Tasks : pattern[u] # <<>>
  BY DEF BuzzerInv, BuzzerTypeOK, Quiet
<1>2. /\ pattern[t] = <<>> /\ pattern' = [pattern EXCEPT ![t] = calls]
      /\ UNCHANGED <<duty, sounding>>
  BY DEF StartPattern, Quiet
<1>3. /\ pattern' \in [Tasks -> Seq(Call)] /\ pattern'[t] = calls
      /\ \A u \in Tasks \ {t} : pattern'[u] = pattern[u]
  BY <1>1, <1>2
<1>4. \A u \in Tasks : Closes(pattern'[u])
  BY <1>1, <1>3
<1>5. \A u \in Tasks : HasOff(pattern[u]) \/ pattern[u] # <<>> => u # t
  BY <1>2, EmptyCloses
<1>6. duty => \E u \in Tasks : HasOff(pattern'[u])
  BY <1>1, <1>3, <1>5
<1>7. sounding => \E u \in Tasks : pattern'[u] # <<>>
  BY <1>1, <1>3, <1>5
<1>. QED BY <1>1, <1>2, <1>3, <1>4, <1>6, <1>7
         DEF BuzzerInv, BuzzerTypeOK, Quiet, Closes, HasOff

LEMMA BuzzerDrive ==
    ASSUME BuzzerInv, NEW t \in Tasks, Drive(t)
    PROVE  BuzzerInv'
<1>1. /\ pattern \in [Tasks -> Seq(Call)] /\ duty \in BOOLEAN
      /\ sounding \in BOOLEAN
      /\ \A u \in Tasks : Closes(pattern[u])
      /\ duty => \E u \in Tasks : HasOff(pattern[u])
      /\ sounding => \E u \in Tasks : pattern[u] # <<>>
  BY DEF BuzzerInv, BuzzerTypeOK, Quiet
<1>. DEFINE q == pattern[t]
            call == Head(q)
<1>2. /\ q # <<>> /\ q \in Seq(Call) /\ Closes(q)
      /\ pattern' = [pattern EXCEPT ![t] = Tail(q)]
      /\ duty' = IF call = "update" THEN duty ELSE call = "on"
      /\ sounding' = IF call = "update" THEN duty ELSE sounding
  BY <1>1 DEF Drive, Quiet
<1>3. /\ pattern' \in [Tasks -> Seq(Call)] /\ pattern'[t] = Tail(q)
      /\ \A u \in Tasks \ {t} : pattern'[u] = pattern[u]
      /\ Closes(pattern'[t])
      /\ call \in Call
      /\ call = "on" => HasOff(pattern'[t])
      /\ call # "off" /\ HasOff(q) => HasOff(pattern'[t])
      /\ pattern'[t] = <<>> => call = "update"
  <2>. PICK r : r = Tail(q)
    OBVIOUS
  <2>1. /\ r \in Seq(Call) /\ Closes(r) /\ call \in Call
        /\ call = "on" => HasOff(r)
        /\ call # "off" /\ HasOff(q) => HasOff(r)
        /\ r = <<>> => call = "update"
    BY <1>2, TailCloses
  <2>2. /\ pattern' \in [Tasks -> Seq(Call)] /\ pattern'[t] = r
        /\ \A u \in Tasks \ {t} : pattern'[u] = pattern[u]
    BY <1>1, <1>2, <2>1
  <2>. QED BY <2>1, <2>2
<1>. HIDE DEF call
<1>4. duty' \in BOOLEAN /\ sounding' \in BOOLEAN
  BY <1>1, <1>2
<1>5. \A u \in Tasks : Closes(pattern'[u])
  BY <1>1, <1>3
<1>6. ASSUME duty' PROVE \E u \in Tasks : HasOff(pattern'[u])
  <2>1. CASE call = "update"
    <3>1. PICK u \in Tasks : HasOff(pattern[u])
      BY <1>1, <1>2, <1>6, <2>1
    <3>. QED BY <1>3, <2>1, <3>1
  <2>2. CASE call # "update"
    BY <1>2, <1>3, <1>6, <2>2
  <2>. QED BY <2>1, <2>2
<1>7. ASSUME sounding' PROVE \E u \in Tasks : pattern'[u] # <<>>
  <2>1. CASE call = "update"
    <3>1. duty'
      BY <1>2, <1>7, <2>1
    <3>. QED BY <1>6, <3>1, EmptyCloses
  <2>2. CASE call # "update"
    BY <1>3, <2>2
  <2>. QED BY <2>1, <2>2
<1>. HIDE DEF q
<1>. QED BY <1>3, <1>4, <1>5, <1>6, <1>7
         DEF BuzzerInv, BuzzerTypeOK, Quiet, Closes, HasOff

LEMMA BuzzerNext == BuzzerInv /\ [Next]_vars => BuzzerInv'
<1>. SUFFICES ASSUME BuzzerInv, [Next]_vars PROVE BuzzerInv'
  OBVIOUS
<1>k. ASSUME UNCHANGED buzzer PROVE BuzzerInv'
  BY <1>k DEF buzzer, BuzzerInv, BuzzerTypeOK, Quiet, Closes, HasOff
<1>n. ASSUME NEW count \in Nat \ {0}, BeepNow(count) PROVE BuzzerInv'
  <2>1. Beep(count) \in Seq(Call) /\ Closes(Beep(count))
    BY BeepCloses
  <2>2. "hardware" \in Tasks /\ StartPattern("hardware", Beep(count))
    BY <1>n, PanelAssumption DEF BeepNow
  <2>. QED BY <2>1, <2>2, BuzzerStart
<1>1. CASE Round
  <2>1. CASE ShortPress(Head(queue))
    BY <1>k, <2>1 DEF ShortPress
  <2>2. CASE Mute(Head(queue))
    <3>1. BeepNow(IF mod_muted' THEN 3 ELSE 1)
      BY <2>2 DEF Mute
    <3>. QED BY <1>n, <3>1
  <2>3. CASE Toggle(Head(queue))
    <3>1. UNCHANGED buzzer \/ BeepNow(1)
      BY <2>3, Zenon DEF Toggle
    <3>. QED BY <1>k, <1>n, <3>1
  <2>. QED BY <1>1, <2>1, <2>2, <2>3 DEF Round
<1>2. CASE Stopped
  BY <1>2, <1>n DEF Stopped
<1>3. CASE Violation
  <2>1. PICK tone \in {<<>>, LongTone} : StartPattern("ws", Beep(2) \o tone)
    BY <1>3 DEF Violation
  <2>2. tone \in Seq(Call) /\ Closes(tone)
    <3>1. LongTone \in Seq(Call) /\ Closes(LongTone)
      BY BeepCloses DEF LongTone
    <3>. QED BY <2>1, <3>1, EmptyCloses
  <2>3. Beep(2) \o tone \in Seq(Call) /\ Closes(Beep(2) \o tone)
    <3>1. PICK p : p = Beep(2)
      OBVIOUS
    <3>2. p \in Seq(Call) /\ Closes(p)
      BY <3>1, BeepCloses
    <3>. QED BY <2>2, <3>1, <3>2, ConcatCloses
  <2>. QED BY <2>1, <2>3, BuzzerStart, PanelAssumption
<1>4. ASSUME NEW t \in Tasks, Sound(t) PROVE BuzzerInv'
  BY <1>4, BuzzerDrive DEF Sound
<1>5. ASSUME NEW b \in Button, Press(b) \/ Release(b) \/ Bounce(b) \/ Isr(b)
      PROVE  BuzzerInv'
  BY <1>5, <1>k DEF Press, Release, Bounce, Isr, Unmoved
<1>6. CASE Tick \/ HandlerBegins \/ BodyComes \/ HandlerEnds \/ UNCHANGED vars
  BY <1>6, <1>k DEF Tick, HandlerBegins, BodyComes, HandlerEnds, Handler, vars
<1>. QED BY <1>1, <1>2, <1>3, <1>4, <1>5, <1>6 DEF Next

LEMMA BuzzerBegins == Init => BuzzerInv
<1>. SUFFICES ASSUME Init PROVE BuzzerInv
  OBVIOUS
<1>1. /\ pattern = [t \in Tasks |-> <<>>] /\ duty = FALSE /\ sounding = FALSE
  BY DEF Init, BuzzerInit
<1>. QED BY <1>1, EmptyCloses DEF BuzzerInv, BuzzerTypeOK

LEMMA BuzzerIsSafe == Spec => []BuzzerInv
BY BuzzerBegins, BuzzerNext, PTL DEF Spec

(* When both tasks have ended their patterns the buzzer is silent, however   *)
(* their set and update calls came in between each other (beep_on,           *)
(* beep_off).                                                                *)
THEOREM EndsSilent == Spec => []SilentAtRest
<1>1. BuzzerInv => SilentAtRest
  <2>. SUFFICES ASSUME BuzzerInv, \A t \in Tasks : Quiet(t)
                PROVE  ~sounding /\ ~duty
    BY DEF SilentAtRest
  <2>1. \A t \in Tasks : ~HasOff(pattern[t])
    BY EmptyCloses DEF Quiet
  <2>. QED BY <2>1 DEF BuzzerInv
<1>. QED BY <1>1, BuzzerIsSafe, PTL

-----------------------------------------------------------------------------
(* The hardware task, the queue and the web server. *)
LEMMA PutFits ==
    ASSUME RestShape, NEW e \in Event, Put(e)
    PROVE  queue' \in Seq(Event) /\ Len(queue') <= QUEUE_LEN
<1>1. queue \in Seq(Event) /\ Len(queue) <= QUEUE_LEN /\ QUEUE_LEN \in Nat
      /\ Len(queue) \in Nat
  BY LenProperties, PanelAssumption DEF RestShape
<1>2. CASE Len(queue) < QUEUE_LEN
  <2>1. queue' = Append(queue, e)
    BY <1>2 DEF Put
  <2>. QED BY <1>1, <1>2, <2>1
<1>3. CASE ~(Len(queue) < QUEUE_LEN)
  BY <1>1, <1>3 DEF Put
<1>. QED BY <1>2, <1>3

LEMMA TakeFits ==
    ASSUME RestShape, queue # <<>>, Take
    PROVE  queue' \in Seq(Event) /\ Len(queue') <= QUEUE_LEN
<1>1. /\ queue \in Seq(Event) /\ Len(queue) <= QUEUE_LEN /\ QUEUE_LEN \in Nat
      /\ Len(queue) \in Nat /\ queue' = Tail(queue)
  BY LenProperties, PanelAssumption DEF RestShape, Take
<1>2. queue' \in Seq(Event) /\ Len(queue') = Len(queue) - 1
  BY <1>1, HeadTailProperties
<1>. QED BY <1>1, <1>2

LEMMA RestNext == Shape /\ RestShape /\ [Next]_vars => RestShape'
<1>. SUFFICES ASSUME Shape, RestShape, [Next]_vars PROVE RestShape'
  OBVIOUS
<1>. USE DEF hardware, bounds
<1>k. ASSUME UNCHANGED <<queue, hardware, handling, violations>> PROVE RestShape'
  BY <1>k DEF RestShape
<1>1. ASSUME NEW b \in Button, Isr(b) PROVE RestShape'
  <2>1. UNCHANGED <<hardware, handling, violations>>
    BY <1>1 DEF Isr
  <2>2. queue' \in Seq(Event) /\ Len(queue') <= QUEUE_LEN
    <3>. DEFINE evt == [id |-> b, type |-> TypeOf(b)]
    <3>1. evt \in Event
      BY DEF Event, Type, TypeOf, TypeHeld
    <3>2. UNCHANGED queue \/ Put(evt)
      BY <1>1, Zenon DEF Isr
    <3>. HIDE DEF evt
    <3>3. CASE Put(evt)
      BY <3>1, <3>3, PutFits
    <3>4. CASE UNCHANGED queue
      BY <3>4 DEF RestShape
    <3>. QED BY <3>2, <3>3, <3>4
  <2>. QED BY <2>1, <2>2 DEF RestShape
<1>2. CASE Round
  <2>1. queue' \in Seq(Event) /\ Len(queue') <= QUEUE_LEN
    BY <1>2, TakeFits DEF Round
  <2>2. UNCHANGED <<handling, violations>> /\ pc = "loop"
    BY <1>2 DEF Round
  <2>3. CASE ShortPress(Head(queue))
    BY <2>1, <2>2, <2>3 DEF ShortPress, RestShape
  <2>4. CASE Mute(Head(queue))
    BY <2>1, <2>2, <2>4 DEF Mute, RestShape
  <2>5. CASE Toggle(Head(queue))
    <3>1. 0 \in 0..LOCKOUT
      BY PanelAssumption
    <3>2. CASE since < LOCKOUT
      BY <2>1, <2>2, <2>5, <3>2 DEF Toggle, RestShape
    <3>3. CASE ~(since < LOCKOUT) /\ server
      BY <2>1, <2>2, <2>5, <3>1, <3>3 DEF Toggle, RestShape
    <3>4. CASE ~(since < LOCKOUT) /\ ~server
      BY <2>1, <2>2, <2>5, <3>1, <3>4 DEF Toggle, RestShape
    <3>. QED BY <3>2, <3>3, <3>4
  <2>. QED BY <1>2, <2>3, <2>4, <2>5 DEF Round
<1>3. CASE Stopped
  BY <1>3 DEF Stopped, RestShape
<1>4. CASE Violation
  <2>1. violations' \in 0..MaxViolations
    BY <1>4, PanelAssumption DEF Violation, RestShape
  <2>. QED BY <1>4, <2>1 DEF Violation, RestShape
<1>5. CASE HandlerBegins \/ BodyComes \/ HandlerEnds
  BY <1>5 DEF HandlerBegins, BodyComes, HandlerEnds, Handler, RestShape
<1>6. CASE Tick
  <2>1. since' \in 0..LOCKOUT
    BY <1>6, PanelAssumption DEF Tick, RestShape
  <2>. QED BY <1>6, <2>1 DEF Tick, RestShape
<1>7. ASSUME NEW t \in Tasks, Sound(t) PROVE RestShape'
  BY <1>k, <1>7 DEF Sound
<1>8. ASSUME NEW b \in Button, Press(b) \/ Release(b) \/ Bounce(b)
      PROVE  RestShape'
  BY <1>k, <1>8 DEF Press, Release, Bounce, Unmoved
<1>9. CASE UNCHANGED vars
  BY <1>k, <1>9 DEF vars
<1>. QED BY <1>1, <1>2, <1>3, <1>4, <1>5, <1>6, <1>7, <1>8, <1>9 DEF Next

-----------------------------------------------------------------------------
(* Events and the account of those that are owed. *)
LEMMA Limits == /\ DEBOUNCE \in Nat /\ DEBOUNCE >= 1
                /\ LONG_PRESS \in Nat /\ LONG_PRESS >= 1 /\ MaxPresses \in Nat
BY PanelAssumption

LEMMA Events ==
    /\ \A b \in Button, type \in Type :
          Evt(b, type) \in Event /\ Evt(b, type).id = b
    /\ \A b, c, type, other : Evt(b, type) = Evt(c, other)
                                 => b = c /\ type = other
    /\ \A e \in Event : e.id \in Button /\ e.type \in Type
                        /\ e = Evt(e.id, e.type)
    /\ \A ticks : TypeHeld(ticks) \in Type
BY DEF Evt, Event, Type, Button, TypeHeld

LEMMA AccountKept ==
    ASSUME NEW account \in [Event -> Int], NEW b \in Button,
           NEW type \in Type, NEW n \in Int
    PROVE  LET new == Counted(account, Evt(b, type), n) IN
           /\ new \in [Event -> Int]
           /\ new[Evt(b, type)] = IF late[b] THEN account[Evt(b, type)]
                                  ELSE account[Evt(b, type)] + n
           /\ \A c \in Button, other \in Type :
                 c # b \/ other # type =>
                    new[Evt(c, other)] = account[Evt(c, other)]
<1>. DEFINE new == Counted(account, Evt(b, type), n)
<1>. PICK e : e = Evt(b, type)
  OBVIOUS
<1>1. e \in Event /\ e.id = b
  BY Events
<1>. DEFINE v == IF late[b] THEN account[e] ELSE account[e] + n
<1>2. new = [account EXCEPT ![e] = v] /\ v \in Int
  BY <1>1 DEF Counted
<1>. HIDE DEF v, new
<1>3. /\ new \in [Event -> Int] /\ new[e] = v
      /\ \A f \in Event : f # e => new[f] = account[f]
  BY <1>1, <1>2
<1>4. /\ new[Evt(b, type)] = IF late[b] THEN account[Evt(b, type)]
                             ELSE account[Evt(b, type)] + n
  BY <1>3 DEF v
<1>5. \A c \in Button, other \in Type :
         c # b \/ other # type => new[Evt(c, other)] = account[Evt(c, other)]
  BY <1>3, Events
<1>. QED BY <1>3, <1>4, <1>5 DEF new

LEMMA Edged ==
    ASSUME Shape, NEW b \in Button, NEW closed \in BOOLEAN, Edge(b, closed)
    PROVE  /\ level' \in [Button -> BOOLEAN] /\ (level'[b] <=> closed)
           /\ intr' \in [Button -> BOOLEAN] /\ intr'[b]
           /\ \A c \in Button : c # b => /\ level'[c] = level[c]
                                         /\ intr'[c] = intr[c]
BY DEF Shape, Edge

LEMMA Aged ==
    \A age \in -1..LONG_PRESS :
       /\ Older(age) \in -1..LONG_PRESS
       /\ age < 0 => Older(age) = -1
       /\ age >= 0 => Older(age) >= 1
BY Limits DEF Older

(* An account of a button that an action does not touch. *)
LEMMA SameAccount ==
    ASSUME Shape, NEW b \in Button, OwedInv(b),
           \A type \in Type : /\ owed'[Evt(b, type)] = owed[Evt(b, type)]
                              /\ lost'[Evt(b, type)] = lost[Evt(b, type)],
           \A type \in Type : Open(b, type)' = Open(b, type),
           \/ Held(b)' = Held(b) /\ presses' \in Nat /\ presses' >= presses
           \/ presses' = presses + 1
    PROVE  OwedInv(b)'
<1>1. presses \in Nat
  BY Limits DEF Shape
<1>2. ASSUME NEW type \in Type
      PROVE  /\ lost'[Evt(b, type)] >= 0
             /\ owed'[Evt(b, type)] = lost'[Evt(b, type)] + Open(b, type)'
             /\ owed'[Evt(b, type)] + (IF Held(b)' THEN 1 ELSE 0) <= presses'
  <2>1. owed[Evt(b, type)] \in Int /\ lost[Evt(b, type)] \in Int
    BY Events DEF Shape
  <2>2. /\ lost[Evt(b, type)] >= 0
        /\ owed[Evt(b, type)] = lost[Evt(b, type)] + Open(b, type)
        /\ owed[Evt(b, type)] + (IF Held(b) THEN 1 ELSE 0) <= presses
    BY DEF OwedInv
  <2>. QED BY <1>1, <2>1, <2>2
<1>. QED BY <1>2 DEF OwedInv, Evt

(* A button that an action is not about. *)
LEMMA OtherStays ==
    ASSUME Shape, NEW b \in Button, AgreeInv(b), OwedInv(b),
           finger'[b] = finger[b], level'[b] = level[b],
           bouncing'[b] = bouncing[b], intr'[b] = intr[b],
           s_state'[b] = s_state[b], late'[b] = late[b],
           \A type \in Type : /\ owed'[Evt(b, type)] = owed[Evt(b, type)]
                              /\ lost'[Evt(b, type)] = lost[Evt(b, type)],
           presses' \in Nat, presses' >= presses
    PROVE  AgreeInv(b)' /\ OwedInv(b)'
<1>1. AgreeInv(b)'
  BY DEF AgreeInv
<1>2. Held(b)' = Held(b) /\ \A type \in Type : Open(b, type)' = Open(b, type)
  BY DEF Held, Open, TypeOf, Unheard
<1>. QED BY <1>1, <1>2, SameAccount

LEMMA PressKeeps ==
    ASSUME Shape, PressInv, NEW b \in Button, Press(b)
    PROVE  Shape' /\ PressInv'
<1>1. /\ finger[b] = -1 /\ presses < MaxPresses /\ presses' = presses + 1
      /\ finger' = [finger EXCEPT ![b] = 0]
      /\ bouncing' = [bouncing EXCEPT ![b] = b \in Bouncy]
      /\ UNCHANGED <<s_state, owed, lost, late>>
  BY Limits DEF Press, Held, Unmoved, Shape
<1>2. Edge(b, TRUE)
  BY DEF Press
<1>3. /\ level' \in [Button -> BOOLEAN] /\ level'[b]
      /\ intr' \in [Button -> BOOLEAN] /\ intr'[b]
      /\ \A c \in Button : c # b => /\ level'[c] = level[c]
                                    /\ intr'[c] = intr[c]
  BY <1>2, Edged
<1>4. /\ finger' \in [Button -> -1..LONG_PRESS] /\ finger'[b] = 0
      /\ bouncing' \in [Button -> BOOLEAN]
      /\ \A c \in Button : c # b => finger'[c] = finger[c] /\ bouncing'[c] = bouncing[c]
      /\ presses \in Nat /\ presses' \in 0..MaxPresses
  BY <1>1, Limits DEF Shape
<1>5. Shape'
  BY <1>1, <1>3, <1>4 DEF Shape
<1>6. ASSUME NEW c \in Button, c # b PROVE AgreeInv(c)' /\ OwedInv(c)'
  BY <1>1, <1>3, <1>4, <1>6, OtherStays DEF PressInv
<1>7. AgreeInv(b)'
  BY <1>3, <1>4 DEF AgreeInv
<1>8. OwedInv(b)'
  <2>1. \A type \in Type : Open(b, type)' = Open(b, type)
    BY <1>1, <1>4 DEF Open, Unheard, TypeOf
  <2>. QED BY <1>1, <2>1, SameAccount DEF PressInv
<1>. QED BY <1>5, <1>6, <1>7, <1>8 DEF PressInv

LEMMA BounceKeeps ==
    ASSUME Shape, PressInv, NEW b \in Button, Bounce(b)
    PROVE  Shape' /\ PressInv'
<1>1. bouncing[b]
      /\ UNCHANGED <<finger, bouncing, s_state, owed, lost, late, presses>>
  BY DEF Bounce, Unmoved
<1>2. /\ level' \in [Button -> BOOLEAN]
      /\ intr' \in [Button -> BOOLEAN] /\ intr'[b]
      /\ \A c \in Button : c # b => /\ level'[c] = level[c]
                                    /\ intr'[c] = intr[c]
  <2>1. Edge(b, ~level[b]) /\ (~level[b]) \in BOOLEAN
    BY DEF Bounce
  <2>. QED BY <2>1, Edged
<1>3. Shape'
  BY <1>1, <1>2 DEF Shape
<1>4. presses \in Nat
  BY Limits DEF Shape
<1>5. ASSUME NEW c \in Button, c # b PROVE AgreeInv(c)' /\ OwedInv(c)'
  BY <1>1, <1>2, <1>4, <1>5, OtherStays DEF PressInv
<1>6. AgreeInv(b) /\ OwedInv(b)
  BY DEF PressInv
<1>7. AgreeInv(b)'
  BY <1>1, <1>2, <1>6 DEF AgreeInv
<1>8. OwedInv(b)'
  <2>1. Held(b)' = Held(b) /\ \A type \in Type : Open(b, type)' = Open(b, type)
    BY <1>1 DEF Open, Unheard, TypeOf, Held
  <2>. QED BY <1>1, <1>4, <1>6, <2>1, SameAccount
<1>. QED BY <1>3, <1>5, <1>7, <1>8 DEF PressInv

LEMMA ReleaseKeeps ==
    ASSUME Shape, PressInv, NEW b \in Button, Release(b)
    PROVE  Shape' /\ PressInv'
<1>1. /\ finger[b] >= 0 /\ finger' = [finger EXCEPT ![b] = -1]
      /\ bouncing' = [bouncing EXCEPT ![b] = b \in Bouncy]
      /\ UNCHANGED <<s_state, lost, late, presses>>
  BY DEF Release, Held, Unmoved
<1>2. /\ level' \in [Button -> BOOLEAN] /\ ~level'[b]
      /\ intr' \in [Button -> BOOLEAN] /\ intr'[b]
      /\ \A c \in Button : c # b => /\ level'[c] = level[c]
                                    /\ intr'[c] = intr[c]
  <2>1. Edge(b, FALSE)
    BY DEF Release
  <2>. QED BY <2>1, Edged
<1>3. /\ presses \in Nat /\ finger[b] \in -1..LONG_PRESS
      /\ s_state[b] \in -1..LONG_PRESS
      /\ TypeHeld(finger[b]) \in Type /\ TypeOf(b) \in Type
  BY Limits, Events DEF Shape, TypeOf
<1>. DEFINE pressed == TypeHeld(finger[b])
            counts == finger[b] >= DEBOUNCE /\ ~late[b]
<1>4. /\ owed' \in [Event -> Int]
      /\ owed'[Evt(b, pressed)] = owed[Evt(b, pressed)]
                                    + (IF counts THEN 1 ELSE 0)
      /\ \A c \in Button, type \in Type :
            c # b \/ type # pressed =>
               owed'[Evt(c, type)] = owed[Evt(c, type)]
  <2>0. owed \in [Event -> Int] /\ owed[Evt(b, pressed)] \in Int
    BY <1>3, Events DEF Shape
  <2>1. CASE finger[b] < DEBOUNCE
    <3>1. owed' = owed
      BY <2>1 DEF Release
    <3>2. ~counts
      BY <1>3, <2>1, Limits
    <3>. QED BY <2>0, <3>1, <3>2
  <2>2. CASE ~(finger[b] < DEBOUNCE)
    <3>1. owed' = Counted(owed, Evt(b, pressed), 1)
      BY <2>2 DEF Release, Evt
    <3>2. counts <=> ~late[b]
      BY <1>3, <2>2, Limits
    <3>3. PICK type \in Type : type = pressed
      BY <1>3
    <3>. HIDE DEF pressed, counts
    <3>4. owed' = Counted(owed, Evt(b, type), 1) /\ 1 \in Int
      BY <3>1, <3>3
    <3>. QED BY <2>0, <3>2, <3>3, <3>4, AccountKept
  <2>. QED BY <2>1, <2>2
<1>5. /\ finger' \in [Button -> -1..LONG_PRESS] /\ finger'[b] = -1
      /\ bouncing' \in [Button -> BOOLEAN]
      /\ \A c \in Button : c # b => finger'[c] = finger[c] /\ bouncing'[c] = bouncing[c]
  BY <1>1, Limits DEF Shape
<1>6. Shape'
  BY <1>1, <1>2, <1>4, <1>5 DEF Shape
<1>7. ASSUME NEW c \in Button, c # b PROVE AgreeInv(c)' /\ OwedInv(c)'
  BY <1>1, <1>2, <1>3, <1>4, <1>5, <1>7, OtherStays DEF PressInv
<1>8. AgreeInv(b)'
  BY <1>2, <1>5 DEF AgreeInv
<1>9. OwedInv(b)'
  <2>1. AgreeInv(b) /\ OwedInv(b)
    BY DEF PressInv
  <2>2. Held(b) /\ ~Held(b)' /\ TypeOf(b)' = TypeOf(b) /\ late'[b] = late[b]
        /\ (Unheard(b)' <=> s_state[b] >= DEBOUNCE)
    BY <1>1, <1>5 DEF Held, Unheard, TypeOf
  <2>3. ~late[b] => /\ finger[b] = 0 => (Unheard(b)' <=> Unheard(b))
                    /\ finger[b] >= 1 => /\ s_state[b] = finger[b] /\ ~Unheard(b)
                                         /\ TypeOf(b) = pressed
    BY <1>3, <2>1, <2>2 DEF AgreeInv, Unheard, TypeOf
  <2>4. ASSUME NEW type \in Type
        PROVE  Open(b, type)' = Open(b, type)
                                  + (IF counts /\ type = pressed THEN 1 ELSE 0)
    <3>1. CASE late[b]
      BY <2>2, <3>1 DEF Open
    <3>2. CASE ~late[b] /\ finger[b] = 0
      <4>1. ~counts
        BY <3>2, Limits
      <4>. QED BY <2>2, <2>3, <3>2, <4>1 DEF Open
    <3>3. CASE ~late[b] /\ finger[b] >= 1
      <4>1. Unheard(b)' <=> counts
        BY <1>3, <2>2, <2>3, <3>3, Limits
      <4>. HIDE DEF counts, pressed
      <4>. QED BY <2>2, <2>3, <3>3, <4>1 DEF Open
    <3>. QED BY <1>1, <1>3, <3>1, <3>2, <3>3
  <2>5. ASSUME NEW type \in Type
        PROVE  /\ lost'[Evt(b, type)] >= 0
               /\ owed'[Evt(b, type)] = lost'[Evt(b, type)] + Open(b, type)'
               /\ owed'[Evt(b, type)] + 0 <= presses'
    <3>1. owed[Evt(b, type)] \in Int /\ lost[Evt(b, type)] \in Int
      BY Events DEF Shape
    <3>2. /\ lost[Evt(b, type)] >= 0
          /\ owed[Evt(b, type)] = lost[Evt(b, type)] + Open(b, type)
          /\ owed[Evt(b, type)] + 1 <= presses
      BY <2>1, <2>2 DEF OwedInv
    <3>3. owed'[Evt(b, type)] = owed[Evt(b, type)]
                                  + (IF counts /\ type = pressed THEN 1 ELSE 0)
      <4>. HIDE DEF counts, pressed
      <4>. QED BY <1>4, <3>1
    <3>4. Open(b, type) \in Int
      BY DEF Open
    <3>. QED BY <1>1, <1>3, <2>4, <3>1, <3>2, <3>3, <3>4
  <2>. QED BY <2>2, <2>5 DEF OwedInv, Evt
<1>. QED BY <1>6, <1>7, <1>8, <1>9 DEF PressInv

LEMMA IsrKeeps ==
    ASSUME Shape, PressInv, NEW b \in Button, Isr(b)
    PROVE  Shape' /\ PressInv'
<1>1. /\ intr[b] /\ intr' = [intr EXCEPT ![b] = FALSE]
      /\ UNCHANGED <<finger, level, bouncing, late, presses>>
  BY DEF Isr, buttons, bounds
<1>2. /\ presses \in Nat /\ presses \in 0..MaxPresses
      /\ finger[b] \in -1..LONG_PRESS /\ s_state[b] \in -1..LONG_PRESS
      /\ TypeOf(b) \in Type
      /\ \A type \in Type : owed[Evt(b, type)] \in Int /\ lost[Evt(b, type)] \in Int
  BY Limits, Events DEF Shape, TypeOf
<1>. DEFINE full == Len(queue) >= QUEUE_LEN
            made == ~level[b] /\ Ripe(b) /\ Len(queue) < QUEUE_LEN
            gone == \/ level[b] /\ Unheard(b)
                    \/ ~level[b] /\ Ripe(b) /\ ~(Len(queue) < QUEUE_LEN)
            this == Evt(b, TypeOf(b))
<1>3. /\ s_state' = [s_state EXCEPT ![b] = IF level[b] THEN 0 ELSE -1]
      /\ owed' = IF made THEN Counted(owed, this, -1) ELSE owed
      /\ lost' = IF gone THEN Counted(lost, this, 1) ELSE lost
  <2>1. CASE level[b]
    BY <2>1 DEF Isr, Evt
  <2>2. CASE ~level[b] /\ ~Ripe(b)
    BY <2>2 DEF Isr
  <2>3. CASE ~level[b] /\ Ripe(b) /\ Len(queue) < QUEUE_LEN
    BY <2>3 DEF Isr, Evt
  <2>4. CASE ~level[b] /\ Ripe(b) /\ ~(Len(queue) < QUEUE_LEN)
    BY <2>4 DEF Isr, Evt
  <2>. QED BY <2>1, <2>2, <2>3, <2>4
<1>4. /\ intr' \in [Button -> BOOLEAN] /\ ~intr'[b]
      /\ s_state' \in [Button -> -1..LONG_PRESS]
      /\ s_state'[b] = IF level[b] THEN 0 ELSE -1
      /\ \A c \in Button : c # b => intr'[c] = intr[c] /\ s_state'[c] = s_state[c]
  BY <1>1, <1>3, Limits DEF Shape
<1>5. PICK type \in Type : type = TypeOf(b)
  BY <1>2
<1>6. AgreeInv(b) /\ OwedInv(b)
  BY DEF PressInv
<1>7. ~late[b] => finger[b] <= 0
  BY <1>1, <1>2, <1>6 DEF AgreeInv
<1>8. ~late[b] => /\ Ripe(b) <=> Unheard(b)
                  /\ Unheard(b) <=> made \/ gone
                  /\ ~(made /\ gone)
  BY <1>2, <1>7 DEF Ripe, Unheard
<1>. HIDE DEF made, gone
<1>9. /\ owed' \in [Event -> Int]
      /\ owed'[Evt(b, type)] = owed[Evt(b, type)]
                                 + (IF made /\ ~late[b] THEN -1 ELSE 0)
      /\ \A c \in Button, other \in Type :
            c # b \/ other # type => owed'[Evt(c, other)] = owed[Evt(c, other)]
  <2>1. CASE made
    <3>1. PICK n \in Int : n = -1
      OBVIOUS
    <3>2. owed' = Counted(owed, Evt(b, type), n) /\ owed \in [Event -> Int]
      BY <1>3, <1>5, <2>1, <3>1 DEF Shape
    <3>3. owed'[Evt(b, type)] = IF late[b] THEN owed[Evt(b, type)]
                                ELSE owed[Evt(b, type)] + n
      BY <3>2, AccountKept
    <3>4. /\ owed' \in [Event -> Int]
          /\ \A c \in Button, other \in Type :
                c # b \/ other # type => owed'[Evt(c, other)] = owed[Evt(c, other)]
      BY <3>2, AccountKept
    <3>. QED BY <1>2, <2>1, <3>1, <3>3, <3>4
  <2>2. CASE ~made
    <3>1. owed' = owed /\ owed \in [Event -> Int]
      BY <1>3, <2>2 DEF Shape
    <3>. QED BY <1>2, <2>2, <3>1
  <2>. QED BY <2>1, <2>2
<1>10. /\ lost' \in [Event -> Int]
       /\ lost'[Evt(b, type)] = lost[Evt(b, type)]
                                  + (IF gone /\ ~late[b] THEN 1 ELSE 0)
       /\ \A c \in Button, other \in Type :
             c # b \/ other # type => lost'[Evt(c, other)] = lost[Evt(c, other)]
  <2>1. CASE gone
    <3>1. lost' = Counted(lost, Evt(b, type), 1) /\ 1 \in Int
          /\ lost \in [Event -> Int]
      BY <1>3, <1>5, <2>1 DEF Shape
    <3>. QED BY <1>2, <2>1, <3>1, AccountKept
  <2>2. CASE ~gone
    <3>1. lost' = lost /\ lost \in [Event -> Int]
      BY <1>3, <2>2 DEF Shape
    <3>. QED BY <1>2, <2>2, <3>1
  <2>. QED BY <2>1, <2>2
<1>11. Shape'
  BY <1>1, <1>4, <1>9, <1>10 DEF Shape
<1>12. ASSUME NEW c \in Button, c # b PROVE AgreeInv(c)' /\ OwedInv(c)'
  <2>1. \A other \in Type : /\ owed'[Evt(c, other)] = owed[Evt(c, other)]
                             /\ lost'[Evt(c, other)] = lost[Evt(c, other)]
    BY <1>9, <1>10, <1>12
  <2>2. AgreeInv(c) /\ OwedInv(c)
    BY DEF PressInv
  <2>3. /\ finger'[c] = finger[c] /\ level'[c] = level[c]
        /\ bouncing'[c] = bouncing[c] /\ intr'[c] = intr[c]
        /\ s_state'[c] = s_state[c] /\ late'[c] = late[c]
        /\ presses' \in Nat /\ presses' >= presses
    BY <1>1, <1>2, <1>4, <1>12
  <2>. QED BY <2>1, <2>2, <2>3, OtherStays
<1>13. AgreeInv(b)'
  BY <1>1, <1>2, <1>4, <1>7 DEF AgreeInv
<1>14. OwedInv(b)'
  <2>1. ~Unheard(b)' /\ Held(b)' = Held(b)
    BY <1>1, <1>4, Limits DEF Unheard, Held
  <2>2. ASSUME NEW other \in Type
        PROVE  /\ lost'[Evt(b, other)] >= 0
               /\ owed'[Evt(b, other)] = lost'[Evt(b, other)] + Open(b, other)'
               /\ owed'[Evt(b, other)] + (IF Held(b)' THEN 1 ELSE 0) <= presses'
    <3>1. /\ lost[Evt(b, other)] >= 0
          /\ owed[Evt(b, other)] = lost[Evt(b, other)] + Open(b, other)
          /\ owed[Evt(b, other)] + (IF Held(b) THEN 1 ELSE 0) <= presses
      BY <1>6 DEF OwedInv
    <3>2. Open(b, other)' = 0
      BY <2>1 DEF Open
    <3>3. Open(b, other) = IF (made \/ gone) /\ ~late[b] /\ other = type
                           THEN 1 ELSE 0
      BY <1>5, <1>8 DEF Open
    <3>4. /\ owed'[Evt(b, other)] =
                owed[Evt(b, other)]
                  + (IF made /\ ~late[b] /\ other = type THEN -1 ELSE 0)
          /\ lost'[Evt(b, other)] =
                lost[Evt(b, other)]
                  + (IF gone /\ ~late[b] /\ other = type THEN 1 ELSE 0)
      BY <1>2, <1>9, <1>10
    <3>. QED BY <1>1, <1>2, <1>8, <2>1, <3>1, <3>2, <3>3, <3>4
  <2>. QED BY <2>2 DEF OwedInv, Evt
<1>. QED BY <1>11, <1>12, <1>13, <1>14 DEF PressInv

LEMMA TickKeeps ==
    ASSUME Shape, PressInv, Tick
    PROVE  Shape' /\ PressInv'
<1>1. /\ \A b \in Button : level[b] = Held(b)
      /\ finger' = [b \in Button |-> Older(finger[b])]
      /\ bouncing' = [b \in Button |-> FALSE]
      /\ s_state' = [b \in Button |-> Older(s_state[b])]
      /\ late' = [b \in Button |-> intr[b] \/ (late[b] /\ Held(b))]
      /\ owed' = [e \in Event |-> IF intr[e.id] THEN 0 ELSE owed[e]]
      /\ lost' = [e \in Event |-> IF intr[e.id] THEN 0 ELSE lost[e]]
      /\ UNCHANGED <<level, intr, presses>>
  BY DEF Tick, bounds
<1>2. presses \in Nat
      /\ \A b \in Button : /\ finger[b] \in -1..LONG_PRESS
                           /\ s_state[b] \in -1..LONG_PRESS
                           /\ level[b] \in BOOLEAN /\ late[b] \in BOOLEAN
  BY Limits DEF Shape
<1>3. Shape'
  <2>1. \A b \in Button : Older(finger[b]) \in -1..LONG_PRESS
                          /\ Older(s_state[b]) \in -1..LONG_PRESS
                          /\ (intr[b] \/ (late[b] /\ Held(b))) \in BOOLEAN
    BY <1>2, Aged
  <2>2. /\ finger' \in [Button -> -1..LONG_PRESS]
        /\ s_state' \in [Button -> -1..LONG_PRESS]
        /\ late' \in [Button -> BOOLEAN]
    BY <1>1, <2>1
  <2>3. /\ bouncing' \in [Button -> BOOLEAN]
        /\ owed' \in [Event -> Int] /\ lost' \in [Event -> Int]
    BY <1>1 DEF Shape
  <2>. QED BY <1>1, <2>2, <2>3 DEF Shape
<1>4. ASSUME NEW b \in Button PROVE AgreeInv(b)' /\ OwedInv(b)'
  <2>1. AgreeInv(b) /\ OwedInv(b)
    BY DEF PressInv
  <2>2. /\ finger'[b] = Older(finger[b]) /\ s_state'[b] = Older(s_state[b])
        /\ ~bouncing'[b] /\ level'[b] = level[b] /\ intr'[b] = intr[b]
        /\ late'[b] = (intr[b] \/ (late[b] /\ Held(b)))
        /\ level[b] <=> finger[b] >= 0
    BY <1>1 DEF Held
  <2>3. \A type \in Type :
           /\ owed'[Evt(b, type)] = IF intr[b] THEN 0 ELSE owed[Evt(b, type)]
           /\ lost'[Evt(b, type)] = IF intr[b] THEN 0 ELSE lost[Evt(b, type)]
           /\ owed[Evt(b, type)] \in Int /\ lost[Evt(b, type)] \in Int
    BY <1>1, Events DEF Shape
  <2>4. /\ Older(finger[b]) \in Int /\ Older(s_state[b]) \in Int
        /\ finger[b] < 0 => Older(finger[b]) = -1
        /\ finger[b] >= 0 => Older(finger[b]) >= 1
        /\ s_state[b] < 0 => Older(s_state[b]) = -1
        /\ s_state[b] >= 0 => Older(s_state[b]) >= 1
    BY <1>2, Aged
  <2>5. Held(b)' = Held(b)
    BY <1>2, <2>2, <2>4 DEF Held
  <2>6. \A type \in Type :
           /\ lost[Evt(b, type)] >= 0
           /\ owed[Evt(b, type)] = lost[Evt(b, type)] + Open(b, type)
           /\ owed[Evt(b, type)] + (IF Held(b) THEN 1 ELSE 0) <= presses
           /\ Open(b, type) >= 0
    BY <2>1 DEF OwedInv, Open
  <2>7. CASE intr[b]
    <3>1. AgreeInv(b)'
      BY <2>2, <2>7 DEF AgreeInv
    <3>2. ASSUME NEW type \in Type
          PROVE  /\ owed'[Evt(b, type)] = 0 /\ lost'[Evt(b, type)] = 0
                 /\ Open(b, type)' = 0
                 /\ 0 + (IF Held(b)' THEN 1 ELSE 0) <= presses'
      <4>1. Open(b, type) \in Int
        BY DEF Open
      <4>2. 0 <= owed[Evt(b, type)]
        BY <2>3, <2>6, <4>1
      <4>3. 0 + (IF Held(b)' THEN 1 ELSE 0) <= presses'
        <5>1. PICK o \in Int, h \in Int :
                 /\ o = owed[Evt(b, type)] /\ h = IF Held(b) THEN 1 ELSE 0
          BY <2>3
        <5>2. 0 <= o /\ o + h <= presses
          BY <2>6, <4>2, <5>1
        <5>3. h <= presses /\ presses' = presses
          BY <1>1, <1>2, <5>2
        <5>4. h = IF Held(b)' THEN 1 ELSE 0
          BY <2>5, <5>1
        <5>. QED BY <5>3, <5>4
      <4>4. late'[b]
        BY <2>2, <2>7
      <4>5. Open(b, type)' = 0
        BY <4>4 DEF Open
      <4>6. owed'[Evt(b, type)] = 0 /\ lost'[Evt(b, type)] = 0
        BY <2>3, <2>7
      <4>. QED BY <4>3, <4>5, <4>6
    <3>3. OwedInv(b)'
      BY <3>2 DEF OwedInv, Evt
    <3>. QED BY <3>1, <3>3
  <2>8. CASE ~intr[b]
    <3>1. (s_state[b] >= 0 <=> level[b])
          /\ (~late[b] =>
                /\ finger[b] >= 1 => s_state[b] = finger[b]
                /\ finger[b] <= 0 => s_state[b] <= 0)
      BY <2>1, <2>8 DEF AgreeInv
    <3>2. late'[b] = (late[b] /\ Held(b))
      BY <2>2, <2>8
    <3>3. ~late'[b] => Older(finger[b]) = Older(s_state[b])
      BY <1>2, <2>2, <2>4, <3>1, <3>2 DEF Held
    <3>4. AgreeInv(b)'
      BY <1>2, <2>2, <2>4, <2>8, <3>1, <3>3 DEF AgreeInv
    <3>5. ~late'[b] => ~Unheard(b)'
      BY <1>2, <2>2, <2>4, <3>3, Limits DEF Unheard
    <3>6. ~late[b] => ~Unheard(b)
      BY <1>2, <2>2, <2>4, <3>1, Limits DEF Unheard
    <3>7. \A type \in Type : Open(b, type)' = Open(b, type)
      BY <1>2, <3>2, <3>5, <3>6 DEF Open
    <3>8. OwedInv(b)'
      <4>1. \A type \in Type : /\ owed'[Evt(b, type)] = owed[Evt(b, type)]
                                /\ lost'[Evt(b, type)] = lost[Evt(b, type)]
        BY <2>3, <2>8
      <4>2. presses' \in Nat /\ presses' >= presses
        BY <1>1, <1>2
      <4>. QED BY <2>1, <2>5, <3>7, <4>1, <4>2, SameAccount
    <3>. QED BY <3>4, <3>8
  <2>. QED BY <2>7, <2>8
<1>. QED BY <1>3, <1>4 DEF PressInv

LEMMA PressNext == Shape /\ PressInv /\ [Next]_vars => Shape' /\ PressInv'
<1>. SUFFICES ASSUME Shape, PressInv, [Next]_vars PROVE Shape' /\ PressInv'
  OBVIOUS
<1>1. ASSUME NEW b \in Button, Press(b) \/ Release(b) \/ Bounce(b) \/ Isr(b)
      PROVE  Shape' /\ PressInv'
  BY <1>1, PressKeeps, ReleaseKeeps, BounceKeeps, IsrKeeps
<1>2. CASE Tick
  BY <1>2, TickKeeps
<1>3. ASSUME UNCHANGED <<buttons, intr, s_state, accounts, presses>>
      PROVE  Shape' /\ PressInv'
  <2>1. Shape'
    BY <1>3 DEF Shape, buttons, accounts
  <2>2. presses \in Nat
    BY Limits DEF Shape
  <2>3. ASSUME NEW b \in Button PROVE AgreeInv(b)' /\ OwedInv(b)'
    BY <1>3, <2>2, OtherStays DEF PressInv, buttons, accounts
  <2>. QED BY <2>1, <2>3 DEF PressInv
<1>4. CASE \/ Round \/ Stopped \/ Violation \/ HandlerBegins \/ BodyComes
           \/ HandlerEnds \/ UNCHANGED vars
  BY <1>3, <1>4 DEF Round, Stopped, Violation, HandlerBegins, BodyComes,
                    HandlerEnds, Handler, vars, bounds
<1>5. ASSUME NEW t \in Tasks, Sound(t) PROVE Shape' /\ PressInv'
  BY <1>3, <1>5 DEF Sound, bounds
<1>. QED BY <1>1, <1>2, <1>4, <1>5 DEF Next

LEMMA PressBegins == Init => Shape /\ RestShape /\ PressInv
<1>. SUFFICES ASSUME Init PROVE Shape /\ RestShape /\ PressInv
  OBVIOUS
<1>1. Shape
  BY Limits DEF Init, Shape
<1>2. RestShape
  <2>1. <<>> \in Seq(Event) /\ Len(<<>>) = 0
    BY EmptySeq
  <2>2. LOCKOUT \in 0..LOCKOUT /\ 0 \in 0..MaxViolations /\ 0 <= QUEUE_LEN
    BY PanelAssumption
  <2>. QED BY <2>1, <2>2 DEF Init, RestShape
<1>3. ASSUME NEW b \in Button PROVE AgreeInv(b) /\ OwedInv(b)
  <2>1. /\ finger[b] = -1 /\ ~level[b] /\ ~intr[b] /\ s_state[b] = -1
        /\ \A type \in Type : owed[Evt(b, type)] = 0 /\ lost[Evt(b, type)] = 0
        /\ presses = 0
    BY Events DEF Init
  <2>2. ~Unheard(b) /\ ~Held(b)
    BY <2>1, Limits DEF Unheard, Held
  <2>. QED BY <2>1, <2>2 DEF AgreeInv, OwedInv, Open
<1>. QED BY <1>1, <1>2, <1>3 DEF PressInv

PanelInv == BuzzerInv /\ Shape /\ RestShape /\ PressInv

LEMMA PanelIsSafe == Spec => []PanelInv
<1>1. Init => PanelInv
  BY BuzzerBegins, PressBegins DEF PanelInv
<1>2. PanelInv /\ [Next]_vars => PanelInv'
  BY BuzzerNext, RestNext, PressNext DEF PanelInv
<1>. QED BY <1>1, <1>2, PTL DEF Spec

-----------------------------------------------------------------------------
(* The types of the whole panel; in particular the queue never holds more    *)
(* than it was made for, and no account goes beyond the presses there were   *)
(* (btn_isr, hardware_task).                                                 *)
THEOREM TypeCorrect == Spec => []TypeOK
<1>1. PanelInv => TypeOK
  <2>. SUFFICES ASSUME PanelInv PROVE TypeOK
    OBVIOUS
  <2>1. /\ owed \in [Event -> -MaxPresses..MaxPresses]
        /\ lost \in [Event -> 0..MaxPresses]
    <3>1. ASSUME NEW e \in Event
          PROVE  /\ owed[e] \in -MaxPresses..MaxPresses
                 /\ lost[e] \in 0..MaxPresses
      <4>1. owed[e] \in Int /\ lost[e] \in Int /\ presses \in 0..MaxPresses
        BY DEF PanelInv, Shape
      <4>2. e = Evt(e.id, e.type) /\ e.id \in Button /\ e.type \in Type
        BY Events
      <4>3. OwedInv(e.id)
        BY <4>2 DEF PanelInv, PressInv
      <4>4. /\ lost[e] >= 0 /\ owed[e] >= lost[e]
            /\ owed[e] + (IF Held(e.id) THEN 1 ELSE 0) <= presses
        BY <4>1, <4>2, <4>3 DEF OwedInv, Open
      <4>. QED BY <4>1, <4>4, Limits
    <3>. QED BY <3>1 DEF PanelInv, Shape
  <2>. QED BY <2>1 DEF PanelInv, BuzzerInv, Shape, RestShape, TypeOK
<1>. QED BY <1>1, PanelIsSafe, PTL

(* One event for one press, however the contacts bounce and the interrupts   *)
(* merge: none that no press called for, and none missing but those that the *)
(* ISR made at a full queue or whose release it read too late, one for one   *)
(* (btn_isr).                                                                *)
THEOREM OneForOne == Spec => []OneEventPerPress
<1>1. PanelInv => OneEventPerPress
  <2>. SUFFICES ASSUME PanelInv PROVE OneEventPerPress
    OBVIOUS
  <2>1. ASSUME NEW e \in Event
        PROVE  /\ OwedInv(e.id) /\ AgreeInv(e.id) /\ e.id \in Button
               /\ owed[e] = lost[e] + Open(e.id, e.type)
               /\ owed[e] \in Int /\ lost[e] \in Int
    BY Events DEF PanelInv, PressInv, OwedInv, Shape
  <2>2. NoSpuriousEvent
    BY <2>1 DEF NoSpuriousEvent, Open
  <2>3. ASSUME NEW b \in Button, ~late[b], ~Held(b), ~intr[b],
               NEW e \in Event, e.id = b
        PROVE  owed[e] = lost[e]
    <3>1. finger[b] \in -1..LONG_PRESS /\ s_state[b] \in -1..LONG_PRESS
      BY DEF PanelInv, Shape
    <3>2. ~Unheard(b)
      BY <2>1, <2>3, <3>1, Limits DEF AgreeInv, Unheard, Held
    <3>. QED BY <2>1, <2>3, <3>2 DEF Open
  <2>. QED BY <2>2, <2>3 DEF OneEventPerPress, NoLostPress
<1>. QED BY <1>1, PanelIsSafe, PTL

=============================================================================
