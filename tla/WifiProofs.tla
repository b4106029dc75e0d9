----------------------------- MODULE WifiProofs -----------------------------
(***************************************************************************)
(* The safety of the station's link and of the credential test, for every  *)
(* set of credentials and every number of retries, tests, failures and     *)
(* resets.                                                                 *)
(***************************************************************************)
EXTENDS Wifi, SequenceTheorems, TLAPS

Known == Creds \cup {NoCreds}

Shape ==
    /\ mode \in {"AP", "STA", "APSTA"}
    /\ config \in Known /\ asked \in Known /\ form \in Known
    /\ nvs \in Known /\ proven \in Known
    /\ link \in {"down", "joining", "up"}
    /\ events \in Seq(Events)
    /\ bits \in SUBSET {"CONNECTED", "FAIL"}
    /\ s_retries \in 0..MAX_RETRY
    /\ s_connected \in BOOLEAN /\ s_testing \in BOOLEAN
    /\ evPc \in {"idle", "sleep"}
    /\ web \in WebPcs
    /\ normal \in BOOLEAN
    /\ tests \in 0..MaxTests /\ failures \in 0..MaxFailures
    /\ reboots \in 0..MaxReboots

Has(e) == \E n \in 1..Len(events) : events[n] = e
HasAfter(e, n) == \E m \in 1..Len(events) : m > n /\ events[m] = e

(* Where the save handler is, and what that says of the rest. *)
HandlerInv ==
    /\ s_testing <=> web \in {"mode", "connect", "wait"}
    /\ web # "idle" => form \in Creds
    /\ web \in {"connect", "wait", "disconnect"} => mode = "APSTA"
    /\ web = "clear" => mode = "AP"
    /\ mode = "AP" => link = "down"

(* The link and the events that tell of it.  *)
LinkInv ==
    /\ link # "up" => \A n \in 1..Len(events) :
                         events[n] = "ip" => HasAfter("gone", n)
    /\ link = "up" => \A n \in 1..Len(events) :
                         events[n] = "gone" => HasAfter("ip", n)
    /\ link = "up" => s_connected \/ Has("ip")
    /\ link # "up" => ~s_connected \/ Has("gone")

(* A station that is down has something left to do, or has used its retries. *)
TryInv ==
    normal /\ mode # "AP" /\ web = "idle" =>
       /\ config # NoCreds
       /\ link = "down" => \/ evPc = "sleep" \/ Has("start") \/ Has("gone")
                           \/ "FAIL" \in bits /\ s_retries = MAX_RETRY
-----------------------------------------------------------------------------
(* A disconnect needs a link.  In a test there are at most two: the one that *)
(* was there, or that a sleeping retry asks for, and the form's.             *)
Bit(b) == IF b THEN 1 ELSE 0
Links == Bit(link # "down") + Bit(evPc = "sleep")
InTest == Links + Bit(web \in {"mode", "connect"}) + Bit("FAIL" \in bits)

OneGone == \A m, n \in 1..Len(events) :
              events[m] = "gone" /\ events[n] = "gone" => m = n
TwoGone == \A l, m, n \in 1..Len(events) :
              events[l] = "gone" /\ events[m] = "gone" /\ events[n] = "gone"
                 => l = m \/ m = n \/ l = n

TestInv ==
    s_testing =>
       /\ InTest <= 2 /\ TwoGone
       /\ InTest >= 1 => OneGone
       /\ InTest = 2 => ~Has("gone")
       /\ evPc = "sleep" => bits = {}
       /\ \A n \in 1..Len(events) : events[n] = "start" => n = 1 /\ bits = {}
       /\ web = "mode" /\ mode = "AP" => events = <<>> /\ bits = {}

RestInv ==
    web \in {"idle", "disconnect", "clear"} =>
       /\ Links <= 1 /\ OneGone
       /\ Links = 1 => ~Has("gone")
       /\ evPc = "sleep" => ~Has("ip")
       /\ Has("start") => /\ events = <<"start">>
                          /\ link = "down" /\ evPc = "idle"

(* An address, and the bit for it, is one of this test. *)
ProvenInv ==
    /\ web = "save" => proven # NoCreds
    /\ s_testing /\ (Has("ip") \/ "CONNECTED" \in bits) => proven # NoCreds
-----------------------------------------------------------------------------
(* The event queue. *)
LEMMA Posted ==
    ASSUME events \in Seq(Events), NEW e \in Events,
           events' = Append(events, e)
    PROVE  /\ events' \in Seq(Events)
           /\ Len(events) \in Nat /\ Len(events') = Len(events) + 1
           /\ \A n \in 1..Len(events) : events'[n] = events[n]
           /\ events'[Len(events) + 1] = e
BY LenProperties

LEMMA Taken ==
    ASSUME events \in Seq(Events), NEW e, Take(e)
    PROVE  /\ events' \in Seq(Events)
           /\ Len(events) \in Nat /\ Len(events) > 0 /\ events[1] = e
           /\ Len(events') = Len(events) - 1
           /\ \A n \in 1..Len(events') : /\ n + 1 \in 1..Len(events)
                                        /\ events'[n] = events[n + 1]
<1>1. events # <<>> /\ Head(events) = e /\ events' = Tail(events)
  BY DEF Take
<1>2. Len(events) \in Nat /\ Len(events) > 0
  BY <1>1, LenProperties, EmptySeq
<1>. QED BY <1>1, <1>2, HeadTailProperties, ElementOfSeq

LEMMA OneEvent ==
    ASSUME NEW e \in Events, events' = <<e>>
    PROVE  events' \in Seq(Events) /\ Len(events') = 1 /\ events'[1] = e
OBVIOUS

LEMMA NoEvent ==
    ASSUME events' = <<>>
    PROVE  events' \in Seq(Events) /\ Len(events') = 0
BY EmptySeq

(* A later event stays when another is posted or taken. *)
LEMMA PostedHas ==
    ASSUME events \in Seq(Events), NEW e \in Events, NEW x,
           events' = Append(events, e)
    PROVE  /\ Has(x)' <=> Has(x) \/ x = e
           /\ \A n \in 1..Len(events) :
                 HasAfter(x, n)' <=> HasAfter(x, n) \/ x = e
<1>1. /\ Len(events) \in Nat /\ Len(events') = Len(events) + 1
      /\ \A n \in 1..Len(events) : events'[n] = events[n]
      /\ events'[Len(events) + 1] = e
  BY Posted
<1>2. Has(x)' <=> Has(x) \/ x = e
  <2>1. ASSUME Has(x) PROVE Has(x)'
    BY <1>1, <2>1 DEF Has
  <2>2. ASSUME x = e PROVE Has(x)'
    <3>1. Len(events) + 1 \in 1..Len(events') /\ events'[Len(events) + 1] = x
      BY <1>1, <2>2
    <3>. QED BY <3>1 DEF Has
  <2>3. ASSUME Has(x)' PROVE Has(x) \/ x = e
    BY <1>1, <2>3 DEF Has
  <2>. QED BY <2>1, <2>2, <2>3
<1>3. ASSUME NEW n \in 1..Len(events)
      PROVE  HasAfter(x, n)' <=> HasAfter(x, n) \/ x = e
  <2>1. ASSUME HasAfter(x, n) PROVE HasAfter(x, n)'
    BY <1>1, <2>1 DEF HasAfter
  <2>2. ASSUME x = e PROVE HasAfter(x, n)'
    <3>1. /\ Len(events) + 1 \in 1..Len(events') /\ Len(events) + 1 > n
          /\ events'[Len(events) + 1] = x
      BY <1>1, <2>2
    <3>. QED BY <3>1 DEF HasAfter
  <2>3. ASSUME HasAfter(x, n)' PROVE HasAfter(x, n) \/ x = e
    BY <1>1, <2>3 DEF HasAfter
  <2>. QED BY <2>1, <2>2, <2>3
<1>. QED BY <1>2, <1>3

LEMMA TakenHas ==
    ASSUME events \in Seq(Events), NEW e, Take(e), NEW x
    PROVE  /\ Has(x)' <=> HasAfter(x, 1)
           /\ Has(x) <=> HasAfter(x, 1) \/ x = e
           /\ \A n \in 1..Len(events') :
                 HasAfter(x, n)' <=> HasAfter(x, n + 1)
<1>1. /\ Len(events) \in Nat /\ Len(events) > 0 /\ events[1] = e
      /\ Len(events') = Len(events) - 1
      /\ \A n \in 1..Len(events') : /\ n + 1 \in 1..Len(events)
                                   /\ events'[n] = events[n + 1]
  BY Taken
<1>2. \A m \in 1..Len(events) : m > 1 =>
         m - 1 \in 1..Len(events') /\ events'[m - 1] = events[m]
  <2>. SUFFICES ASSUME NEW m \in 1..Len(events), m > 1
                PROVE  m - 1 \in 1..Len(events') /\ events'[m - 1] = events[m]
    OBVIOUS
  <2>1. m - 1 \in 1..Len(events') /\ (m - 1) + 1 = m
    BY <1>1
  <2>. QED BY <1>1, <2>1
<1>3. Has(x)' <=> HasAfter(x, 1)
  BY <1>1, <1>2 DEF Has, HasAfter
<1>4. Has(x) <=> HasAfter(x, 1) \/ x = e
  BY <1>1 DEF Has, HasAfter
<1>5. ASSUME NEW n \in 1..Len(events')
      PROVE  HasAfter(x, n)' <=> HasAfter(x, n + 1)
  <2>1. ASSUME HasAfter(x, n)' PROVE HasAfter(x, n + 1)
    BY <1>1, <2>1 DEF HasAfter
  <2>2. ASSUME HasAfter(x, n + 1) PROVE HasAfter(x, n)'
    <3>1. PICK m \in 1..Len(events) : m > n + 1 /\ events[m] = x
      BY <2>2 DEF HasAfter
    <3>2. m - 1 \in 1..Len(events') /\ m - 1 > n /\ events'[m - 1] = x
      BY <1>1, <1>2, <3>1
    <3>. QED BY <3>2 DEF HasAfter
  <2>. QED BY <2>1, <2>2
<1>. QED BY <1>3, <1>4, <1>5

-----------------------------------------------------------------------------
LEMMA BootEvents ==
    ASSUME Boot
    PROVE  /\ events' \in Seq(Events)
           /\ normal' => Len(events') = 1 /\ events'[1] = "start"
           /\ ~normal' => Len(events') = 0
<1>1. CASE normal'
  <2>1. events' = <<"start">> /\ "start" \in Events
    BY <1>1 DEF Boot, Events
  <2>. QED BY <1>1, <2>1, OneEvent
<1>2. CASE ~normal'
  <2>1. events' = <<>>
    BY <1>2 DEF Boot
  <2>. QED BY <1>2, <2>1, NoEvent
<1>. QED BY <1>1, <1>2

LEMMA Bounds ==
    /\ 0 \in 0..MAX_RETRY /\ 0 \in 0..MaxTests /\ 0 \in 0..MaxFailures
    /\ 0 \in 0..MaxReboots
BY WifiAssumption

LEMMA ShapeInit == Init => Shape
<1>. SUFFICES ASSUME Init PROVE Shape
  OBVIOUS
<1>1. events \in Seq(Events)
  BY EmptySeq DEF Init
<1>. QED BY <1>1, Bounds DEF Init, Shape, Known, WebPcs

LEMMA ShapeBoot ==
    ASSUME Shape, Boot, UNCHANGED failures, tests' \in 0..MaxTests,
           reboots' \in 0..MaxReboots
    PROVE  Shape'
<1>1. events' \in Seq(Events)
  BY BootEvents
<1>2. normal' \in BOOLEAN /\ mode' \in {"AP", "STA", "APSTA"}
  BY Zenon DEF Boot
<1>3. /\ UNCHANGED nvs /\ config' = nvs /\ link' = "down" /\ asked' = NoCreds
      /\ bits' = {} /\ s_retries' = 0 /\ s_connected' = FALSE
      /\ s_testing' = FALSE /\ evPc' = "idle" /\ web' = "idle"
      /\ form' = NoCreds /\ proven' = NoCreds
  BY Zenon DEF Boot
<1>. QED BY <1>1, <1>2, <1>3, Bounds DEF Shape, Known, WebPcs

LEMMA ConnectType ==
    ASSUME Shape, Connect
    PROVE  link' \in {"down", "joining", "up"} /\ asked' \in Known
BY DEF Connect, Shape

LEMMA ShapeDriver == Shape /\ Driver => Shape'
<1>. SUFFICES ASSUME Shape, Driver PROVE Shape'
  OBVIOUS
<1>1. events' \in Seq(Events)
  <2>1. PICK e \in Events : events' = Append(events, e)
    BY DEF Driver, JoinSucceeds, JoinRefused, LinkFails, LinkLost, Post, Events
  <2>. QED BY <2>1, Posted DEF Shape
<1>2. CASE JoinSucceeds
  BY <1>1, <1>2 DEF JoinSucceeds, Shape, statics, handler, stored, bounds
<1>3. CASE JoinRefused
  BY <1>1, <1>3 DEF JoinRefused, LinkLost, Shape, statics, handler, stored
<1>4. CASE LinkFails
  <2>1. failures' \in 0..MaxFailures
    BY <1>4, WifiAssumption DEF LinkFails, Shape
  <2>. QED BY <1>1, <1>4, <2>1
           DEF LinkFails, LinkLost, Shape, statics, handler, stored
<1>. QED BY <1>2, <1>3, <1>4 DEF Driver

LEMMA ShapeEvents == Shape /\ EventLoop => Shape'
<1>. SUFFICES ASSUME Shape, EventLoop PROVE Shape'
  OBVIOUS
<1>. USE DEF statics, handler, stored, bounds
<1>t. ASSUME NEW e, Take(e) PROVE events' \in Seq(Events)
  BY <1>t, Taken DEF Shape
<1>1. CASE OnStart
  <2>1. events' \in Seq(Events)
    BY <1>1, <1>t DEF OnStart
  <2>2. link' \in {"down", "joining", "up"} /\ asked' \in Known
    BY <1>1, ConnectType DEF OnStart, Shape
  <2>. QED BY <1>1, <2>1, <2>2 DEF OnStart, Shape
<1>2. CASE OnDisconnected
  <2>1. events' \in Seq(Events)
    BY <1>2, <1>t DEF OnDisconnected
  <2>2. s_retries' \in 0..MAX_RETRY /\ evPc' \in {"idle", "sleep"}
        /\ bits' \in SUBSET {"CONNECTED", "FAIL"}
    <3>1. s_retries \in 0..MAX_RETRY /\ MAX_RETRY \in Nat
      BY WifiAssumption DEF Shape
    <3>2. CASE MayRetry
      <4>1. s_retries' = s_retries + 1 /\ evPc' = "sleep" /\ bits' = bits
        BY <1>2, <3>2 DEF OnDisconnected
      <4>2. s_retries < MAX_RETRY
        BY <3>2 DEF MayRetry
      <4>. QED BY <3>1, <4>1, <4>2 DEF Shape
    <3>3. CASE ~MayRetry
      BY <1>2, <3>3 DEF OnDisconnected, Shape
    <3>. QED BY <3>2, <3>3
  <2>. QED BY <1>2, <2>1, <2>2 DEF OnDisconnected, NoteLost, Shape
<1>3. CASE Retry
  <2>1. link' \in {"down", "joining", "up"} /\ asked' \in Known
    BY <1>3, ConnectType DEF Retry
  <2>. QED BY <1>3, <2>1 DEF Retry, Shape
<1>4. CASE OnGotIp
  <2>1. events' \in Seq(Events)
    BY <1>4, <1>t DEF OnGotIp
  <2>. QED BY <1>4, <2>1, WifiAssumption DEF OnGotIp, Shape
<1>. QED BY <1>1, <1>2, <1>3, <1>4 DEF EventLoop

LEMMA ShapeWeb == Shape /\ WebTask => Shape'
<1>. SUFFICES ASSUME Shape, WebTask PROVE Shape'
  OBVIOUS
<1>. USE DEF driver, statics, stored, bounds, WebPcs
<1>p. ASSUME NEW e \in Events, events' = Append(events, e)
      PROVE  events' \in Seq(Events)
  BY <1>p, Posted DEF Shape
<1>1. ASSUME NEW c \in Creds, PostSave(c) PROVE Shape'
  <2>1. tests' \in 0..MaxTests
    BY <1>1, WifiAssumption DEF PostSave, SaveArrives, Shape
  <2>. QED BY <1>1, <2>1, WifiAssumption DEF PostSave, SaveArrives, BeginTest, Shape, Known
<1>2. CASE StationOn
  <2>1. events' \in Seq(Events)
    BY <1>2, <1>p DEF StationOn, Shape, Events
  <2>. QED BY <1>2, <2>1 DEF StationOn, Shape
<1>3. CASE ConnectForm
  <2>1. events' \in Seq(Events)
    BY <1>3, <1>p DEF ConnectForm, Post, Shape, Events
  <2>2. config' \in Known /\ asked' \in Known
        /\ link' \in {"down", "joining", "up"}
    BY <1>3 DEF ConnectForm, Shape
  <2>. QED BY <1>3, <2>1, <2>2 DEF ConnectForm, Shape
<1>4. CASE Verdict
  BY <1>4 DEF Verdict, Shape
<1>5. CASE Revert
  <2>1. events' \in Seq(Events)
    BY <1>5, <1>p DEF Revert, Shape, Events
  <2>. QED BY <1>5, <2>1 DEF Revert, Shape
<1>6. CASE ClearBits
  BY <1>6, WifiAssumption DEF ClearBits, Shape
<1>7. CASE SaveAll
  BY <1>7 DEF SaveAll, Shape
<1>8. CASE Restart
  BY <1>8, ShapeBoot DEF Restart, Shape
<1>9. CASE SecondStation
  <2>1. tests' \in 0..MaxTests
    BY <1>9, WifiAssumption DEF SecondStation, SaveArrives, Shape
  <2>. QED BY <1>9, <2>1, ShapeBoot DEF SecondStation, Shape
<1>. QED BY <1>1, <1>2, <1>3, <1>4, <1>5, <1>6, <1>7, <1>8, <1>9 DEF WebTask

LEMMA ShapeNext == Shape /\ [Next]_vars => Shape'
<1>1. CASE PowerCycle
  BY <1>1, ShapeBoot, WifiAssumption DEF PowerCycle, Shape
<1>2. CASE UNCHANGED vars
  BY <1>2 DEF vars, driver, statics, handler, stored, bounds, Shape
<1>. QED BY <1>1, <1>2, ShapeDriver, ShapeEvents, ShapeWeb DEF Next

(* The driver, the event loop and the save handler keep every variable in    *)
(* its range, for every number of retries: s_retries never passes MAX_RETRY. *)
THEOREM TypeCorrect == Spec => []TypeOK
<1>1. Shape => TypeOK
  BY DEF Shape, TypeOK, Known
<1>. QED BY <1>1, ShapeInit, ShapeNext, PTL DEF Spec

-----------------------------------------------------------------------------
(* After a reset there is nothing but the start of a station. *)
LEMMA AfterBoot ==
    ASSUME Boot
    PROVE  /\ link' = "down" /\ ~s_connected' /\ ~s_testing' /\ evPc' = "idle"
           /\ web' = "idle" /\ bits' = {} /\ config' = nvs
           /\ events' = <<"start">> \/ events' = <<>>
           /\ normal' => nvs # NoCreds /\ Has("start")'
           /\ \A n \in 1..Len(events') : events'[n] = "start" /\ n = 1
<1>1. /\ link' = "down" /\ ~s_connected' /\ ~s_testing' /\ evPc' = "idle"
      /\ web' = "idle" /\ bits' = {} /\ config' = nvs
      /\ events' = <<"start">> \/ events' = <<>>
      /\ normal' => nvs # NoCreds
  BY Zenon DEF Boot
<1>2. \A n \in 1..Len(events') : events'[n] = "start" /\ n = 1
  <2>1. CASE normal'
    <3>1. Len(events') = 1 /\ events'[1] = "start"
      BY <2>1, BootEvents
    <3>. QED BY <3>1
  <2>2. CASE ~normal'
    <3>1. Len(events') = 0
      BY <2>2, BootEvents
    <3>. QED BY <3>1
  <2>. QED BY <2>1, <2>2
<1>3. normal' => Has("start")'
  BY BootEvents DEF Has
<1>. QED BY <1>1, <1>2, <1>3

LEMMA InitIsBoot ==
    Init => /\ link = "down" /\ ~s_connected /\ ~s_testing /\ evPc = "idle"
            /\ web = "idle" /\ bits = {} /\ mode = "AP" /\ ~normal
            /\ events = <<>> /\ Len(events) = 0
BY EmptySeq DEF Init

LEMMA HandlerInit == Init => HandlerInv
BY InitIsBoot DEF HandlerInv

LEMMA HandlerNext == Shape /\ HandlerInv /\ [Next]_vars => HandlerInv'
<1>. SUFFICES ASSUME Shape, HandlerInv, [Next]_vars PROVE HandlerInv'
  OBVIOUS
<1>. USE DEF driver, statics, handler, stored, bounds
<1>1. CASE Driver
  BY <1>1 DEF Driver, JoinSucceeds, JoinRefused, LinkFails, LinkLost, HandlerInv
<1>c. Connect /\ mode = "AP" => link' = link
  BY DEF Connect
<1>2. CASE EventLoop
  BY <1>2, <1>c
     DEF EventLoop, OnStart, OnDisconnected, Retry, OnGotIp, HandlerInv
<1>3. ASSUME NEW c \in Creds, PostSave(c) PROVE HandlerInv'
  BY <1>3 DEF PostSave, SaveArrives, BeginTest, HandlerInv
<1>4. CASE StationOn
  BY <1>4 DEF StationOn, HandlerInv
<1>5. CASE ConnectForm
  <2>1. /\ web = "connect" /\ web' = "wait"
        /\ UNCHANGED <<mode, s_testing, form>>
    BY <1>5 DEF ConnectForm
  <2>. QED BY <2>1 DEF HandlerInv
<1>6. CASE Verdict
  BY <1>6 DEF Verdict, HandlerInv
<1>7. CASE Revert
  BY <1>7 DEF Revert, HandlerInv
<1>8. CASE ClearBits \/ SaveAll
  BY <1>8 DEF ClearBits, SaveAll, HandlerInv
<1>9. CASE Boot
  BY <1>9, AfterBoot DEF HandlerInv
<1>10. CASE UNCHANGED vars
  BY <1>10 DEF vars, HandlerInv
<1>. QED BY <1>1, <1>2, <1>3, <1>4, <1>5, <1>6, <1>7, <1>8, <1>9, <1>10
         DEF Next, WebTask, Restart, SecondStation, PowerCycle

LEMMA LinkInit == Init => LinkInv
BY InitIsBoot DEF LinkInv, Has

LEMMA LinkKept ==
    ASSUME LinkInv, UNCHANGED <<events, s_connected>>,
           link' = "up" <=> link = "up"
    PROVE  LinkInv'
BY DEF LinkInv, Has, HasAfter

(* The link goes up or down, and an event says so. *)
LEMMA LinkPost ==
    ASSUME Shape, LinkInv, NEW e \in {"ip", "gone"}, events' = Append(events, e),
           link' = "up" <=> e = "ip", s_connected' = s_connected
    PROVE  LinkInv'
<1>1. events \in Seq(Events) /\ e \in Events
  BY DEF Shape, Events
<1>2. /\ Len(events) \in Nat /\ Len(events') = Len(events) + 1
      /\ \A n \in 1..Len(events) : events'[n] = events[n]
      /\ events'[Len(events) + 1] = e
      /\ \A n \in 1..Len(events') : n \in 1..Len(events) \/ n = Len(events) + 1
  BY <1>1, Posted
<1>3. Has(e)' /\ \A n \in 1..Len(events) : HasAfter(e, n)'
  BY <1>1, PostedHas
<1>4. CASE e = "ip"
  <2>1. \A n \in 1..Len(events') : events'[n] = "gone" => HasAfter("ip", n)'
    BY <1>2, <1>3, <1>4
  <2>. QED BY <1>3, <1>4, <2>1 DEF LinkInv
<1>5. CASE e = "gone"
  <2>1. \A n \in 1..Len(events') : events'[n] = "ip" => HasAfter("gone", n)'
    BY <1>2, <1>3, <1>5
  <2>. QED BY <1>3, <1>5, <2>1 DEF LinkInv
<1>. QED BY <1>4, <1>5

(* A station starts: the link is as it was. *)
LEMMA LinkStart ==
    ASSUME Shape, LinkInv, events' = Append(events, "start"),
           UNCHANGED <<link, s_connected>>
    PROVE  LinkInv'
<1>1. events \in Seq(Events) /\ "start" \in Events
  BY DEF Shape, Events
<1>2. /\ Len(events) \in Nat /\ Len(events') = Len(events) + 1
      /\ \A n \in 1..Len(events) : events'[n] = events[n]
      /\ events'[Len(events) + 1] = "start"
      /\ \A n \in 1..Len(events') : n \in 1..Len(events) \/ n = Len(events) + 1
  BY <1>1, Posted
<1>3. \A x \in {"ip", "gone"} :
         /\ Has(x) => Has(x)'
         /\ \A n \in 1..Len(events) : HasAfter(x, n) => HasAfter(x, n)'
  BY <1>1, PostedHas
<1>4. \A n \in 1..Len(events') : events'[n] \in {"ip", "gone"}
         => n \in 1..Len(events) /\ events'[n] = events[n]
  BY <1>2
<1>5. link' # "up" => \A n \in 1..Len(events') :
                         events'[n] = "ip" => HasAfter("gone", n)'
  BY <1>3, <1>4 DEF LinkInv
<1>6. link' = "up" => \A n \in 1..Len(events') :
                         events'[n] = "gone" => HasAfter("ip", n)'
  BY <1>3, <1>4 DEF LinkInv
<1>. QED BY <1>3, <1>5, <1>6 DEF LinkInv

(* An event is handled. *)
LEMMA LinkTake ==
    ASSUME Shape, LinkInv, NEW e \in Events, Take(e),
           link' = "up" <=> link = "up",
           e = "ip" => s_connected', e = "gone" => ~s_connected',
           e = "start" => s_connected' = s_connected
    PROVE  LinkInv'
<1>1. events \in Seq(Events)
  BY DEF Shape
<1>2. /\ Len(events) \in Nat /\ Len(events) > 0 /\ events[1] = e
      /\ Len(events') = Len(events) - 1
      /\ \A n \in 1..Len(events') : /\ n + 1 \in 1..Len(events)
                                   /\ events'[n] = events[n + 1]
  BY <1>1, Taken
<1>3. \A x \in {"ip", "gone"} :
         /\ Has(x)' <=> HasAfter(x, 1)
         /\ Has(x) <=> HasAfter(x, 1) \/ x = e
         /\ \A n \in 1..Len(events') : HasAfter(x, n)' <=> HasAfter(x, n + 1)
  BY <1>1, TakenHas
<1>4. link' # "up" => \A n \in 1..Len(events') :
                         events'[n] = "ip" => HasAfter("gone", n)'
  BY <1>2, <1>3 DEF LinkInv
<1>5. link' = "up" => \A n \in 1..Len(events') :
                         events'[n] = "gone" => HasAfter("ip", n)'
  BY <1>2, <1>3 DEF LinkInv
<1>6. 1 \in 1..Len(events)
  BY <1>2
<1>7. link' = "up" => s_connected' \/ Has("ip")'
  BY <1>2, <1>3, <1>6 DEF LinkInv, Events
<1>8. link' # "up" => ~s_connected' \/ Has("gone")'
  BY <1>2, <1>3, <1>6 DEF LinkInv, Events
<1>. QED BY <1>4, <1>5, <1>7, <1>8 DEF LinkInv

LEMMA LinkNext == Shape /\ HandlerInv /\ LinkInv /\ [Next]_vars => LinkInv'
<1>. SUFFICES ASSUME Shape, HandlerInv, LinkInv, [Next]_vars PROVE LinkInv'
  OBVIOUS
<1>. USE DEF driver, statics, handler, stored, bounds
<1>1. CASE Driver
  BY <1>1, LinkPost
     DEF Driver, JoinSucceeds, JoinRefused, LinkFails, LinkLost, Post
<1>c. Connect => (link' = "up" <=> link = "up")
  BY DEF Connect
<1>2. CASE OnStart
  BY <1>2, <1>c, LinkTake DEF OnStart, Events
<1>3. CASE OnDisconnected
  BY <1>3, LinkTake DEF OnDisconnected, NoteLost, Events
<1>4. CASE Retry
  BY <1>4, <1>c, LinkKept DEF Retry
<1>5. CASE OnGotIp
  BY <1>5, LinkTake DEF OnGotIp, Events
<1>6. CASE \E c \in Creds : PostSave(c)
  BY <1>6, LinkKept DEF PostSave, SaveArrives
<1>7. CASE StationOn
  BY <1>7, LinkStart, LinkKept DEF StationOn
<1>8. CASE ConnectForm
  BY <1>8, LinkPost, LinkKept DEF ConnectForm, Post
<1>9. CASE Revert
  BY <1>9, LinkPost, LinkKept DEF Revert
<1>10. CASE Verdict \/ ClearBits \/ SaveAll \/ UNCHANGED vars
  BY <1>10, LinkKept DEF Verdict, ClearBits, SaveAll, vars
<1>11. CASE Boot
  BY <1>11, AfterBoot DEF LinkInv
<1>. QED BY <1>1, <1>2, <1>3, <1>4, <1>5, <1>6, <1>7, <1>8, <1>9, <1>10, <1>11
         DEF Next, EventLoop, WebTask, Restart,
             SecondStation, PowerCycle

LinkSafe == Shape /\ HandlerInv /\ LinkInv

LEMMA LinkIsSafe == Spec => []LinkSafe
<1>1. Init => LinkSafe
  BY ShapeInit, HandlerInit, LinkInit DEF LinkSafe
<1>2. LinkSafe /\ [Next]_vars => LinkSafe'
  BY ShapeNext, HandlerNext, LinkNext DEF LinkSafe
<1>. QED BY <1>1, <1>2, PTL DEF Spec

(* When every event is handled, wifi_is_connected() agrees with the link,    *)
(* whatever tests, retries and lost links came between (on_wifi_event,       *)
(* on_ip_event).                                                             *)
THEOREM ConnectedIsTrue == Spec => []ConnectedAgrees
<1>1. LinkSafe => ConnectedAgrees
  <2>. SUFFICES ASSUME LinkSafe, Settled PROVE s_connected <=> link = "up"
    BY DEF ConnectedAgrees
  <2>1. Len(events) = 0
    BY EmptySeq DEF Settled
  <2>2. ~Has("ip") /\ ~Has("gone")
    BY <2>1 DEF Has
  <2>. QED BY <2>2 DEF LinkSafe, LinkInv
<1>. QED BY <1>1, LinkIsSafe, PTL

-----------------------------------------------------------------------------
LEMMA TryInit == Init => TryInv
BY InitIsBoot DEF TryInv

LEMMA TryNext == LinkSafe /\ TryInv /\ [Next]_vars => TryInv'
<1>. SUFFICES ASSUME LinkSafe, TryInv, [Next]_vars,
                     normal', mode' # "AP", web' = "idle"
              PROVE  /\ config' # NoCreds
                     /\ link' = "down" =>
                           \/ evPc' = "sleep" \/ Has("start")' \/ Has("gone")'
                           \/ "FAIL" \in bits' /\ s_retries' = MAX_RETRY
  BY DEF TryInv
<1>. USE DEF driver, statics, handler, stored, bounds
<1>b. CASE Boot
  BY <1>b, AfterBoot DEF Boot
<1>t. events \in Seq(Events) /\ s_retries \in 0..MAX_RETRY
      /\ (s_testing <=> web \in {"mode", "connect", "wait"})
      /\ (web = "clear" => mode = "AP")
  BY DEF LinkSafe, Shape, HandlerInv
<1>a. ASSUME UNCHANGED <<normal, mode, web>>
      PROVE  /\ config # NoCreds /\ ~s_testing
             /\ link = "down" =>
                   \/ evPc = "sleep" \/ Has("start") \/ Has("gone")
                   \/ "FAIL" \in bits /\ s_retries = MAX_RETRY
  BY <1>a, <1>t DEF TryInv
<1>1. CASE Driver
  <2>1. /\ UNCHANGED <<normal, mode, web, config, evPc, bits, s_retries>>
        /\ \/ link' = "up" \/ events' = Append(events, "gone")
    BY <1>1 DEF Driver, JoinSucceeds, JoinRefused, LinkFails, LinkLost, Post
  <2>2. events' = Append(events, "gone") => Has("gone")'
    BY <1>t, PostedHas DEF Events
  <2>. QED BY <1>a, <2>1, <2>2
<1>2. CASE OnStart
  <2>1. UNCHANGED <<normal, mode, web, config, evPc, bits, s_retries>>
    BY <1>2 DEF OnStart
  <2>2. Connect
    BY <1>2, <1>a, <2>1, Zenon DEF OnStart
  <2>3. link' # "down"
    BY <1>a, <2>1, <2>2 DEF Connect, LinkSafe, Shape
  <2>. QED BY <1>a, <2>1, <2>3
<1>3. CASE OnDisconnected
  <2>1. UNCHANGED <<normal, mode, web, config, s_testing>>
    BY <1>3 DEF OnDisconnected
  <2>2. CASE MayRetry
    BY <1>3, <1>a, <2>1, <2>2 DEF OnDisconnected
  <2>3. CASE ~MayRetry
    <3>1. "FAIL" \in bits' /\ s_retries' = s_retries
      BY <1>3, <2>3 DEF OnDisconnected
    <3>2. s_retries = MAX_RETRY
      BY <1>a, <1>t, <2>1, <2>3, WifiAssumption DEF MayRetry
    <3>. QED BY <1>a, <2>1, <3>1, <3>2
  <2>. QED BY <2>2, <2>3
<1>4. CASE Retry
  <2>1. UNCHANGED <<normal, mode, web, config, s_testing>>
    BY <1>4 DEF Retry
  <2>2. Connect
    BY <1>4, Zenon DEF Retry
  <2>3. link' # "down"
    BY <1>a, <2>1, <2>2 DEF Connect
  <2>. QED BY <1>a, <2>1, <2>3
<1>5. CASE OnGotIp
  <2>1. UNCHANGED <<normal, mode, web, config, link, evPc>> /\ Take("ip")
    BY <1>5 DEF OnGotIp
  <2>2. link = "down" => HasAfter("gone", 1)
    <3>1. 1 \in 1..Len(events) /\ events[1] = "ip"
      BY <1>t, <2>1, Taken
    <3>. QED BY <3>1 DEF LinkSafe, LinkInv
  <2>3. link = "down" => Has("gone")'
    BY <1>t, <2>1, <2>2, TakenHas
  <2>. QED BY <1>a, <2>1, <2>3
<1>6. CASE WebTask
  BY <1>6, <1>b, <1>t DEF WebTask, PostSave, SaveArrives, StationOn,
     ConnectForm, Verdict, Revert, ClearBits, SaveAll, Restart, SecondStation
<1>7. CASE UNCHANGED vars
  BY <1>7, <1>a DEF vars, Has
<1>. QED BY <1>1, <1>2, <1>3, <1>4, <1>5, <1>6, <1>7, <1>b
         DEF Next, EventLoop, PowerCycle

(* Until a test has failed, a station that is down and at rest has used its  *)
(* MAX_RETRY retries and said so in the event group: no order of starts,     *)
(* losses, addresses and retries makes it give up before (on_wifi_event,     *)
(* on_ip_event).                                                             *)
THEOREM NeverGivesUpEarly == Spec => []KeepsTrying
<1>1. LinkSafe /\ TryInv => KeepsTrying
  <2>. SUFFICES ASSUME LinkSafe, TryInv, normal, mode # "AP", web = "idle",
                       Settled, link = "down"
                PROVE  "FAIL" \in bits /\ s_retries = MAX_RETRY
    BY DEF KeepsTrying, TestFailed
  <2>1. Len(events) = 0 /\ evPc # "sleep"
    BY EmptySeq DEF Settled
  <2>2. ~Has("start") /\ ~Has("gone")
    BY <2>1 DEF Has
  <2>. QED BY <2>1, <2>2 DEF TryInv
<1>2. Init => TryInv
  BY TryInit
<1>3. LinkSafe /\ TryInv /\ [Next]_vars => TryInv'
  BY TryNext
<1>. QED BY <1>1, <1>2, <1>3, LinkIsSafe, PTL DEF Spec

-----------------------------------------------------------------------------
(* The disconnects that are still to be handled. *)
LEMMA FewGone == /\ ~Has("gone") => OneGone
                 /\ OneGone => TwoGone
BY DEF Has, OneGone, TwoGone

LEMMA PostGone ==
    ASSUME Shape, events' = Append(events, "gone")
    PROVE  /\ ~Has("gone") => OneGone'
           /\ OneGone => TwoGone'
           /\ \A x \in {"ip", "start"} : Has(x)' <=> Has(x)
<1>1. events \in Seq(Events) /\ "gone" \in Events
  BY DEF Shape, Events
<1>2. /\ Len(events) \in Nat /\ Len(events') = Len(events) + 1
      /\ \A n \in 1..Len(events) : events'[n] = events[n]
      /\ \A n \in 1..Len(events') : n \in 1..Len(events) \/ n = Len(events) + 1
  BY <1>1, Posted
<1>3. ~Has("gone") => OneGone'
  BY <1>2 DEF Has, OneGone
<1>4. OneGone => TwoGone'
  BY <1>2 DEF OneGone, TwoGone
<1>5. \A x \in {"ip", "start"} : Has(x)' <=> Has(x)
  BY <1>1, PostedHas
<1>. QED BY <1>3, <1>4, <1>5

LEMMA PostIp ==
    ASSUME Shape, events' = Append(events, "ip")
    PROVE  /\ Has("gone")' <=> Has("gone")
           /\ Has("start")' <=> Has("start")
           /\ OneGone => OneGone'
           /\ TwoGone => TwoGone'
           /\ \A n \in 1..Len(events') : events'[n] = "start"
                 => n \in 1..Len(events) /\ events[n] = "start"
<1>1. events \in Seq(Events) /\ "ip" \in Events
  BY DEF Shape, Events
<1>2. /\ Len(events) \in Nat
      /\ \A n \in 1..Len(events') : events'[n] # "ip" =>
            n \in 1..Len(events) /\ events'[n] = events[n]
  <2>1. /\ Len(events) \in Nat /\ Len(events') = Len(events) + 1
        /\ \A n \in 1..Len(events) : events'[n] = events[n]
        /\ events'[Len(events) + 1] = "ip"
    BY <1>1, Posted
  <2>. QED BY <2>1
<1>3. \A x \in {"gone", "start"} : Has(x)' <=> Has(x)
  BY <1>1, PostedHas
<1>. QED BY <1>2, <1>3 DEF OneGone, TwoGone

LEMMA TakeAny ==
    ASSUME Shape, NEW e, Take(e)
    PROVE  /\ \A x \in Events : Has(x)' => Has(x)
           /\ OneGone => OneGone'
           /\ TwoGone => TwoGone'
           /\ \A n \in 1..Len(events') : n + 1 \in 1..Len(events)
                                        /\ events'[n] = events[n + 1]
           /\ 1 \in 1..Len(events) /\ events[1] = e
<1>1. events \in Seq(Events)
  BY DEF Shape
<1>2. /\ Len(events) \in Nat /\ Len(events) > 0 /\ events[1] = e
      /\ \A n \in 1..Len(events') : n + 1 \in 1..Len(events)
                                   /\ events'[n] = events[n + 1]
  BY <1>1, Taken
<1>3. \A x \in Events : Has(x)' => Has(x)
  BY <1>1, TakenHas
<1>4. OneGone => OneGone'
  <2>. SUFFICES ASSUME OneGone, NEW m \in 1..Len(events'),
                       NEW n \in 1..Len(events'),
                       events'[m] = "gone", events'[n] = "gone"
                PROVE  m = n
    BY DEF OneGone
  <2>1. m + 1 = n + 1
    BY <1>2 DEF OneGone
  <2>. QED BY <2>1
<1>5. TwoGone => TwoGone'
  <2>. SUFFICES ASSUME TwoGone, NEW l \in 1..Len(events'),
                       NEW m \in 1..Len(events'), NEW n \in 1..Len(events'),
                       events'[l] = "gone", events'[m] = "gone",
                       events'[n] = "gone"
                PROVE  l = m \/ m = n \/ l = n
    BY DEF TwoGone
  <2>1. l + 1 = m + 1 \/ m + 1 = n + 1 \/ l + 1 = n + 1
    BY <1>2 DEF TwoGone
  <2>. QED BY <2>1
<1>. QED BY <1>2, <1>3, <1>4, <1>5

LEMMA TakeGone ==
    ASSUME Shape, Take("gone")
    PROVE  /\ Has("gone")
           /\ OneGone => ~Has("gone")'
           /\ TwoGone => OneGone'
<1>2. /\ 1 \in 1..Len(events) /\ events[1] = "gone"
      /\ \A n \in 1..Len(events') : n + 1 \in 1..Len(events)
                                   /\ events'[n] = events[n + 1]
  BY TakeAny
<1>3. ASSUME OneGone, NEW n \in 1..Len(events'), events'[n] = "gone"
      PROVE  FALSE
  <2>1. n + 1 = 1
    BY <1>2, <1>3 DEF OneGone
  <2>. QED BY <2>1
<1>4. ASSUME TwoGone, NEW m \in 1..Len(events'), NEW n \in 1..Len(events'),
             events'[m] = "gone", events'[n] = "gone"
      PROVE  m = n
  <2>1. PICK k, l \in 1..Len(events) : k = m + 1 /\ l = n + 1
    BY <1>2
  <2>2. events[1] = "gone" /\ events[k] = "gone" /\ events[l] = "gone"
    BY <1>2, <1>4, <2>1
  <2>3. k = l \/ k = 1 \/ l = 1
    BY <1>2, <1>4, <2>2 DEF TwoGone
  <2>. QED BY <2>1, <2>3
<1>. QED BY <1>2, <1>3, <1>4 DEF Has, OneGone

FirstStart == \A n \in 1..Len(events) :
                 events[n] = "start" => n = 1 /\ bits = {}

LEMMA NoStart == FirstStart /\ bits # {} => ~Has("start")
BY DEF FirstStart, Has

(* A test goes on. *)
LEMMA TestGoesOn ==
    ASSUME LinkSafe, TestInv, s_testing, s_testing', [Next]_vars
    PROVE  TestInv'
<1>. USE DEF driver, statics, handler, stored, bounds
<1>s. Shape /\ HandlerInv
  BY DEF LinkSafe
<1>t. /\ InTest <= 2 /\ TwoGone /\ FirstStart
      /\ InTest >= 1 => OneGone
      /\ InTest = 2 => ~Has("gone")
      /\ evPc = "sleep" => bits = {}
      /\ web = "mode" /\ mode = "AP" => events = <<>> /\ bits = {}
      /\ mode = "AP" => link = "down"
      /\ web \in {"mode", "connect", "wait"}
  BY <1>s DEF TestInv, HandlerInv, FirstStart
<1>n. InTest \in 0..4 /\ InTest' \in 0..4
  BY DEF InTest, Links, Bit
<1>g. SUFFICES /\ InTest' <= 2 /\ TwoGone'
               /\ InTest' >= 1 => OneGone'
               /\ InTest' = 2 => ~Has("gone")'
               /\ evPc' = "sleep" => bits' = {}
               /\ FirstStart'
               /\ web' = "mode" /\ mode' = "AP" => events' = <<>> /\ bits' = {}
  BY DEF TestInv, FirstStart
<1>k. ASSUME UNCHANGED <<events, bits>>, InTest' <= InTest
      PROVE  /\ InTest' <= 2 /\ TwoGone' /\ FirstStart'
             /\ InTest' >= 1 => OneGone'
             /\ InTest' = 2 => ~Has("gone")'
  <2>1. /\ OneGone' <=> OneGone
        /\ TwoGone' <=> TwoGone
        /\ Has("gone")' <=> Has("gone")
        /\ FirstStart' <=> FirstStart
    BY <1>k DEF OneGone, TwoGone, Has, FirstStart
  <2>. QED BY <1>k, <1>t, <1>n, <2>1
<1>1. CASE JoinSucceeds
  <2>1. /\ events' = Append(events, "ip") /\ InTest' = InTest
        /\ UNCHANGED <<bits, evPc, web, mode>> /\ link # "down"
    BY <1>1 DEF JoinSucceeds, Post, InTest, Links, Bit
  <2>2. FirstStart'
    BY <1>s, <1>t, <2>1, PostIp DEF FirstStart
  <2>. QED BY <1>s, <1>t, <2>1, <2>2, PostIp
<1>2. CASE LinkLost /\ link # "down"
  <2>1. /\ events' = Append(events, "gone") /\ InTest' = InTest - 1
        /\ UNCHANGED <<bits, evPc, web, mode>> /\ link # "down"
    BY <1>2 DEF LinkLost, Post, InTest, Links, Bit
  <2>2. FirstStart'
    BY <1>s, <1>t, <2>1, Posted DEF FirstStart, Shape, Events
  <2>3. InTest >= 1 /\ OneGone /\ TwoGone'
    BY <1>s, <1>t, <1>n, <2>1, PostGone
  <2>4. InTest' >= 1 => OneGone'
    BY <1>s, <1>t, <1>n, <2>1, PostGone
  <2>. QED BY <1>t, <1>n, <2>1, <2>2, <2>3, <2>4
<1>3. CASE OnStart
  <2>1. /\ Take("start") /\ UNCHANGED <<bits, evPc, web, mode, link>>
    BY <1>3 DEF OnStart
  <2>2. InTest' = InTest
    BY <2>1 DEF InTest, Links, Bit
  <2>3. FirstStart' /\ events # <<>>
    BY <1>s, <1>t, <2>1, TakeAny DEF FirstStart, Take
  <2>. QED BY <1>s, <1>t, <2>1, <2>2, <2>3, TakeAny DEF Events
<1>4. CASE OnDisconnected
  <2>1. Take("gone") /\ bits' = bits \cup {"FAIL"}
        /\ UNCHANGED <<evPc, web, mode, link>>
    BY <1>4 DEF OnDisconnected, MayRetry
  <2>2. InTest' \in {InTest, InTest + 1}
    BY <2>1 DEF InTest, Links, Bit
  <2>3. \A n \in 1..Len(events') : events'[n] # "start"
    <3>1. ASSUME NEW n \in 1..Len(events'), events'[n] = "start"
          PROVE  FALSE
      <4>1. n + 1 \in 1..Len(events) /\ events[n + 1] = "start"
        BY <1>s, <2>1, <3>1, TakeAny
      <4>2. n + 1 = 1
        BY <1>t, <4>1 DEF FirstStart
      <4>. QED BY <4>2
    <3>. QED BY <3>1
  <2>4. InTest # 2 /\ TwoGone' /\ (InTest = 1 => ~Has("gone")') /\ OneGone'
    BY <1>s, <1>t, <1>n, <2>1, TakeGone, TakeAny, FewGone
  <2>5. InTest' <= 2 /\ (InTest' = 2 => ~Has("gone")')
    BY <1>t, <1>n, <2>2, <2>4
  <2>6. evPc = "idle" /\ events # <<>>
    BY <2>1 DEF Take
  <2>. QED BY <1>t, <2>1, <2>3, <2>4, <2>5, <2>6 DEF FirstStart
<1>5. CASE Retry
  <2>1. UNCHANGED <<events, bits, web, mode>> /\ evPc' = "idle"
    BY <1>5 DEF Retry
  <2>2. InTest' <= InTest
    BY <1>5 DEF Retry, Connect, InTest, Links, Bit
  <2>. QED BY <1>t, <1>k, <2>1, <2>2
<1>6. CASE OnGotIp
  <2>1. Take("ip") /\ bits' = bits \cup {"CONNECTED"}
        /\ UNCHANGED <<evPc, web, mode, link>>
    BY <1>6 DEF OnGotIp
  <2>2. InTest' = InTest
    BY <2>1 DEF InTest, Links, Bit
  <2>3. \A n \in 1..Len(events') : events'[n] # "start"
    <3>1. ASSUME NEW n \in 1..Len(events'), events'[n] = "start"
          PROVE  FALSE
      <4>1. n + 1 \in 1..Len(events) /\ events[n + 1] = "start"
        BY <1>s, <2>1, <3>1, TakeAny
      <4>2. n + 1 = 1
        BY <1>t, <4>1 DEF FirstStart
      <4>. QED BY <4>2
    <3>. QED BY <3>1
  <2>4. evPc = "idle" /\ events # <<>>
    BY <2>1 DEF Take
  <2>. QED BY <1>s, <1>t, <2>1, <2>2, <2>3, <2>4, TakeAny DEF FirstStart, Events
<1>7. CASE StationOn
  <2>1. web = "mode" /\ web' = "connect" /\ UNCHANGED <<bits, evPc, link>>
    BY <1>7 DEF StationOn
  <2>2. InTest' = InTest
    BY <2>1 DEF InTest, Links, Bit
  <2>3. CASE mode = "AP"
    <3>1. events = <<>> /\ bits = {} /\ events' = Append(events, "start")
      BY <1>7, <1>t, <2>1, <2>3 DEF StationOn
    <3>2. events' = <<"start">>
      BY <3>1
    <3>3. Len(events') = 1 /\ events'[1] = "start"
      BY <3>2, OneEvent DEF Events
    <3>4. \A n \in 1..Len(events') : n = 1 /\ events'[n] = "start"
      BY <3>3
    <3>. QED BY <1>t, <2>1, <2>2, <3>1, <3>4
             DEF OneGone, TwoGone, Has, FirstStart
  <2>4. CASE mode # "AP"
    <3>1. events' = events
      BY <1>7, <2>4 DEF StationOn
    <3>. QED BY <1>t, <1>n, <1>k, <2>1, <2>2, <3>1
  <2>. QED BY <2>3, <2>4
<1>8. CASE ConnectForm
  <2>1. web = "connect" /\ web' = "wait" /\ UNCHANGED <<bits, evPc, mode>>
    BY <1>8 DEF ConnectForm
  <2>2. CASE events' = events
    <3>1. InTest' <= InTest
      BY <2>1 DEF InTest, Links, Bit
    <3>. QED BY <1>t, <1>k, <2>1, <2>2, <3>1
  <2>3. CASE link = "up" /\ link' = "joining" /\ events' = Append(events, "gone")
    <3>1. InTest' = InTest - 1
      BY <2>1, <2>3 DEF InTest, Links, Bit
    <3>2. FirstStart'
      BY <1>s, <1>t, <2>1, <2>3, Posted DEF FirstStart, Shape, Events
    <3>3. InTest >= 1 /\ OneGone /\ TwoGone'
      BY <1>s, <1>t, <1>n, <2>3, <3>1, PostGone
    <3>4. InTest' >= 1 => OneGone'
      BY <1>s, <1>t, <1>n, <2>3, <3>1, PostGone
    <3>. QED BY <1>t, <1>n, <2>1, <3>1, <3>2, <3>3, <3>4
  <2>. QED BY <1>8, <2>2, <2>3 DEF ConnectForm, Post
<1>9. CASE UNCHANGED vars
  <2>1. UNCHANGED <<events, bits, evPc, web, mode, link>>
    BY <1>9 DEF vars
  <2>2. InTest' = InTest
    BY <2>1 DEF InTest, Links, Bit
  <2>. QED BY <1>t, <1>n, <1>k, <2>1, <2>2
<1>10. ~Boot /\ ~Verdict /\ ~Revert /\ ~ClearBits /\ ~SaveAll
       /\ ~\E c \in Creds : PostSave(c)
  <2>1. ~Boot
    BY AfterBoot
  <2>. QED BY <1>t, <2>1 DEF Verdict, Revert, ClearBits, SaveAll, PostSave,
         SaveArrives
<1>11. Driver => JoinSucceeds \/ (LinkLost /\ link # "down")
  BY DEF Driver, JoinRefused, LinkFails
<1>. QED BY <1>1, <1>2, <1>3, <1>4, <1>5, <1>6, <1>7, <1>8, <1>9, <1>10, <1>11
         DEF Next, EventLoop, WebTask, Restart,
             SecondStation, PowerCycle

(* Outside a test. *)
LEMMA RestBoot == Boot => RestInv'
<1>. SUFFICES ASSUME Boot PROVE RestInv'
  OBVIOUS
<1>1. /\ link' = "down" /\ evPc' = "idle"
      /\ events' = <<"start">> \/ events' = <<>>
      /\ \A n \in 1..Len(events') : events'[n] = "start" /\ n = 1
  BY AfterBoot
<1>2. Links' = 0
  BY <1>1 DEF Links, Bit
<1>3. OneGone' /\ ~Has("gone")'
  BY <1>1 DEF OneGone, Has
<1>4. Has("start")' => events' = <<"start">>
  <2>1. CASE events' = <<>>
    BY <2>1, NoEvent DEF Has
  <2>. QED BY <1>1, <2>1
<1>. QED BY <1>1, <1>2, <1>3, <1>4 DEF RestInv

LEMMA RestGoesOn ==
    ASSUME LinkSafe, TestInv, RestInv, Next \/ UNCHANGED vars,
           web' \in {"idle", "disconnect", "clear"}
    PROVE  RestInv'
<1>. USE DEF driver, statics, handler, stored, bounds
<1>s. /\ Shape /\ link \in {"down", "joining", "up"}
      /\ evPc \in {"idle", "sleep"} /\ bits \in SUBSET {"CONNECTED", "FAIL"}
      /\ events \in Seq(Events)
  BY DEF LinkSafe, Shape
<1>n. Links \in 0..2 /\ Links' \in 0..2
  BY DEF Links, Bit
<1>g. SUFFICES /\ Links' <= 1 /\ OneGone'
               /\ Links' = 1 => ~Has("gone")'
               /\ evPc' = "sleep" => ~Has("ip")'
               /\ Has("start")' => /\ events' = <<"start">>
                                   /\ link' = "down" /\ evPc' = "idle"
  BY DEF RestInv
<1>r. ASSUME web \in {"idle", "disconnect", "clear"}
      PROVE  /\ Links <= 1 /\ OneGone
             /\ Links = 1 => ~Has("gone")
             /\ evPc = "sleep" => ~Has("ip")
             /\ Has("start") => /\ events = <<"start">> /\ Len(events) = 1
                                /\ events[1] = "start"
                                /\ link = "down" /\ evPc = "idle"
             /\ evPc = "sleep" => link = "down"
  <2>1. /\ Links <= 1 /\ OneGone
        /\ Links = 1 => ~Has("gone")
        /\ evPc = "sleep" => ~Has("ip")
        /\ Has("start") => /\ events = <<"start">>
                           /\ link = "down" /\ evPc = "idle"
    BY <1>r DEF RestInv
  <2>2. evPc = "sleep" => link = "down"
    BY <2>1, <1>s DEF Links, Bit
  <2>3. events = <<"start">> => Len(events) = 1 /\ events[1] = "start"
    OBVIOUS
  <2>. QED BY <2>1, <2>2, <2>3
<1>k. ASSUME UNCHANGED <<events, evPc, link>>
      PROVE  /\ OneGone' <=> OneGone
             /\ \A x : Has(x)' <=> Has(x)
             /\ Links' = Links
  BY <1>k DEF OneGone, Has, Links
<1>1. CASE JoinSucceeds
  <2>1. /\ events' = Append(events, "ip") /\ Links' = Links
        /\ UNCHANGED <<evPc, web>> /\ link # "down"
    BY <1>1 DEF JoinSucceeds, Post, Links, Bit
  <2>2. Links >= 1
    BY <2>1, <1>s DEF Links, Bit
  <2>. QED BY <1>s, <1>n, <1>r, <2>1, <2>2, PostIp
<1>2. CASE LinkLost /\ link # "down"
  <2>1. /\ events' = Append(events, "gone") /\ Links' = Links - 1
        /\ UNCHANGED <<evPc, web>> /\ link # "down"
    BY <1>2 DEF LinkLost, Post, Links, Bit
  <2>. QED BY <1>s, <1>n, <1>r, <2>1, PostGone
<1>3. CASE OnStart
  <2>1. Take("start") /\ UNCHANGED <<evPc, web>> /\ evPc = "idle"
    BY <1>3 DEF OnStart, Take
  <2>2. Len(events) = 1
    <3>1. Has("start")
      BY <1>s, <2>1, TakeAny DEF Has
    <3>. QED BY <1>r, <2>1, <3>1
  <2>3. Len(events') = 0
    BY <1>s, <2>1, <2>2, Taken
  <2>4. \A n \in 1..Len(events') : FALSE
    BY <2>3
  <2>5. Links' <= 1
    BY <2>1 DEF Links, Bit
  <2>. QED BY <2>1, <2>4, <2>5 DEF OneGone, Has
<1>4. CASE OnDisconnected
  <2>1. Take("gone") /\ UNCHANGED <<link, web>>
    BY <1>4 DEF OnDisconnected
  <2>2. Has("gone") /\ Links = 0 /\ OneGone
    BY <1>s, <1>n, <1>r, <2>1, TakeGone
  <2>3. OneGone' /\ ~Has("gone")' /\ (Has("start")' => Has("start"))
    BY <1>s, <2>1, <2>2, TakeGone, TakeAny DEF Events
  <2>4. ~Has("start")
    BY <1>s, <1>r, <2>1, TakeAny
  <2>5. link = "down"
    BY <2>2, <1>s DEF Links, Bit
  <2>6. Links' <= 1
    BY <2>1, <2>5 DEF Links, Bit
  <2>7. ASSUME NEW n \in 1..Len(events'), events'[n] = "ip"
        PROVE  FALSE
    <3>1. /\ n + 1 \in 1..Len(events) /\ events[n + 1] = "ip"
          /\ 1 \in 1..Len(events) /\ events[1] = "gone"
      BY <1>s, <2>1, <2>7, TakeAny
    <3>2. HasAfter("gone", n + 1)
      BY <2>5, <3>1 DEF LinkSafe, LinkInv
    <3>3. PICK m \in 1..Len(events) : m > n + 1 /\ events[m] = "gone"
      BY <3>2 DEF HasAfter
    <3>4. m = 1
      BY <2>2, <3>1, <3>3 DEF OneGone
    <3>. QED BY <3>3, <3>4
  <2>. QED BY <2>3, <2>4, <2>6, <2>7 DEF Has
<1>5. CASE Retry
  <2>1. /\ UNCHANGED <<events, web>> /\ evPc = "sleep" /\ evPc' = "idle"
    BY <1>5 DEF Retry
  <2>2. OneGone' /\ ~Has("gone")' /\ ~Has("start")'
    <3>1. Links = 1
      BY <1>n, <1>r, <2>1, <1>s DEF Links, Bit
    <3>. QED BY <1>r, <2>1, <3>1 DEF OneGone, Has
  <2>3. Links' <= 1
    BY <2>1 DEF Links, Bit
  <2>. QED BY <2>1, <2>2, <2>3
<1>6. CASE OnGotIp
  <2>1. Take("ip") /\ UNCHANGED <<evPc, web, link>>
    BY <1>6 DEF OnGotIp
  <2>2. Links' = Links
    BY <2>1 DEF Links
  <2>3. ~Has("start")
    BY <1>s, <1>r, <2>1, TakeAny
  <2>. QED BY <1>s, <1>r, <2>1, <2>2, <2>3, TakeAny DEF Events
<1>7. CASE Verdict
  <2>1. /\ web = "wait" /\ UNCHANGED <<events, evPc, link>>
        /\ "CONNECTED" \notin bits
        /\ bits # {} \/ (events = <<>> /\ evPc = "idle")
    BY <1>7 DEF Verdict
  <2>2. s_testing
    BY <2>1 DEF LinkSafe, HandlerInv
  <2>3. /\ InTest <= 2
        /\ InTest >= 1 => OneGone
        /\ InTest = 2 => ~Has("gone")
        /\ evPc = "sleep" => bits = {}
        /\ FirstStart
    BY <2>2 DEF TestInv, FirstStart
  <2>4. CASE bits = {}
    <3>1. Len(events) = 0 /\ evPc = "idle" /\ Links <= 1
      BY <2>1, <2>4, EmptySeq DEF Links, Bit
    <3>2. \A n \in 1..Len(events) : FALSE
      BY <3>1
    <3>. QED BY <1>k, <2>1, <3>1, <3>2 DEF OneGone, Has
  <2>5. CASE bits # {}
    <3>1. "FAIL" \in bits /\ evPc # "sleep" /\ ~Has("start")
      BY <1>s, <2>1, <2>3, <2>5, NoStart
    <3>2. InTest = Links + 1
      BY <2>1, <3>1, <1>n DEF InTest, Bit
    <3>. QED BY <1>k, <1>n, <2>1, <2>3, <3>1, <3>2
  <2>. QED BY <2>4, <2>5
<1>8. CASE Revert
  <2>1. web = "disconnect" /\ link' = "down" /\ UNCHANGED evPc
    BY <1>8 DEF Revert
  <2>2. CASE link = "down"
    <3>1. UNCHANGED <<events, evPc, link>>
      BY <1>8, <2>1, <2>2 DEF Revert
    <3>. QED BY <1>k, <1>r, <2>1, <3>1
  <2>3. CASE link # "down"
    <3>1. events' = Append(events, "gone")
      BY <1>8, <2>3 DEF Revert
    <3>2. Links = 1 /\ evPc = "idle"
      BY <1>n, <1>r, <1>s, <2>1, <2>3 DEF Links, Bit
    <3>3. Links' = 0
      BY <2>1, <3>2 DEF Links, Bit
    <3>. QED BY <1>r, <1>s, <2>1, <2>3, <3>1, <3>2, <3>3, PostGone
  <2>. QED BY <2>2, <2>3
<1>9. CASE ClearBits \/ UNCHANGED vars
  <2>1. UNCHANGED <<events, evPc, link>> /\ web \in {"idle", "disconnect", "clear"}
    BY <1>9 DEF ClearBits, vars
  <2>. QED BY <1>k, <1>r, <2>1
<1>10. CASE Boot
  BY <1>10, RestBoot DEF RestInv
<1>11. Driver => JoinSucceeds \/ (LinkLost /\ link # "down")
  BY DEF Driver, JoinRefused, LinkFails
<1>12. ~StationOn /\ ~ConnectForm /\ ~SaveAll /\ ~\E c \in Creds : PostSave(c)
  BY DEF StationOn, ConnectForm, SaveAll, PostSave, SaveArrives
<1>. QED BY <1>1, <1>2, <1>3, <1>4, <1>5, <1>6, <1>7, <1>8, <1>9, <1>10, <1>11,
            <1>12 DEF Next, EventLoop, WebTask, Restart,
             SecondStation, PowerCycle

LEMMA RestNext == LinkSafe /\ TestInv /\ RestInv /\ [Next]_vars => RestInv'
<1>1. CASE web' \in {"idle", "disconnect", "clear"}
  BY <1>1, RestGoesOn
<1>2. CASE web' \notin {"idle", "disconnect", "clear"}
  BY <1>2 DEF RestInv
<1>. QED BY <1>1, <1>2

(* A test begins where nothing is on its way that could decide it. *)
LEMMA TestBegins ==
    ASSUME LinkSafe, RestInv, NEW c \in Creds, PostSave(c)
    PROVE  TestInv' /\ ~Has("ip")
<1>1. /\ web = "idle" /\ web' = "mode" /\ bits' = {}
      /\ UNCHANGED <<events, evPc, link, mode>>
      /\ events = <<>> \/ evPc = "sleep"
  BY DEF PostSave, SaveArrives, BeginTest, driver
<1>2. /\ Links <= 1 /\ OneGone
      /\ Links = 1 => ~Has("gone")
      /\ evPc = "sleep" => ~Has("ip")
      /\ Has("start") => evPc = "idle"
  BY <1>1 DEF RestInv
<1>3. /\ events \in Seq(Events) /\ Len(events) \in Nat
      /\ \A n \in 1..Len(events) : events[n] \in Events
  BY LenProperties, ElementOfSeq DEF LinkSafe, Shape
<1>4. Links \in 0..2 /\ (evPc = "sleep" => Links >= 1)
  BY DEF Links, Bit
<1>5. events = <<>>
  <2>1. CASE evPc = "sleep"
    <3>1. ~Has("gone") /\ ~Has("ip") /\ ~Has("start")
      BY <1>2, <1>4, <2>1
    <3>2. Len(events) = 0
      BY <1>3, <3>1 DEF Has, Events
    <3>. QED BY <1>3, <3>2, EmptySeq
  <2>. QED BY <1>1, <2>1
<1>6. \A n \in 1..Len(events) : FALSE
  BY <1>5, EmptySeq
<1>7. InTest' = Links + 1
  BY <1>1, <1>4 DEF InTest, Links, Bit
<1>8. InTest' <= 2
  BY <1>2, <1>4, <1>7
<1>. QED BY <1>1, <1>5, <1>6, <1>8 DEF TestInv, OneGone, TwoGone, Has

TestSafe == LinkSafe /\ TestInv /\ RestInv

LEMMA TestNext == TestSafe /\ [Next]_vars => TestInv'
<1>. SUFFICES ASSUME TestSafe, [Next]_vars, s_testing' PROVE TestInv'
  BY DEF TestInv
<1>1. CASE s_testing
  BY <1>1, TestGoesOn DEF TestSafe
<1>2. CASE ~s_testing
  <2>1. CASE \E c \in Creds : PostSave(c)
    BY <2>1, TestBegins DEF TestSafe
  <2>2. CASE Boot
    BY <2>2, AfterBoot
  <2>3. CASE UNCHANGED s_testing
    BY <1>2, <2>3
  <2>4. Verdict => ~s_testing'
    BY DEF Verdict
  <2>5. /\ Driver => UNCHANGED s_testing
        /\ EventLoop => UNCHANGED s_testing
        /\ UNCHANGED vars => UNCHANGED s_testing
        /\ StationOn \/ ConnectForm \/ Revert \/ ClearBits \/ SaveAll
              => UNCHANGED s_testing
    BY DEF Driver, JoinSucceeds, JoinRefused, LinkFails, LinkLost, EventLoop,
           OnStart, OnDisconnected, Retry, OnGotIp, StationOn, ConnectForm,
           Revert, ClearBits, SaveAll, vars, statics
  <2>. QED BY <2>1, <2>2, <2>3, <2>4, <2>5
           DEF Next, WebTask, Restart, SecondStation, PowerCycle
<1>. QED BY <1>1, <1>2

LEMMA TestIsSafe == Spec => []TestSafe
<1>1. Init => TestInv /\ RestInv
  <2>. SUFFICES ASSUME Init PROVE TestInv /\ RestInv
    OBVIOUS
  <2>1. /\ ~s_testing /\ link = "down" /\ evPc = "idle"
        /\ \A n \in 1..Len(events) : FALSE
    BY InitIsBoot
  <2>2. Links = 0
    BY <2>1 DEF Links, Bit
  <2>. QED BY <2>1, <2>2 DEF TestInv, RestInv, OneGone, Has
<1>2. TestSafe /\ [Next]_vars => TestInv' /\ RestInv'
  BY TestNext, RestNext DEF TestSafe
<1>. QED BY <1>1, <1>2, LinkIsSafe, PTL DEF Spec, TestSafe

LEMMA ProvenNext == TestSafe /\ ProvenInv /\ [Next]_vars => ProvenInv'
<1>. SUFFICES ASSUME TestSafe, ProvenInv, [Next]_vars PROVE ProvenInv'
  OBVIOUS
<1>. USE DEF driver, statics, handler, stored, bounds
<1>s. Shape /\ events \in Seq(Events)
  BY DEF TestSafe, LinkSafe, Shape
<1>b. CASE Boot
  BY <1>b, AfterBoot DEF ProvenInv
<1>k. ASSUME UNCHANGED proven, web' = "save" => web = "save",
             s_testing' => s_testing,
             Has("ip")' => Has("ip"),
             "CONNECTED" \in bits' => Has("ip") \/ "CONNECTED" \in bits
      PROVE  ProvenInv'
  BY <1>k DEF ProvenInv
<1>1. CASE JoinSucceeds
  <2>1. proven' # NoCreds
    BY <1>1, WifiAssumption DEF JoinSucceeds, NoCreds
  <2>. QED BY <2>1 DEF ProvenInv
<1>2. CASE LinkLost
  <2>1. events' = Append(events, "gone") /\ UNCHANGED <<proven, web, s_testing, bits>>
    BY <1>2 DEF LinkLost, Post
  <2>. QED BY <1>s, <1>k, <2>1, PostGone
<1>3. CASE OnStart
  <2>1. Take("start") /\ UNCHANGED <<proven, web, s_testing, bits>>
    BY <1>3 DEF OnStart
  <2>. QED BY <1>s, <1>k, <2>1, TakeAny DEF Events
<1>4. CASE OnDisconnected
  <2>1. /\ Take("gone") /\ UNCHANGED <<proven, web, s_testing>>
        /\ "CONNECTED" \in bits' => "CONNECTED" \in bits
    BY <1>4 DEF OnDisconnected
  <2>. QED BY <1>s, <1>k, <2>1, TakeAny DEF Events
<1>5. CASE Retry
  <2>1. UNCHANGED <<proven, web, s_testing, events, bits>>
    BY <1>5 DEF Retry
  <2>. QED BY <1>k, <2>1 DEF Has
<1>6. CASE OnGotIp
  <2>1. Take("ip") /\ UNCHANGED <<proven, web, s_testing>>
    BY <1>6 DEF OnGotIp
  <2>2. Has("ip")
    BY <1>s, <2>1, TakeAny DEF Has
  <2>. QED BY <1>s, <1>k, <2>1, <2>2, TakeAny DEF Events
<1>7. CASE \E c \in Creds : PostSave(c)
  <2>1. /\ web' = "mode" /\ bits' = {} /\ ~Has("ip") /\ UNCHANGED events
    BY <1>7, TestBegins DEF PostSave, SaveArrives, BeginTest, TestSafe
  <2>. QED BY <2>1 DEF ProvenInv, Has
<1>8. CASE StationOn
  <2>1. /\ web' = "connect" /\ UNCHANGED <<proven, s_testing, bits>>
        /\ events' = events \/ events' = Append(events, "start")
    BY <1>8 DEF StationOn
  <2>2. Has("ip")' => Has("ip")
    BY <1>s, <2>1, PostedHas DEF Has, Events
  <2>. QED BY <1>k, <2>1, <2>2
<1>9. CASE ConnectForm
  <2>1. /\ web' = "wait" /\ UNCHANGED <<proven, s_testing, bits>>
        /\ events' = events \/ events' = Append(events, "gone")
    BY <1>9 DEF ConnectForm, Post
  <2>2. Has("ip")' => Has("ip")
    BY <1>s, <2>1, PostedHas DEF Has, Events
  <2>. QED BY <1>k, <2>1, <2>2
<1>10. CASE Verdict
  <2>1. /\ web = "wait" /\ ~s_testing' /\ UNCHANGED proven
        /\ web' = "save" => "CONNECTED" \in bits
    BY <1>10 DEF Verdict
  <2>2. s_testing
    BY <2>1 DEF TestSafe, LinkSafe, HandlerInv
  <2>. QED BY <2>1, <2>2 DEF ProvenInv
<1>11. CASE Revert \/ ClearBits \/ SaveAll
  <2>1. web' # "save" /\ UNCHANGED s_testing
        /\ web \in {"disconnect", "clear", "save"}
    BY <1>11 DEF Revert, ClearBits, SaveAll
  <2>2. ~s_testing
    BY <2>1 DEF TestSafe, LinkSafe, HandlerInv
  <2>. QED BY <2>1, <2>2 DEF ProvenInv
<1>12. CASE UNCHANGED vars
  BY <1>12, <1>k DEF vars, Has
<1>. QED BY <1>1, <1>2, <1>3, <1>4, <1>5, <1>6, <1>7, <1>8, <1>9, <1>10, <1>11,
            <1>12, <1>b DEF Next, Driver, JoinRefused, LinkFails, EventLoop,
            WebTask, Restart, SecondStation, PowerCycle

(* What the save handler writes to flash has passed a test in which the      *)
(* station did get an address: whatever was queued, asked for or set in the  *)
(* event group before the test, it does not decide it                        *)
(* (wifi_test_credentials, handler_post_save).                               *)
THEOREM SavedIsProven == Spec => SavedAfterAddress
<1>1. Init => ProvenInv
  BY InitIsBoot DEF ProvenInv
<1>2. ProvenInv /\ [Next]_vars => [nvs' # nvs => proven # NoCreds]_vars
  <2>. SUFFICES ASSUME ProvenInv, Next, nvs' # nvs PROVE proven # NoCreds
    OBVIOUS
  <2>1. SaveAll
    BY DEF Next, Driver, JoinSucceeds, JoinRefused, LinkFails, LinkLost,
       EventLoop, OnStart, OnDisconnected, Retry, OnGotIp, WebTask, PostSave,
       SecondStation, SaveArrives, StationOn, ConnectForm, Verdict, Revert,
       ClearBits, Restart, PowerCycle,
       Boot, stored
  <2>. QED BY <2>1 DEF SaveAll, ProvenInv
<1>. QED BY <1>1, <1>2, TestIsSafe, ProvenNext, PTL DEF Spec, SavedAfterAddress

=============================================================================
