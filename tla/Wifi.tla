-------------------------------- MODULE Wifi --------------------------------
(***************************************************************************)
(* net/wifi.c with its users: the WiFi and IP event handlers, which run    *)
(* one after the other on the event loop's task and sleep there before a   *)
(* retry, the credential test that the web server's save handler makes on  *)
(* its own task, and the boot into setup mode (an access point) or normal  *)
(* mode (a station).  The driver and the access points around are external.*)
(***************************************************************************)
EXTENDS Integers, Sequences

CONSTANTS
    Creds,          \* network name and password, as one value
    Right,          \* those that some access point accepts
    MAX_RETRY,      \* 5
    StationPortal,  \* TRUE: the web server is also used in normal mode
    MaxTests,       \* bound: credential tests
    MaxFailures,    \* bound: joins that fail although the network would
                    \* accept them, links that drop
    MaxReboots      \* bound: resets by hand

ASSUME WifiAssumption ==
    /\ Right \subseteq Creds /\ "none" \notin Creds
    /\ MAX_RETRY \in Nat
    /\ StationPortal \in BOOLEAN
    /\ {MaxTests, MaxFailures, MaxReboots} \subseteq Nat

VARIABLES
  \* the driver: its mode, station configuration and link, the credentials
  \* the link was asked for with, and the events posted and not yet handled
    mode, config, link, asked, events,
  \* wifi.c: the event group's bits and the static variables
    bits, s_retries, s_connected, s_testing,
  \* whether the event handler sleeps before a retry
    evPc,
  \* the save handler: where it is and the credentials it was given
    web, form,
  \* the credentials in flash, and whether the boot was a normal one
    nvs, normal,
  \* history: the credentials that got an address in this test
    proven,
  \* bounds
    tests, failures, reboots

driver  == <<mode, config, link, asked, events>>
statics == <<bits, s_retries, s_connected, s_testing>>
handler == <<web, form>>
stored  == <<nvs, normal>>
bounds  == <<tests, failures, reboots>>
vars == <<driver, statics, evPc, handler, stored, proven, bounds>>

NoCreds == "none"
Events  == {"start", "gone", "ip"}
WebPcs  == {"idle", "mode", "connect", "wait", "disconnect", "clear", "save",
            "restart"}

TypeOK ==
    /\ mode \in {"AP", "STA", "APSTA"}
    /\ {config, asked, form, nvs, proven} \subseteq Creds \cup {NoCreds}
    /\ link \in {"down", "joining", "up"}
    /\ events \in Seq(Events)
    /\ bits \in SUBSET {"CONNECTED", "FAIL"}
    /\ s_retries \in 0..MAX_RETRY
    /\ s_connected \in BOOLEAN /\ s_testing \in BOOLEAN
    /\ evPc \in {"idle", "sleep"}
    /\ web \in WebPcs
    /\ normal \in BOOLEAN
    /\ tests \in 0..MaxTests /\ failures \in 0..MaxFailures
    /\ reboots \in 0..MaxReboots

(* An empty flash: setup mode. *)
Init ==
    /\ mode = "AP" /\ config = NoCreds /\ link = "down" /\ asked = NoCreds
    /\ events = <<>> /\ bits = {} /\ s_retries = 0
    /\ s_connected = FALSE /\ s_testing = FALSE /\ evPc = "idle"
    /\ web = "idle" /\ form = NoCreds
    /\ nvs = NoCreds /\ normal = FALSE /\ proven = NoCreds
    /\ tests = 0 /\ failures = 0 /\ reboots = 0

(* wifi_init() after a reset: a station if flash has a network name. *)
Boot ==
    /\ normal' = (nvs # NoCreds)
    /\ mode' = IF normal' THEN "STA" ELSE "AP"
    /\ events' = IF normal' THEN <<"start">> ELSE <<>>
    /\ config' = nvs /\ link' = "down" /\ asked' = NoCreds
    /\ bits' = {} /\ s_retries' = 0
    /\ s_connected' = FALSE /\ s_testing' = FALSE /\ evPc' = "idle"
    /\ web' = "idle" /\ form' = NoCreds /\ proven' = NoCreds
    /\ UNCHANGED nvs

PowerCycle ==
    /\ reboots < MaxReboots /\ reboots' = reboots + 1
    /\ Boot
    /\ UNCHANGED <<tests, failures>>

-----------------------------------------------------------------------------
(* The driver. *)

Post(e) == events' = Append(events, e)

(* esp_wifi_connect() does nothing in mode AP or while a link is there. *)
Connect ==
    IF mode # "AP" /\ link = "down" /\ config # NoCreds
    THEN link' = "joining" /\ asked' = config
    ELSE UNCHANGED <<link, asked>>

JoinSucceeds ==
    /\ link = "joining" /\ asked \in Right
    /\ link' = "up" /\ Post("ip")
    /\ proven' = asked
    /\ UNCHANGED <<mode, config, asked, statics, evPc, handler, stored, bounds>>

LinkLost ==
    /\ link' = "down" /\ Post("gone")
    /\ UNCHANGED <<mode, config, asked, statics, evPc, handler, stored, proven,
                   tests, reboots>>

JoinRefused == link = "joining" /\ asked \notin Right /\ LinkLost
               /\ UNCHANGED failures

LinkFails == link # "down" /\ asked \in Right /\ LinkLost
             /\ failures < MaxFailures /\ failures' = failures + 1

-----------------------------------------------------------------------------
(* on_wifi_event() and on_ip_event(), on the event loop's task. *)

Take(e) == /\ evPc = "idle" /\ events # <<>> /\ Head(events) = e
           /\ events' = Tail(events)

(* Mutant of OnStart: the automatic connect is off in normal mode, too. *)
OnStartQuiet ==
    /\ Take("start")
    /\ UNCHANGED <<mode, config, link, asked, statics, evPc, handler, stored,
                   proven, bounds>>

OnStart ==
    /\ Take("start")
    /\ IF s_testing THEN UNCHANGED <<link, asked>> ELSE Connect
    /\ UNCHANGED <<mode, config, statics, evPc, handler, stored, proven,
                   bounds>>

(* Mutant of MayRetry: one retry too many. *)
MayRetryOnceMore == ~s_testing /\ s_retries <= MAX_RETRY

MayRetry == ~s_testing /\ s_retries < MAX_RETRY

(* Mutant of NoteLost: not during a test. *)
NoteLostUntested == s_connected' = (s_testing /\ s_connected)

NoteLost == s_connected' = FALSE

OnDisconnected ==
    /\ Take("gone")
    /\ NoteLost
    /\ IF MayRetry
       THEN /\ s_retries' = s_retries + 1
            /\ evPc' = "sleep"
            /\ UNCHANGED bits
       ELSE /\ bits' = bits \cup {"FAIL"}
            /\ UNCHANGED <<s_retries, evPc>>
    /\ UNCHANGED <<mode, config, link, asked, s_testing, handler, stored,
                   proven, bounds>>

(* The end of the vTaskDelay() in on_wifi_event(). *)
Retry ==
    /\ evPc = "sleep" /\ evPc' = "idle"
    /\ Connect
    /\ UNCHANGED <<mode, config, events, statics, handler, stored, proven,
                   bounds>>

OnGotIp ==
    /\ Take("ip")
    /\ s_retries' = 0
    /\ s_connected' = TRUE
    /\ bits' = bits \cup {"CONNECTED"}
    /\ UNCHANGED <<mode, config, link, asked, s_testing, evPc, handler, stored,
                   proven, bounds>>

-----------------------------------------------------------------------------
(* handler_post_save() and wifi_test_credentials(), on the web server's     *)
(* task.                                                                    *)

(* Mutant of BeginTest: the bits stay as they are. *)
BeginTestKeepsBits == s_retries' = 0 /\ s_testing' = TRUE /\ UNCHANGED bits

BeginTest == s_retries' = 0 /\ s_testing' = TRUE /\ bits' = {}

(* The user takes longer than the handling of an event; a retry that sleeps *)
(* may take longer than the user.                                           *)
SaveArrives ==
    /\ web = "idle" /\ tests < MaxTests /\ tests' = tests + 1
    /\ events = <<>> \/ evPc = "sleep"
    /\ ~normal \/ (StationPortal /\ link = "up")

(* In normal mode wifi_init() made the default station and did not keep it   *)
(* in s_sta_netif, so the test makes it again.  ESP-IDF refuses a second one *)
(* and, with its assertions on as in sdkconfig, stops the device there: it   *)
(* boots anew.  A build without them goes on with the test, on the station   *)
(* that there is (PostSave).                                                 *)
SecondStation ==
    /\ SaveArrives /\ normal
    /\ Boot
    /\ UNCHANGED <<failures, reboots>>

PostSave(c) ==
    /\ SaveArrives
    /\ form' = c /\ web' = "mode"
    /\ BeginTest
    /\ proven' = NoCreds
    /\ UNCHANGED <<driver, s_connected, evPc, stored, failures, reboots>>

(* The mode APSTA: a station that was not there starts. *)
StationOn ==
    /\ web = "mode" /\ web' = "connect"
    /\ mode' = "APSTA"
    /\ events' = IF mode = "AP" THEN Append(events, "start") ELSE events
    /\ UNCHANGED <<config, link, asked, statics, evPc, form, stored, proven,
                   bounds>>

(* esp_wifi_set_config(), which the driver may refuse while it joins, and   *)
(* esp_wifi_connect(); a link that is up stays as it is or is given up for  *)
(* the new one.                                                             *)
ConnectForm ==
    /\ web = "connect" /\ web' = "wait"
    /\ config' = form \/ (link = "joining" /\ config' = config)
    /\ \/ /\ link = "down"
          /\ link' = "joining" /\ asked' = form
          /\ UNCHANGED events
       \/ /\ link # "down"
          /\ UNCHANGED <<link, asked, events>>
       \/ /\ link = "up"
          /\ link' = "joining" /\ asked' = form /\ Post("gone")
    /\ UNCHANGED <<mode, statics, evPc, form, stored, proven, bounds>>

(* The wait ends with a bit, or after thirty seconds; that is longer than a  *)
(* retry that slept when the test began (two seconds in setup mode, where    *)
(* each test starts the count anew), and the event task has caught up.       *)
Verdict ==
    /\ web = "wait"
    /\ bits # {} \/ (events = <<>> /\ evPc = "idle")
    /\ s_testing' = FALSE
    /\ web' = IF "CONNECTED" \in bits THEN "save" ELSE "disconnect"
    /\ UNCHANGED <<driver, bits, s_retries, s_connected, evPc, form, stored,
                   proven, bounds>>

(* Back to the access point alone. *)
Revert ==
    /\ web = "disconnect" /\ web' = "clear"
    /\ events' = IF link = "down" THEN events ELSE Append(events, "gone")
    /\ link' = "down"
    /\ mode' = "AP"
    /\ UNCHANGED <<config, asked, statics, evPc, form, stored, proven, bounds>>

ClearBits ==
    /\ web = "clear" /\ web' = "idle"
    /\ s_retries' = 0 /\ bits' = {}
    /\ UNCHANGED <<driver, s_connected, s_testing, evPc, form, stored, proven,
                   bounds>>

SaveAll ==
    /\ web = "save" /\ web' = "restart"
    /\ nvs' = form
    /\ UNCHANGED <<driver, statics, evPc, form, normal, proven, bounds>>

Restart == web = "restart" /\ Boot /\ UNCHANGED bounds

-----------------------------------------------------------------------------
Driver    == JoinSucceeds \/ JoinRefused \/ LinkFails
EventLoop == OnStart \/ OnDisconnected \/ Retry \/ OnGotIp
WebTask   == SecondStation \/ (\E c \in Creds : PostSave(c)) \/ StationOn
                \/ ConnectForm \/ Verdict \/ Revert \/ ClearBits \/ SaveAll
                \/ Restart

Next == Driver \/ EventLoop \/ WebTask \/ PowerCycle

Spec == Init /\ [][Next]_vars

-----------------------------------------------------------------------------
(* Properties. *)

Settled == events = <<>> /\ evPc = "idle"

(* wifi_is_connected() lags behind the link by the events still to come and *)
(* no further.                                                              *)
ConnectedAgrees == Settled => (s_connected <=> link = "up")

(* A station that is down with no event to come has used up its retries, and *)
(* FAIL tells wifi_wait_connected() so, however starts, losses, addresses and *)
(* sleeping retries followed on one another (on_wifi_event, on_ip_event).     *)
(* Not so after a test that failed: the device is back to the access point    *)
(* alone, a normal boot stays without its station until the next reset, and   *)
(* neither a bit nor the count tells (wifi_test_credentials).                 *)
TestFailed == mode = "AP"

KeepsTrying ==
    normal /\ web = "idle" /\ Settled /\ link = "down" /\ ~TestFailed
       => "FAIL" \in bits /\ s_retries = MAX_RETRY

(* What is saved passed a test in which the station did get an address: an   *)
(* event or a bit left over from an earlier attempt does not decide a test   *)
(* (wifi_test_credentials, handler_post_save).  Not claimed: that the        *)
(* address was got with the credentials under test.                          *)
SavedAfterAddress == [][nvs' # nvs => proven # NoCreds]_vars
=============================================================================
