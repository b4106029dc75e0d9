----------------------------- MODULE SetupProofs -----------------------------
(***************************************************************************)
(* The safety properties of Setup, for every value of its constants.       *)
(***************************************************************************)
EXTENDS Setup, TLAPS

WebRecord == [pc : {"idle", "test", "save", "restart"},
              form : Forms \cup {NoForm}, key : 1..5]
RegPcs    == {"none", "poll", "check", "app", "guild", "put", "flag", "gone"}
RegRecord == [pc : RegPcs, tries : 0..MAX_TRIES,
              app : Tokens \cup {None}, guild : Guilds \cup {None}]
Registrations == Tokens \X Guilds
TornKeys  == {"bot_token", "wifi_ssid", "wifi_pass", "guild_id", "cmds_reg",
              None}

(* TypeOK with its records as records.                                      *)
Shape ==
    /\ flash \in Flash /\ web \in WebRecord /\ reg \in RegRecord
    /\ phase \in {"setup", "join", "portal", "normal"}
    /\ link \in {"no", "up", "off"}
    /\ server \in BOOLEAN /\ ready \in BOOLEAN
    /\ ident \in Tokens \cup {None}
    /\ registered \in SUBSET Registrations
    /\ torn \in TornKeys /\ overlap \in BOOLEAN /\ faulted \in BOOLEAN
    /\ misjudged \in BOOLEAN /\ retrying \in BOOLEAN
    /\ saves \in 0..MaxSaves /\ cuts \in 0..MaxCuts /\ faults \in 0..MaxFaults

(* What it rests on: a task that is not there has not polled, one that      *)
(* polls has a try left, and one that may put has found both ids.           *)
RegInv ==
    /\ phase # "normal" => reg = NoTask
    /\ reg.pc = "poll" => reg.tries < MAX_TRIES
    /\ reg.pc = "put" => reg.app # None /\ reg.guild # None

(* Where the save handler is: it saves what passed the test, from the first *)
(* key, and the network it has written so far is the form's; what passed    *)
(* can join, or the test was misjudged.                                     *)
SaveInv ==
    /\ web.pc \in {"idle", "test"} => web.key = 1
    /\ web.pc \in {"save", "restart"} => web.form.net \in Right \/ misjudged
    /\ web.pc = "save" /\ web.key > 2 => flash.wifi_ssid = web.form.net
    /\ web.pc = "save" /\ web.key > 3 => flash.wifi_pass = web.form.net

(* A network that cannot be joined is either about to get its password, or  *)
(* it was left by a reset or by a test that was misjudged, and then the save *)
(* is at its end or nobody reaches the web server again.                    *)
StrandedInv ==
    flash.wifi_ssid # None /\ ~CanJoin
       => \/ web.pc = "save" /\ web.key = 3
          \/ misjudged /\ web.pc \in {"save", "restart"}
          \/ /\ torn = "wifi_pass" \/ misjudged
             /\ web.pc = "idle" /\ phase # "setup" /\ link # "up"

(* Nothing stands between the flag and the configuration it is about: no    *)
(* save is half done, was cut short or met a registration.                  *)
Whole == torn = None /\ ~overlap /\ (web.pc = "save" => web.key = 1)

FlagInv ==
    Whole =>
       /\ flash.cmds_reg => <<flash.bot_token, flash.guild_id>> \in registered
       /\ reg.pc \in {"put", "flag"} => reg.guild = flash.guild_id
       /\ reg.pc = "flag" =>
             <<flash.bot_token, flash.guild_id>> \in registered

-----------------------------------------------------------------------------
(* The keys a save writes. *)
LEMMA Keys ==
    /\ Len(SaveOrder) = 5
    /\ SaveOrder[1] = "bot_token" /\ SaveOrder[2] = "wifi_ssid"
    /\ SaveOrder[3] = "wifi_pass" /\ SaveOrder[4] = "guild_id"
    /\ SaveOrder[5] = "cmds_reg"
    /\ {SaveOrder[k] : k \in DOMAIN SaveOrder} \cup {None} = TornKeys
BY DEF SaveOrder, TornKeys

LEMMA ShapeTypes == Shape => TypeOK
BY Keys DEF Shape, TypeOK, WebRecord, RegRecord, RegPcs, Registrations

LEMMA Restarted == IdleWeb \in WebRecord /\ NoTask \in RegRecord
BY SetupAssumption DEF IdleWeb, WebRecord, NoTask, RegRecord, RegPcs

LEMMA TypeInit == Init => Shape /\ RegInv
<1>. SUFFICES ASSUME Init PROVE Shape /\ RegInv
  OBVIOUS
<1>1. flash \in Flash
  BY DEF Init, Flash
<1>2. saves \in 0..MaxSaves /\ cuts \in 0..MaxCuts /\ faults \in 0..MaxFaults
  BY SetupAssumption DEF Init
<1>3. torn \in TornKeys
  BY DEF Init, TornKeys
<1>. QED
  BY <1>1, <1>2, <1>3, Restarted DEF Init, Shape, RegInv, NoTask

(* The outcome of a key: its field of flash, and nothing else. *)
LEMMA WriteKeyFlash ==
    ASSUME Shape, WriteKey
    PROVE  /\ flash' \in Flash
           /\ web.key = 1 =>
                 flash' = [flash EXCEPT !.bot_token = Clean(web.form.bot_token)]
           /\ web.key = 2 => flash' = [flash EXCEPT !.wifi_ssid = web.form.net]
           /\ web.key = 3 => flash' = [flash EXCEPT !.wifi_pass = web.form.net]
           /\ web.key = 4 =>
                 flash' = [flash EXCEPT !.guild_id = web.form.guild_id]
           /\ web.key = 5 => flash' = [flash EXCEPT !.cmds_reg = FALSE]
<1>1. web.key \in 1..5 /\ flash \in Flash
  BY DEF Shape, WebRecord
<1>2. /\ web.form.net \in Nets \cup {None}
      /\ web.form.guild_id \in Guilds \cup {None}
      /\ Clean(web.form.bot_token) \in Tokens \cup {None}
  BY DEF Shape, WebRecord, Forms, NoForm, Clean
<1>w. ASSUME NEW k, SaveOrder[web.key] = k
      PROVE  flash' = [flash EXCEPT ![k] = ValueOf(k)]
  BY <1>w, Zenon DEF WriteKey
<1>v. /\ ValueOf("bot_token") = Clean(web.form.bot_token)
      /\ ValueOf("wifi_ssid") = web.form.net
      /\ ValueOf("wifi_pass") = web.form.net
      /\ ValueOf("guild_id") = web.form.guild_id
      /\ ValueOf("cmds_reg") = FALSE
  BY DEF ValueOf
<1>3. CASE web.key = 1
  <2>0. SaveOrder[web.key] = "bot_token"
    BY <1>3, Keys
  <2>1. flash' = [flash EXCEPT !.bot_token = Clean(web.form.bot_token)]
    BY <2>0, <1>w, <1>v, Zenon
  <2>2. flash' \in Flash
    BY <1>1, <1>2, <2>1 DEF Flash
  <2>. QED BY <1>3, <2>1, <2>2
<1>4. CASE web.key = 2
  <2>0. SaveOrder[web.key] = "wifi_ssid"
    BY <1>4, Keys
  <2>1. flash' = [flash EXCEPT !.wifi_ssid = web.form.net]
    BY <2>0, <1>w, <1>v, Zenon
  <2>2. flash' \in Flash
    BY <1>1, <1>2, <2>1 DEF Flash
  <2>. QED BY <1>4, <2>1, <2>2
<1>5. CASE web.key = 3
  <2>0. SaveOrder[web.key] = "wifi_pass"
    BY <1>5, Keys
  <2>1. flash' = [flash EXCEPT !.wifi_pass = web.form.net]
    BY <2>0, <1>w, <1>v, Zenon
  <2>2. flash' \in Flash
    BY <1>1, <1>2, <2>1 DEF Flash
  <2>. QED BY <1>5, <2>1, <2>2
<1>6. CASE web.key = 4
  <2>0. SaveOrder[web.key] = "guild_id"
    BY <1>6, Keys
  <2>1. flash' = [flash EXCEPT !.guild_id = web.form.guild_id]
    BY <2>0, <1>w, <1>v, Zenon
  <2>2. flash' \in Flash
    BY <1>1, <1>2, <2>1 DEF Flash
  <2>. QED BY <1>6, <2>1, <2>2
<1>7. CASE web.key = 5
  <2>0. SaveOrder[web.key] = "cmds_reg"
    BY <1>7, Keys
  <2>1. flash' = [flash EXCEPT !.cmds_reg = FALSE]
    BY <2>0, <1>w, <1>v, Zenon
  <2>2. flash' \in Flash
    BY <1>1, <1>2, <2>1 DEF Flash
  <2>. QED BY <1>7, <2>1, <2>2
<1>. QED BY <1>1, <1>3, <1>4, <1>5, <1>6, <1>7 DEF Flash

LEMMA PollTypes ==
    ASSUME reg \in RegRecord, reg.pc = "poll" => reg.tries < MAX_TRIES,
           Poll, ~ready
    PROVE  /\ reg' \in RegRecord /\ reg'.pc # "put"
           /\ reg'.pc = "poll" => reg'.tries < MAX_TRIES
<1>. DEFINE next(p) == [reg EXCEPT !.tries = @ + 1, !.pc = p]
<1>1. /\ reg.tries \in Nat /\ MAX_TRIES \in Nat /\ reg.tries < MAX_TRIES
      /\ reg.tries + 1 \in 0..MAX_TRIES
  BY SetupAssumption DEF RegRecord, Poll
<1>2. ASSUME NEW p \in RegPcs
      PROVE  /\ next(p) \in RegRecord /\ next(p).pc = p
             /\ next(p).tries = reg.tries + 1
  <2>1. ASSUME NEW n \in 0..MAX_TRIES, n = reg.tries + 1
        PROVE  /\ [reg EXCEPT !.tries = n, !.pc = p] \in RegRecord
               /\ [reg EXCEPT !.tries = n, !.pc = p].pc = p
               /\ [reg EXCEPT !.tries = n, !.pc = p].tries = n
    BY DEF RegRecord
  <2>. QED BY <1>1, <2>1, Zenon
<1>3. reg' = next(IF LastTry THEN "gone" ELSE "poll")
  BY Zenon DEF Poll
<1>4. {"gone", "poll"} \subseteq RegPcs
  BY DEF RegPcs
<1>. HIDE DEF next
<1>5. CASE LastTry
  <2>1. reg' = next("gone")
    BY <1>3, <1>5
  <2>. QED BY <1>2, <1>4, <2>1
<1>6. CASE ~LastTry
  <2>1. reg' = next("poll")
    BY <1>3, <1>6
  <2>2. reg.tries + 1 # MAX_TRIES
    BY <1>6 DEF LastTry
  <2>. QED BY <1>1, <1>2, <1>4, <2>1, <2>2
<1>. QED BY <1>5, <1>6

LEMMA TypeStep == Shape /\ RegInv /\ [Next]_vars => Shape' /\ RegInv'
<1>. SUFFICES ASSUME Shape, RegInv, [Next]_vars PROVE Shape' /\ RegInv'
  OBVIOUS
<1>. USE DEF Shape, RegInv, history, bounds
<1>r. ASSUME PowerOn, UNCHANGED <<flash, registered>>,
             torn' \in TornKeys,
             overlap' \in BOOLEAN, faulted' \in BOOLEAN,
             misjudged' \in BOOLEAN,
             saves' \in 0..MaxSaves, cuts' \in 0..MaxCuts,
             faults' \in 0..MaxFaults
      PROVE  Shape' /\ RegInv'
  BY <1>r, Restarted, Keys
  DEF PowerOn, WebRecord, RegRecord, RegPcs, NoTask
<1>f. ASSUME Fault \/ NoFault
      PROVE  faults' \in 0..MaxFaults /\ faulted' \in BOOLEAN
  <2>1. CASE Fault BY <2>1, SetupAssumption DEF Fault
  <2>2. CASE NoFault BY <2>2 DEF NoFault
  <2>. QED BY <1>f, <2>1, <2>2
<1>1. CASE PowerCut
  BY <1>1, <1>r, Keys, SetupAssumption DEF PowerCut, WebRecord
<1>2. CASE Join BY <1>2 DEF Join
<1>3. CASE WaitOver
  <2>1. reg' \in RegRecord /\ (reg'.pc = "poll" => reg'.tries < MAX_TRIES)
    BY <1>3, SetupAssumption DEF WaitOver, NoTask, RegRecord, RegPcs
  <2>2. faults' \in 0..MaxFaults /\ faulted' \in BOOLEAN
    BY <1>3, <1>f DEF WaitOver
  <2>3. /\ phase' \in {"portal", "normal"} /\ server' \in BOOLEAN
        /\ phase' # "normal" => reg' = reg
    BY <1>3 DEF WaitOver
  <2>4. reg = NoTask /\ (reg' = reg \/ reg'.pc = "poll")
    BY <1>3 DEF WaitOver, RegRecord
  <2>. QED BY <1>3, <2>1, <2>2, <2>3, <2>4 DEF WaitOver
<1>4. CASE Toggle BY <1>4 DEF Toggle
<1>5. CASE Identify
  <2>1. ident' \in Tokens \cup {None}
    BY <1>5 DEF Identify, Flash
  <2>. QED BY <1>5, <2>1 DEF Identify
<1>6. CASE Ready
  <2>1. flash' \in Flash BY <1>6 DEF Ready, StoreAppId, Flash
  <2>. QED BY <1>6, <2>1 DEF Ready
<1>7. ASSUME NEW pass \in BOOLEAN, TestEnds(pass) PROVE Shape' /\ RegInv'
  <2>1. web' \in WebRecord
    BY <1>7, Restarted DEF TestEnds, Verdict, WebRecord
  <2>2. Fault \/ NoFault
    BY <1>7 DEF TestEnds
  <2>3. /\ link' \in {"no", "up", "off"}
        /\ misjudged' \in BOOLEAN /\ retrying' \in BOOLEAN
    <3>1. CASE pass BY <1>7, <3>1 DEF TestEnds
    <3>2. CASE ~pass BY <1>7, <3>2 DEF TestEnds
    <3>. QED BY <3>1, <3>2
  <2>. QED BY <1>7, <2>1, <2>2, <2>3, <1>f, Keys DEF TestEnds, WebRecord
<1>8. CASE WriteKey
  <2>1. flash' \in Flash
    BY <1>8, WriteKeyFlash
  <2>2. web' \in WebRecord
    BY <1>8, Keys DEF WriteKey, WebRecord
  <2>3. /\ torn' \in TornKeys
        /\ overlap' \in BOOLEAN /\ faulted' \in BOOLEAN
        /\ UNCHANGED misjudged
    <3>1. CASE web.key < Len(SaveOrder)
      BY <1>8, <3>1, Keys DEF WriteKey
    <3>2. CASE ~(web.key < Len(SaveOrder))
      <4>1. /\ torn' = None /\ faulted' = FALSE /\ overlap' = Registering
            /\ UNCHANGED misjudged
        BY <1>8, <3>2 DEF WriteKey
      <4>2. Registering \in BOOLEAN
        BY DEF Registering
      <4>. QED BY <4>1, <4>2 DEF TornKeys
    <3>. QED BY <3>1, <3>2
  <2>. QED BY <1>8, <2>1, <2>2, <2>3, Keys DEF WriteKey, WebRecord
<1>9. CASE Restart BY <1>9, <1>r DEF Restart
<1>t. ASSUME reg' \in RegRecord, reg'.pc = "poll" => reg'.tries < MAX_TRIES,
             reg'.pc = "put" => reg'.app # None /\ reg'.guild # None,
             reg.pc # "none",
             faults' \in 0..MaxFaults, faulted' \in BOOLEAN,
             flash' \in Flash, registered' \in SUBSET Registrations,
             UNCHANGED <<phase, link, server, retrying, web, ident, ready,
                         torn, overlap, misjudged, saves, cuts>>
      PROVE  Shape' /\ RegInv'
  BY <1>t DEF RegRecord, RegPcs, NoTask
<1>10. CASE Poll
  <2>1. CASE ready
    <3>1. reg' \in RegRecord /\ reg'.pc \notin {"poll", "put"}
      BY <1>10, <2>1 DEF Poll, RegRecord, RegPcs
    <3>. QED BY <1>10, <2>1, <3>1, <1>t DEF Poll, NoFault
  <2>2. CASE ~ready
    <3>1. /\ reg' \in RegRecord /\ reg'.pc # "put"
          /\ reg'.pc = "poll" => reg'.tries < MAX_TRIES
      BY <1>10, <2>2, PollTypes
    <3>. QED BY <1>10, <2>2, <3>1, <1>t DEF Poll, LastTry
  <2>. QED BY <2>1, <2>2
<1>11. CASE CheckFlag
  <2>1. reg' \in RegRecord /\ reg'.pc \notin {"poll", "put"}
    BY <1>11 DEF CheckFlag, RegStep, At, RegRecord, RegPcs
  <2>. QED BY <1>11, <2>1, <1>t DEF CheckFlag, RegStep, NoFault
<1>12. CASE ReadAppId
  <2>1. reg' \in RegRecord /\ reg'.pc \notin {"poll", "put"}
    BY <1>12 DEF ReadAppId, RegStep, At, RegRecord, RegPcs, Flash
  <2>. QED BY <1>12, <2>1, <1>t DEF ReadAppId, RegStep, NoFault
<1>13. CASE ReadGuild
  <2>1. /\ reg' \in RegRecord /\ reg'.pc # "poll"
        /\ reg'.pc = "put" => reg'.app # None /\ reg'.guild # None
    BY <1>13 DEF ReadGuild, RegStep, At, RegRecord, RegPcs, Flash
  <2>. QED BY <1>13, <2>1, <1>t DEF ReadGuild, RegStep, NoFault
<1>14. CASE SetFlag
  <2>1. flash' \in Flash BY <1>14 DEF SetFlag, Flash
  <2>2. reg' \in RegRecord /\ reg'.pc \notin {"poll", "put"}
    BY <1>14 DEF SetFlag, RegStep, At, RegRecord, RegPcs
  <2>. QED BY <1>14, <2>1, <2>2, <1>t DEF SetFlag, RegStep, NoFault
<1>15. ASSUME NEW ok \in BOOLEAN, Put(ok) PROVE Shape' /\ RegInv'
  <2>1. reg' \in RegRecord /\ reg'.pc \notin {"poll", "put"}
    BY <1>15 DEF Put, RegStep, AfterPut, At, RegRecord, RegPcs
  <2>2. <<reg.app, reg.guild>> \in Registrations
    BY <1>15 DEF Put, RegStep, RegRecord, Registrations
  <2>3. registered' \in SUBSET Registrations
    BY <1>15, <2>2 DEF Put
  <2>4. faults' \in 0..MaxFaults /\ faulted' \in BOOLEAN
    BY <1>15, <1>f DEF Put
  <2>. QED BY <1>15, <2>1, <2>3, <2>4, <1>t DEF Put, RegStep
<1>16. ASSUME NEW f \in Forms, PostSave(f) PROVE Shape' /\ RegInv'
  <2>1. web' \in WebRecord
    BY <1>16 DEF PostSave, WebRecord
  <2>. QED BY <1>16, <2>1, Keys, SetupAssumption DEF PostSave, WebRecord
<1>17. CASE UNCHANGED vars BY <1>17 DEF vars
<1>18. CASE SecondStation BY <1>18, <1>r DEF SecondStation
<1>. QED
  BY <1>1, <1>2, <1>3, <1>4, <1>5, <1>6, <1>7, <1>8, <1>9, <1>10, <1>11,
     <1>12, <1>13, <1>14, <1>15, <1>16, <1>17, <1>18
  DEF Next, MainTask, WebTask, SlashTask

(* Every variable keeps its type, whatever the bounds, the networks and the *)
(* number of polls (all of app_main, the save handler, parse_ready and      *)
(* slash_register_task).                                                    *)
THEOREM TypeCorrect == Spec => []TypeOK
BY TypeInit, TypeStep, ShapeTypes, PTL DEF Spec

-----------------------------------------------------------------------------
LEMMA SaveInit == Init => SaveInv /\ StrandedInv /\ FlagInv
BY DEF Init, SaveInv, StrandedInv, FlagInv, IdleWeb, NoTask

LEMMA SaveStep ==
    Shape /\ SaveInv /\ [Next]_vars => SaveInv'
<1>. SUFFICES ASSUME Shape, SaveInv, [Next]_vars PROVE SaveInv'
  OBVIOUS
<1>. USE DEF SaveInv, history, bounds
<1>k. web \in WebRecord /\ flash \in Flash
  BY DEF Shape
<1>r. ASSUME web' = IdleWeb PROVE SaveInv'
  BY <1>r DEF IdleWeb
<1>s. ASSUME UNCHANGED <<web, misjudged>>, flash'.wifi_ssid = flash.wifi_ssid,
             flash'.wifi_pass = flash.wifi_pass
      PROVE  SaveInv'
  BY <1>s
<1>1. CASE PowerCut BY <1>1, <1>r DEF PowerCut, PowerOn
<1>2. CASE Join \/ WaitOver \/ Toggle \/ Identify
  BY <1>2, <1>s DEF Join, WaitOver, Toggle, Identify
<1>3. CASE Ready BY <1>3, <1>k, <1>s DEF Ready, StoreAppId, Flash
<1>4. ASSUME NEW pass \in BOOLEAN, TestEnds(pass) PROVE SaveInv'
  <2>1. CASE pass
    <3>1. web.pc = "test" /\ web' = [web EXCEPT !.pc = "save"]
      BY <1>4, <2>1 DEF TestEnds, Verdict
    <3>2. web'.pc = "save" /\ web'.form = web.form /\ web'.key = 1
      BY <3>1, <1>k DEF WebRecord
    <3>3. misjudged' <=> web'.form.net \notin Right
      BY <1>4, <2>1, <3>2 DEF TestEnds
    <3>. QED BY <3>2, <3>3
  <2>2. CASE ~pass
    BY <1>4, <2>2, <1>r DEF TestEnds, Verdict
  <2>. QED BY <2>1, <2>2
<1>5. CASE WriteKey
  <2>1. /\ web.pc = "save" /\ (web.form.net \in Right \/ misjudged)
        /\ web.key \in 1..5 /\ UNCHANGED misjudged
    BY <1>5, <1>k DEF WriteKey, WebRecord
  <2>2. CASE web.key = 5
    BY <1>5, <2>1, <2>2, <1>k, Keys DEF WriteKey, WebRecord
  <2>3. CASE web.key < 5
    <3>1. web' = [web EXCEPT !.key = @ + 1]
      BY <1>5, <2>3, Keys DEF WriteKey
    <3>2. /\ web'.pc = "save" /\ web'.form = web.form
          /\ web'.key = web.key + 1
      BY <3>1, <2>1, <1>k DEF WebRecord
    <3>3. web.key = 1 \/ web.key = 2 \/ web.key = 3 \/ web.key = 4
      BY <2>1, <2>3
    <3>4. web.key = 2 => flash'.wifi_ssid = web.form.net
      BY <1>5, <1>k, WriteKeyFlash DEF Flash
    <3>5. web.key = 3 => flash'.wifi_ssid = web.form.net
                           /\ flash'.wifi_pass = web.form.net
      BY <1>5, <2>1, <1>k, WriteKeyFlash DEF Flash
    <3>6. web.key = 4 => flash'.wifi_ssid = web.form.net
                           /\ flash'.wifi_pass = web.form.net
      BY <1>5, <2>1, <1>k, WriteKeyFlash DEF Flash
    <3>. QED BY <2>1, <3>2, <3>3, <3>4, <3>5, <3>6
  <2>. QED BY <2>1, <2>2, <2>3
<1>6. CASE Restart BY <1>6, <1>r DEF Restart, PowerOn
<1>7. CASE Poll BY <1>7, <1>s DEF Poll
<1>8. CASE CheckFlag \/ ReadAppId \/ ReadGuild
  BY <1>8, <1>s DEF CheckFlag, ReadAppId, ReadGuild, RegStep
<1>9. ASSUME NEW ok \in BOOLEAN, Put(ok) PROVE SaveInv'
  BY <1>9, <1>s DEF Put, RegStep
<1>10. CASE SetFlag BY <1>10, <1>k, <1>s DEF SetFlag, RegStep, Flash
<1>11. ASSUME NEW f \in Forms, PostSave(f) PROVE SaveInv'
  BY <1>11, <1>k DEF PostSave, WebRecord
<1>12. CASE UNCHANGED vars BY <1>12, <1>s DEF vars
<1>13. CASE SecondStation BY <1>13, <1>r DEF SecondStation, PowerOn
<1>. QED
  BY <1>1, <1>2, <1>3, <1>4, <1>5, <1>6, <1>7, <1>8, <1>9, <1>10, <1>11,
     <1>12, <1>13
  DEF Next, MainTask, WebTask, SlashTask

LEMMA StrandedStep ==
    Shape /\ SaveInv /\ StrandedInv /\ [Next]_vars => StrandedInv'
<1>. SUFFICES ASSUME Shape, SaveInv, StrandedInv, [Next]_vars
              PROVE  StrandedInv'
  OBVIOUS
<1>. USE DEF history, bounds
<1>k. web \in WebRecord /\ flash \in Flash
  BY DEF Shape
<1>s. ASSUME UNCHANGED <<torn, web, misjudged>>, flash'.wifi_ssid = flash.wifi_ssid,
             flash'.wifi_pass = flash.wifi_pass,
             phase # "setup" => phase' # "setup",
             link # "up" => link' # "up"
      PROVE  StrandedInv'
  BY <1>s DEF StrandedInv, CanJoin
<1>1. CASE PowerCut
  <2>1. UNCHANGED flash /\ web' = IdleWeb /\ link' = "no"
        /\ phase' = IF flash.wifi_ssid = None THEN "setup" ELSE "join"
    BY <1>1 DEF PowerCut, PowerOn
  <2>2. CASE web.pc = "save" /\ web.key = 3
    BY <1>1, <2>1, <2>2, Keys DEF PowerCut, StrandedInv, CanJoin, IdleWeb
  <2>3. CASE ~(web.pc = "save" /\ web.key = 3)
    BY <1>1, <2>1, <2>3 DEF PowerCut, StrandedInv, CanJoin, IdleWeb
  <2>. QED BY <2>2, <2>3
<1>2. CASE Join BY <1>2 DEF Join, StrandedInv, CanJoin
<1>3. CASE WaitOver BY <1>3, <1>s DEF WaitOver
<1>4. CASE Toggle \/ Identify BY <1>4, <1>s DEF Toggle, Identify
<1>5. CASE Ready BY <1>5, <1>k, <1>s DEF Ready, StoreAppId, Flash
<1>6. ASSUME NEW pass \in BOOLEAN, TestEnds(pass) PROVE StrandedInv'
  BY <1>6 DEF TestEnds, StrandedInv, CanJoin
<1>7. CASE WriteKey
  <2>1. /\ web.pc = "save" /\ (web.form.net \in Right \/ misjudged)
        /\ web.key \in 1..5 /\ UNCHANGED misjudged
    BY <1>7, <1>k DEF WriteKey, WebRecord, SaveInv
  <2>2. CASE web.key = 1
    <3>1. web' = [web EXCEPT !.key = @ + 1]
      BY <1>7, <2>2, Keys DEF WriteKey
    <3>2. web'.pc = "save" /\ torn' = torn
      BY <1>7, <2>1, <2>2, <3>1, <1>k, Keys DEF WriteKey, WebRecord
    <3>3. /\ flash'.wifi_ssid = flash.wifi_ssid
          /\ flash'.wifi_pass = flash.wifi_pass
      BY <1>7, <2>2, <1>k, WriteKeyFlash DEF Flash
    <3>. QED BY <2>1, <2>2, <3>2, <3>3 DEF StrandedInv, CanJoin
  <2>3. CASE web.key = 2
    <3>1. web' = [web EXCEPT !.key = @ + 1]
      BY <1>7, <2>3, Keys DEF WriteKey
    <3>2. web'.pc = "save" /\ web'.key = 3
      BY <3>1, <2>1, <2>3, <1>k DEF WebRecord
    <3>. QED BY <3>2 DEF StrandedInv
  <2>4. CASE web.key > 2
    <3>1. /\ flash'.wifi_ssid = web.form.net
          /\ flash'.wifi_pass = web.form.net
      <4>1. web.key = 3 \/ web.key = 4 \/ web.key = 5
        BY <2>1, <2>4
      <4>2. flash.wifi_ssid = web.form.net
            /\ (web.key > 3 => flash.wifi_pass = web.form.net)
        BY <2>1, <2>4 DEF SaveInv
      <4>. QED BY <1>7, <1>k, <4>1, <4>2, WriteKeyFlash DEF Flash
    <3>2. web'.pc \in {"save", "restart"}
      BY <1>7, <2>1, <1>k DEF WriteKey, WebRecord
    <3>. QED BY <2>1, <3>1, <3>2 DEF StrandedInv, CanJoin
  <2>. QED BY <2>1, <2>2, <2>3, <2>4
<1>8. CASE Restart
  BY <1>8 DEF Restart, PowerOn, IdleWeb, StrandedInv, CanJoin
<1>9. CASE Poll BY <1>9, <1>s DEF Poll
<1>10. CASE CheckFlag \/ ReadAppId \/ ReadGuild
  BY <1>10, <1>s DEF CheckFlag, ReadAppId, ReadGuild, RegStep
<1>11. ASSUME NEW ok \in BOOLEAN, Put(ok) PROVE StrandedInv'
  BY <1>11, <1>s DEF Put, RegStep
<1>12. CASE SetFlag BY <1>12, <1>k, <1>s DEF SetFlag, RegStep, Flash
<1>13. ASSUME NEW f \in Forms, PostSave(f) PROVE StrandedInv'
  BY <1>13, <1>k DEF PostSave, WebRecord, StrandedInv, CanJoin
<1>14. CASE UNCHANGED vars BY <1>14, <1>s DEF vars
<1>15. CASE SecondStation
  BY <1>15 DEF SecondStation, PowerOn, StrandedInv, CanJoin
<1>. QED
  BY <1>1, <1>2, <1>3, <1>4, <1>5, <1>6, <1>7, <1>8, <1>9, <1>10, <1>11,
     <1>12, <1>13, <1>14, <1>15
  DEF Next, MainTask, WebTask, SlashTask

(* Flash never holds a network that cannot be joined, except between the    *)
(* name and the password, when a reset fell between them, or when the test  *)
(* passed on the address of an earlier one's retry: the handler saves what  *)
(* passed the test, and a device that is stranded takes no further form     *)
(* (handler_post_save, nvs_config_save_all).                                *)
THEOREM NotStranded == Spec => []NeverStranded
<1>1. Shape /\ StrandedInv => NeverStranded
  BY DEF StrandedInv, NeverStranded
<1>. QED
  BY TypeInit, SaveInit, TypeStep, SaveStep, StrandedStep, <1>1, PTL DEF Spec

LEMMA FlagStep ==
    Shape /\ SaveInv /\ RegInv /\ FlagInv /\ [Next]_vars => FlagInv'
<1>. SUFFICES ASSUME Shape, SaveInv, RegInv, FlagInv, [Next]_vars
              PROVE  FlagInv'
  OBVIOUS
<1>. USE DEF history, bounds
<1>k. web \in WebRecord /\ flash \in Flash /\ reg \in RegRecord
  BY DEF Shape
<1>s. ASSUME Whole' => Whole, flash'.bot_token = flash.bot_token,
             flash'.guild_id = flash.guild_id,
             flash'.cmds_reg = flash.cmds_reg,
             registered \subseteq registered',
             reg'.pc \notin {"put", "flag"} \/ reg' = reg
      PROVE  FlagInv'
  BY <1>s DEF FlagInv
<1>w. UNCHANGED <<torn, overlap, web>> => (Whole' => Whole)
  BY DEF Whole
<1>1. CASE PowerCut
  <2>1. Whole' => Whole
    <3>1. CASE web.pc = "save" /\ web.key > 1
      <4>1. web.key = 2 \/ web.key = 3 \/ web.key = 4 \/ web.key = 5
        BY <3>1, <1>k DEF WebRecord
      <4>2. torn' = SaveOrder[web.key]
        BY <1>1, <3>1 DEF PowerCut
      <4>3. torn' # None
        BY <4>1, <4>2, Keys DEF None
      <4>. QED BY <4>3 DEF Whole
    <3>2. CASE ~(web.pc = "save" /\ web.key > 1)
      <4>1. torn' = torn /\ overlap' = overlap
        BY <1>1, <3>2 DEF PowerCut
      <4>2. web.pc = "save" => web.key = 1
        BY <3>2, <1>k DEF WebRecord
      <4>. QED BY <4>1, <4>2 DEF Whole
    <3>. QED BY <3>1, <3>2
  <2>2. reg'.pc \notin {"put", "flag"}
    BY <1>1 DEF PowerCut, PowerOn, NoTask
  <2>. QED BY <1>1, <2>1, <2>2, <1>s DEF PowerCut
<1>2. CASE Join \/ Toggle \/ Identify
  BY <1>2, <1>s, <1>w DEF Join, Toggle, Identify
<1>3. CASE WaitOver
  <2>1. reg'.pc \notin {"put", "flag"} \/ reg' = reg
    BY <1>3, <1>k DEF WaitOver, RegRecord
  <2>. QED BY <1>3, <2>1, <1>s, <1>w DEF WaitOver
<1>4. CASE Ready BY <1>4, <1>k, <1>s, <1>w DEF Ready, StoreAppId, Flash
<1>5. ASSUME NEW pass \in BOOLEAN, TestEnds(pass) PROVE FlagInv'
  <2>1. Whole' => Whole
    BY <1>5 DEF TestEnds, Whole
  <2>. QED BY <1>5, <2>1, <1>s DEF TestEnds
<1>6. CASE WriteKey
  <2>1. web.key \in 1..5
    BY <1>k DEF WebRecord
  <2>2. CASE web.key < 5
    <3>1. web' = [web EXCEPT !.key = @ + 1] /\ web.pc = "save"
      BY <1>6, <2>2, Keys DEF WriteKey
    <3>2. web'.pc = "save" /\ web'.key # 1
      BY <2>1, <3>1, <1>k DEF WebRecord
    <3>. QED BY <3>2 DEF FlagInv, Whole
  <2>3. CASE web.key = 5
    <3>1. overlap' = Registering /\ reg' = reg
      BY <1>6, <2>3, Keys DEF WriteKey
    <3>2. ~flash'.cmds_reg
      BY <1>6, <2>3, <1>k, WriteKeyFlash DEF Flash
    <3>. QED BY <3>1, <3>2 DEF FlagInv, Whole, Registering
  <2>. QED BY <2>1, <2>2, <2>3
<1>7. CASE Restart
  <2>1. Whole' => Whole
    BY <1>7 DEF Restart, Whole
  <2>2. reg'.pc \notin {"put", "flag"}
    BY <1>7 DEF Restart, PowerOn, NoTask
  <2>. QED BY <1>7, <2>1, <2>2, <1>s DEF Restart
<1>8. CASE Poll
  <2>1. reg'.pc \notin {"put", "flag"}
    BY <1>8, <1>k DEF Poll, RegRecord
  <2>. QED BY <1>8, <2>1, <1>s, <1>w DEF Poll
<1>9. CASE CheckFlag \/ ReadAppId
  <2>1. reg'.pc \notin {"put", "flag"}
    BY <1>9, <1>k DEF CheckFlag, ReadAppId, RegStep, At, RegRecord
  <2>. QED BY <1>9, <2>1, <1>s, <1>w DEF CheckFlag, ReadAppId, RegStep
<1>10. CASE ReadGuild
  <2>1. reg'.pc # "flag" /\ reg'.guild = flash.guild_id
    BY <1>10, <1>k DEF ReadGuild, RegStep, At, RegRecord
  <2>. QED BY <1>10, <2>1, <1>w DEF ReadGuild, RegStep, FlagInv
<1>11. ASSUME NEW ok \in BOOLEAN, Put(ok) PROVE FlagInv'
  <2>1. /\ reg.pc = "put" /\ registered \subseteq registered'
        /\ UNCHANGED <<flash, web, torn, overlap>>
    BY <1>11 DEF Put, RegStep
  <2>2. CASE ok
    <3>1. reg.app = flash.bot_token /\ <<reg.app, reg.guild>> \in registered'
      BY <1>11, <2>2 DEF Put
    <3>2. reg' = [reg EXCEPT !.pc = "flag"]
      BY <1>11, <2>2 DEF Put, RegStep, AfterPut, At
    <3>3. reg'.guild = reg.guild
      BY <3>2, <1>k DEF RegRecord
    <3>. QED BY <1>w, <2>1, <3>1, <3>3 DEF FlagInv
  <2>3. CASE ~ok
    <3>1. reg'.pc \notin {"put", "flag"}
      BY <1>11, <2>3, <1>k DEF Put, RegStep, AfterPut, At, RegRecord
    <3>. QED BY <1>s, <1>w, <2>1, <3>1
  <2>. QED BY <2>2, <2>3
<1>12. CASE SetFlag
  <2>1. /\ flash'.bot_token = flash.bot_token
        /\ flash'.guild_id = flash.guild_id
    BY <1>12, <1>k DEF SetFlag, Flash
  <2>2. reg'.pc \notin {"put", "flag"} /\ reg.pc = "flag"
    BY <1>12, <1>k DEF SetFlag, RegStep, At, RegRecord
  <2>. QED BY <1>12, <2>1, <2>2, <1>w DEF SetFlag, RegStep, FlagInv
<1>13. ASSUME NEW f \in Forms, PostSave(f) PROVE FlagInv'
  <2>1. Whole' => Whole
    BY <1>13 DEF PostSave, Whole
  <2>. QED BY <1>13, <2>1, <1>s DEF PostSave
<1>14. CASE UNCHANGED vars BY <1>14, <1>s, <1>w DEF vars
<1>15. CASE SecondStation
  <2>1. Whole' => Whole
    BY <1>15 DEF SecondStation, Whole
  <2>2. reg'.pc \notin {"put", "flag"}
    BY <1>15 DEF SecondStation, PowerOn, NoTask
  <2>. QED BY <1>15, <2>1, <2>2, <1>s DEF SecondStation
<1>. QED
  BY <1>1, <1>2, <1>3, <1>4, <1>5, <1>6, <1>7, <1>8, <1>9, <1>10, <1>11,
     <1>12, <1>13, <1>14, <1>15
  DEF Next, MainTask, WebTask, SlashTask

(* cmds_reg is set only for a token and a guild whose registration Discord  *)
(* has taken, however saves, resets and failed calls interleave with        *)
(* slash_register_task: what was read before the PUT is what flash holds    *)
(* when the flag is set, unless a save finished in between or was cut short *)
(* (commands_register_slash, nvs_config_save_all).                          *)
THEOREM FlagIsTrue == Spec => []FlagMeansRegistered
<1>1. FlagInv => FlagMeansRegistered
  BY DEF FlagInv, Whole, FlagMeansRegistered
<1>. QED
  BY TypeInit, SaveInit, TypeStep, SaveStep, FlagStep, <1>1, PTL DEF Spec
=============================================================================
