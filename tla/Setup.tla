-------------------------------- MODULE Setup --------------------------------
(***************************************************************************)
(* The life of a configuration: app_main() chooses a mode from what is in  *)
(* flash, the web server's save handler writes ten keys one by one and     *)
(* restarts, READY stores the application id, and slash_register_task      *)
(* registers the commands once and sets cmds_reg.  The power may go at any *)
(* point.  The credential test is here by its outcome (module Wifi has its *)
(* inside); five keys that nothing below reads are left out.               *)
(***************************************************************************)
EXTENDS Integers, Sequences

CONSTANTS
    Tokens,      \* bot tokens, each of an application of its own
    Nets,        \* network name and password, as one value
    Right,       \* those that some access point accepts
    Guilds,      \* guild ids
    MAX_TRIES,   \* 30: polls of slash_register_task
    MaxSaves,    \* bound: forms submitted
    MaxCuts,     \* bound: resets by hand or by the power
    MaxFaults    \* bound: joins, tests and HTTP calls that fail without cause

ASSUME SetupAssumption ==
    /\ Right \subseteq Nets
    /\ {"none", "Bot"} \cap (Tokens \cup Nets \cup Guilds) = {}
    /\ MAX_TRIES \in Nat \ {0}
    /\ {MaxSaves, MaxCuts, MaxFaults} \subseteq Nat

VARIABLES
    flash,        \* the keys
    phase,        \* of app_main()
    link,         \* the station: not joined, up, or switched off
    server,       \* web_server.c: s_server # NULL
    retrying,     \* a test of credentials that are right has failed since
                  \* the boot: the retry of their join may still sleep
    web,          \* save handler: [pc, form, key], key the next one to write
    ident,        \* the token of the IDENTIFY that is under way
    ready,        \* gateway_state() = GW_STATE_READY
    reg,          \* slash_register_task: [pc, tries, app, guild]
    registered,   \* Discord: <<application, guild>> that have the commands
  \* history: the key a reset kept the last save from writing; whether the
  \* last save reset the flag under a registration; whether something failed
  \* since the last save; whether the last test that passed should have failed
    torn, overlap, faulted, misjudged,
    saves, cuts, faults

history == <<torn, overlap, faulted, misjudged>>
bounds  == <<saves, cuts, faults>>
vars == <<flash, phase, link, server, retrying, web, ident, ready, reg,
          registered, history, bounds>>

None   == "none"
Prefix == "Bot"     \* a token field that holds the prefix and no token

Forms == [bot_token : Tokens \cup {Prefix}, net : Nets,
          guild_id : Guilds \cup {None}]

NoForm == [bot_token |-> None, net |-> None, guild_id |-> None]

Flash == [bot_token : Tokens \cup {None}, wifi_ssid : Nets \cup {None},
          wifi_pass : Nets \cup {None}, guild_id : Guilds \cup {None},
          cmds_reg : BOOLEAN, app_id : Tokens \cup {None}]

SaveOrder == <<"bot_token", "wifi_ssid", "wifi_pass", "guild_id", "cmds_reg">>

TypeOK ==
    /\ flash \in Flash
    /\ phase \in {"setup", "join", "portal", "normal"}
    /\ link \in {"no", "up", "off"}
    /\ server \in BOOLEAN /\ ready \in BOOLEAN
    /\ web.pc \in {"idle", "test", "save", "restart"}
    /\ web.form \in Forms \cup {NoForm} /\ web.key \in 1..Len(SaveOrder)
    /\ ident \in Tokens \cup {None}
    /\ reg.pc \in {"none", "poll", "check", "app", "guild", "put", "flag",
                   "gone"}
    /\ reg.tries \in 0..MAX_TRIES
    /\ {reg.app, reg.guild} \subseteq Tokens \cup Guilds \cup {None}
    /\ registered \subseteq Tokens \X Guilds
    /\ torn \in {SaveOrder[k] : k \in DOMAIN SaveOrder} \cup {None}
    /\ {overlap, faulted, misjudged, retrying} \subseteq BOOLEAN
    /\ saves \in 0..MaxSaves /\ cuts \in 0..MaxCuts /\ faults \in 0..MaxFaults

IdleWeb == [pc |-> "idle", form |-> NoForm, key |-> 1]
NoTask  == [pc |-> "none", tries |-> 0, app |-> None, guild |-> None]

Init ==
    /\ flash = [bot_token |-> None, wifi_ssid |-> None, wifi_pass |-> None,
                guild_id |-> None, cmds_reg |-> FALSE, app_id |-> None]
    /\ phase = "setup" /\ link = "no" /\ server = TRUE /\ retrying = FALSE
    /\ web = IdleWeb
    /\ ident = None /\ ready = FALSE /\ reg = NoTask
    /\ registered = {}
    /\ torn = None /\ overlap = FALSE /\ faulted = FALSE /\ misjudged = FALSE
    /\ saves = 0 /\ cuts = 0 /\ faults = 0

Fault == faults < MaxFaults /\ faults' = faults + 1 /\ faulted' = TRUE
NoFault == UNCHANGED <<faults, faulted>>

CanJoin == flash.wifi_ssid = flash.wifi_pass /\ flash.wifi_ssid \in Right

-----------------------------------------------------------------------------
(* app_main(): a network name in flash decides between the modes of         *)
(* wifi_init(); what is in RAM is lost.                                     *)
PowerOn ==
    /\ phase' = IF flash.wifi_ssid = None THEN "setup" ELSE "join"
    /\ server' = (flash.wifi_ssid = None)
    /\ link' = "no" /\ retrying' = FALSE /\ web' = IdleWeb
    /\ ident' = None /\ ready' = FALSE /\ reg' = NoTask

PowerCut ==
    /\ cuts < MaxCuts /\ cuts' = cuts + 1
    /\ PowerOn
    /\ torn' = IF web.pc = "save" /\ web.key > 1 THEN SaveOrder[web.key]
               ELSE torn
    /\ faulted' = TRUE
    /\ UNCHANGED <<flash, registered, overlap, misjudged, saves, faults>>

(* The station gets its address. *)
Join ==
    /\ phase # "setup" /\ link = "no" /\ CanJoin
    /\ link' = "up"
    /\ UNCHANGED <<flash, phase, server, retrying, web, ident, ready, reg,
                   registered, history, bounds>>

(* The end of wifi_wait_connected(), joined or not, and the second check of *)
(* app_main(): without a token the web server, with one the bot's tasks.    *)
WaitOver ==
    /\ phase = "join"
    /\ IF link = "up" \/ ~CanJoin THEN NoFault ELSE Fault
    /\ IF flash.bot_token = None
       THEN phase' = "portal" /\ server' = TRUE /\ UNCHANGED reg
       ELSE phase' = "normal" /\ server' = FALSE
            /\ reg' = [reg EXCEPT !.pc = "poll"]
    /\ UNCHANGED <<flash, link, retrying, web, ident, ready, registered, torn,
                   overlap, misjudged, saves, cuts>>

(* hardware_task: web_server_start() and web_server_stop(); httpd_stop()    *)
(* waits for a handler that runs.                                           *)
Toggle ==
    /\ phase = "normal" /\ (server => web.pc = "idle")
    /\ server' = ~server
    /\ UNCHANGED <<flash, phase, link, retrying, web, ident, ready, reg,
                   registered, history, bounds>>

-----------------------------------------------------------------------------
(* handler_post_save(); forms without a network or a token only get an      *)
(* error page.                                                              *)
PostSave(f) ==
    /\ server /\ web.pc = "idle" /\ (phase = "setup" \/ link = "up")
    /\ saves < MaxSaves /\ saves' = saves + 1
    /\ web' = [web EXCEPT !.pc = "test", !.form = f]
    /\ UNCHANGED <<flash, phase, link, server, retrying, ident, ready, reg,
                   registered, history, cuts, faults>>

(* With a station from wifi_init() the test makes a second one, and with     *)
(* ESP-IDF's assertions on the device stops there and boots anew (module     *)
(* Wifi, SecondStation); without them the test goes on.                      *)
SecondStation ==
    /\ web.pc = "test" /\ phase # "setup"
    /\ PowerOn
    /\ faulted' = TRUE
    /\ UNCHANGED <<flash, registered, torn, overlap, misjudged, bounds>>

(* Mutant of Verdict: a failed test is not noticed. *)
VerdictIgnored(pass) == [web EXCEPT !.pc = "save"]

Verdict(pass) == IF pass THEN [web EXCEPT !.pc = "save"] ELSE IdleWeb

(* wifi_test_credentials(); a failed test leaves no station.  In setup mode *)
(* a test can pass on the address that a retry of an earlier one gets: what  *)
(* is saved is what it should have tested, whether or not that can join.    *)
TestEnds(pass) ==
    /\ web.pc = "test"
    /\ web' = Verdict(pass)
    /\ IF pass THEN /\ web.form.net \in Right \/ (phase = "setup" /\ retrying)
                    /\ misjudged' = (web.form.net \notin Right)
                    /\ NoFault /\ UNCHANGED <<link, retrying>>
       ELSE /\ IF web.form.net \in Right THEN Fault ELSE NoFault
            /\ link' = IF phase = "setup" THEN "no" ELSE "off"
            /\ retrying' = (retrying \/ web.form.net \in Right)
            /\ UNCHANGED misjudged
    /\ UNCHANGED <<flash, phase, server, ident, ready, reg, registered, torn,
                   overlap, saves, cuts>>

(* normalize_bot_token() *)
Clean(token) == IF token = Prefix THEN None ELSE token

ValueOf(key) == CASE key = "bot_token" -> Clean(web.form.bot_token)
                  [] key = "guild_id"  -> web.form.guild_id
                  [] key = "cmds_reg"  -> FALSE
                  [] OTHER             -> web.form.net

(* The flag was read as 0 and may be set after this. *)
Registering == reg.pc \in {"app", "guild", "put", "flag"}

(* nvs_config_save_all(): each nvs_set_...() is in flash when it returns.   *)
WriteKey ==
    /\ web.pc = "save"
    /\ flash' = [flash EXCEPT ![SaveOrder[web.key]] =
                     ValueOf(SaveOrder[web.key])]
    /\ IF web.key < Len(SaveOrder)
       THEN web' = [web EXCEPT !.key = @ + 1] /\ UNCHANGED history
       ELSE /\ web' = [web EXCEPT !.pc = "restart"]
            /\ torn' = None /\ overlap' = Registering /\ faulted' = FALSE
            /\ UNCHANGED misjudged
    /\ UNCHANGED <<phase, link, server, retrying, ident, ready, reg, registered,
                   bounds>>

Restart ==
    /\ web.pc = "restart"
    /\ PowerOn
    /\ UNCHANGED <<flash, registered, history, bounds>>

-----------------------------------------------------------------------------
(* The gateway: IDENTIFY with the token in flash, then READY. *)
Identify ==
    /\ phase = "normal" /\ link = "up" /\ flash.bot_token # None
    /\ ident' = flash.bot_token /\ ready' = FALSE
    /\ UNCHANGED <<flash, phase, link, server, retrying, web, reg, registered,
                   history, bounds>>

(* Mutant of StoreAppId: an id that is there is kept. *)
StoreAppIdOnce == flash' = [flash EXCEPT !.app_id = IF @ = None THEN ident
                                                    ELSE @]

StoreAppId == flash' = [flash EXCEPT !.app_id = ident]

(* parse_ready() *)
Ready ==
    /\ ident # None
    /\ StoreAppId
    /\ ready' = TRUE /\ ident' = None
    /\ UNCHANGED <<phase, link, server, retrying, web, reg, registered, history,
                   bounds>>

-----------------------------------------------------------------------------
(* slash_register_task *)

(* Mutant of LastTry: one too many. *)
LastTryLate == reg.tries = MAX_TRIES

LastTry == reg.tries + 1 = MAX_TRIES

Poll ==
    /\ reg.pc = "poll"
    /\ IF ready THEN reg' = [reg EXCEPT !.pc = "check"] /\ NoFault
       ELSE /\ reg' = [reg EXCEPT !.tries = @ + 1,
                                  !.pc = IF LastTry THEN "gone" ELSE "poll"]
            /\ faulted' = (faulted \/ LastTry) /\ UNCHANGED faults
    /\ UNCHANGED <<flash, phase, link, server, retrying, web, ident, ready,
                   registered, torn, overlap, misjudged, saves, cuts>>

(* commands_register_slash() *)
RegStep(from, next) ==
    /\ reg.pc = from /\ reg' = next
    /\ UNCHANGED <<phase, link, server, retrying, web, ident, ready, torn,
                   overlap, misjudged, saves, cuts>>

At(pc) == [reg EXCEPT !.pc = pc]

CheckFlag == /\ RegStep("check", At(IF flash.cmds_reg THEN "gone" ELSE "app"))
             /\ NoFault /\ UNCHANGED <<flash, registered>>

ReadAppId == /\ RegStep("app", [At("guild") EXCEPT !.app = flash.app_id])
             /\ NoFault /\ UNCHANGED <<flash, registered>>

ReadGuild ==
    /\ RegStep("guild", [At(IF None \in {reg.app, flash.guild_id}
                            THEN "gone" ELSE "put")
                         EXCEPT !.guild = flash.guild_id])
    /\ NoFault /\ UNCHANGED <<flash, registered>>

(* Mutant of AfterPut: the flag is set whatever came back. *)
AfterPutUnchecked(ok) == At("flag")

AfterPut(ok) == At(IF ok THEN "flag" ELSE "gone")

(* rest_put_sync() signs with the token in flash; Discord refuses another   *)
(* application's.  A call may fail before or after it took effect.          *)
Put(ok) ==
    /\ RegStep("put", AfterPut(ok))
    /\ LET taken == registered \cup {<<reg.app, reg.guild>>}
       IN IF reg.app = flash.bot_token
          THEN IF ok THEN registered' = taken /\ NoFault
               ELSE registered' \in {registered, taken} /\ Fault
          ELSE ~ok /\ UNCHANGED registered /\ NoFault
    /\ UNCHANGED flash

SetFlag ==
    /\ RegStep("flag", At("gone"))
    /\ flash' = [flash EXCEPT !.cmds_reg = TRUE]
    /\ NoFault /\ UNCHANGED registered

-----------------------------------------------------------------------------
MainTask  == WaitOver
WebTask   == (\E pass \in BOOLEAN : TestEnds(pass)) \/ SecondStation
                \/ WriteKey \/ Restart
SlashTask == Poll \/ CheckFlag \/ ReadAppId \/ ReadGuild \/ SetFlag
                \/ \E ok \in BOOLEAN : Put(ok)

Next == \/ PowerCut \/ Join \/ MainTask \/ Toggle \/ Identify \/ Ready
        \/ WebTask \/ SlashTask
        \/ \E f \in Forms : PostSave(f)

Spec == Init /\ [][Next]_vars

(* The tasks run, a network that accepts the device lets it join, and       *)
(* Discord answers an IDENTIFY; a poll comes a second after the last.       *)
LiveSpec == /\ Spec
            /\ WF_vars(Join) /\ WF_vars(MainTask) /\ WF_vars(WebTask)
            /\ WF_vars(SlashTask)
            /\ WF_vars(ident = None /\ ~ready /\ Identify) /\ WF_vars(Ready)

-----------------------------------------------------------------------------
(* Properties. *)

(* nvs_config.c:141, "force re-registration after config change": cmds_reg   *)
(* says that this token's application has its commands in this guild,       *)
(* whatever was saved before and however calls failed.  Two cases are       *)
(* excluded, and real: a reset that cut the save short, and a save that     *)
(* reset the flag under a registration, which then set it again.            *)
FlagMeansRegistered ==
    flash.cmds_reg /\ web.pc # "save" /\ torn = None /\ ~overlap
       => <<flash.bot_token, flash.guild_id>> \in registered

(* Flash never holds a network that cannot be joined, which would boot the  *)
(* device into a mode in which nobody can reach it, however saves, tests    *)
(* that fail and resets follow on one another (wifi_init,                   *)
(* handler_post_save, nvs_config_save_all).  Two cases are excluded, and     *)
(* real: a reset between the name and the password, and a test that passed  *)
(* on the address an earlier one's retry got.                               *)
NeverStranded ==
    flash.wifi_ssid # None /\ ~CanJoin
       => web.pc = "save" \/ torn = "wifi_pass" \/ misjudged

(* A saved configuration goes live: the commands of its application get     *)
(* registered in its guild, unless token or guild are missing, another save *)
(* or a failure (a reset, a call, a READY that is late) comes in between,   *)
(* the save met a registration, or its test was misjudged                   *)
(* (slash_register_task, parse_ready).                                      *)
Live == flash.cmds_reg /\ <<flash.bot_token, flash.guild_id>> \in registered

SavedGoesLive ==
    web.pc = "restart"
       ~> \/ Live \/ faulted \/ overlap \/ misjudged \/ web.pc \in {"test", "save"}
          \/ None \in {flash.bot_token, flash.guild_id}
=============================================================================
