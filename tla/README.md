# A verification project for esp32-discord-bot

TLA+ models of the firmware under `src/main`, the TLC runs that check them on
small instances, and TLAPS proofs of the main results for every value of the
constants. Line numbers refer to the sources as they stand in `src/`.

    tlc -config GatewaySafety.cfg Gateway.tla      # one run
    tlapm GatewayProofs.tla                        # the proofs of a component

## 1. The system

An ESP32 runs a Discord moderation bot under FreeRTOS. `main.c` starts six
tasks; two more threads of control belong to libraries: the WebSocket client's
task, which calls `ws_event_handler()`, and the esp_timer task, which calls
`hb_timer_cb()`. Almost nothing is locked: tasks meet in FreeRTOS queues, one
event group, one mutex, and a good deal of plain static state.

| Component | State it keeps | Operations | Talks to |
| --- | --- | --- | --- |
| gateway (`discord/gateway.c`) | struct `s` (client handle, session, sequence number, heartbeat flags and timer, state, event group), the task's URL, backoff and reconnect counter | the task's connect loop; CONNECTED, DATA, DISCONNECTED/ERROR events; HELLO, DISPATCH, HEARTBEAT, ACK, RECONNECT, INVALID_SESSION; the heartbeat callback | Discord, the WebSocket client, nvs_config (daily counter), rest (`/gateway/bot`), events |
| nvs_config (`config/nvs_config.c`) | NVS keys: settings, `cmds_reg`, `id_count`/`id_day` | getters, `save_all`, the identify counter | everyone |
| rest (`discord/rest.c`) | request queue (8), mutex of the synchronous calls, rate-limit reset time, kept-alive interaction client | enqueue wrappers, `rest_task`, `rest_get`, `rest_put_sync`, interaction ACK and warm-up | Discord; called by commands, filter, gateway |
| commands (`commands/dispatcher.c`, `discord/events.c`) | ACK queue (8, last in first out), command queue (8) | deliver, ACK task, commands task, slash registration | gateway (in), rest, warnings, nvs_config |
| warnings (`mod/warnings.c`) | table of 64 counters, their copies in flash | get, increment, clear | called by filter (WebSocket task) and commands (commands task) |
| filter (`mod/filter.c`) | keywords, thresholds, log channel | check a message, delete, warn, log, beep | rest, warnings, buzzer |
| wifi (`net/wifi.c`) | retries, event bits, `s_testing`, AP flag | station events, `wifi_wait_connected`, credential test | boot, web_server |
| web_server (`config/web_server.c`) | server handle, last request time | start, stop, save | wifi, nvs_config, hardware task |
| boot (`main.c`) | - | start order, config mode, SNTP, `slash_register_task` | all |
| buttons (`hardware/buttons.c`) | press time of each button, event queue (4) | interrupt handler, `buttons_get_event` | hardware task |
| display (`hardware/display.c`) | status texts, mute flag, time of the last toggle | `hardware_task`: draw, handle one button event a round | gateway, wifi, web_server, buzzer |
| buzzer (`hardware/buzzer.c`) | duty of one PWM channel | beeps, long tone | called by the hardware task and by filter (WebSocket task) |
| json_parse, jsmn (`discord/json_parse.c`, `components/jsmn`) | token array | tokenize; lookups in the tokens | gateway |
| ca_store (`net/ca_store.c`) | a certificate read at boot | load | rest, gateway |

### What is hard, and what each part must keep

- **gateway**: three threads share `s` with no lock. A reconnect runs while the
  heartbeat callback is between its test and its close; the old connection's
  flags meet the new connection; the client library reconnects on its own while
  the task sleeps; the bits that wake the task are cleared in two places.
  It must not sleep through a disconnect, must keep a READY session alive, must
  give up a dead one, must not give up a healthy one, must keep session and
  sequence number together and the daily IDENTIFY count within reason.
- **rest**: the retry of a 429, a full queue, callers of the synchronous path at
  the same time as the worker, a mutex that every path must give back. A
  request must not take effect twice, order must be kept, nobody may hang.
- **commands**: three queues and four tasks between an interaction and its
  reply, an ACK that Discord may take although the answer is lost, replays
  after a resume. A command must run once at most, and never without an ACK;
  the reply must not overtake the action; nothing may be stuck.
- **warnings**: a cache over flash with two unlocked callers, resets at any
  moment, a table that fills up and a one-byte count. The harm each of them does
  must stay with the users it is about.
- **wifi / web_server**: the event task sleeps before a retry, so events and
  retries of an earlier attempt meet a later one; a credential test shares its
  bits and counters with the normal connection. A test must be decided by its
  own attempt, and a station must not fall silent before its retries are used.
- **boot / nvs_config**: a save is ten writes with a power cut between any two;
  registration is tried once a boot and may meet a save. The flag `cmds_reg`
  must mean what it says, and a device must stay reachable.
- **filter**: it runs, beeps included, on the task that receives; its own log
  messages come back to it; the request queue it shares may be full.
- **gateway (in) / json_parse / jsmn**: messages come in frames, and frames in
  pieces, over connections that break; members are found by counting tokens. No
  frame may be mixed with another, no nested member taken for an outer one.
- **hardware**: bouncing contacts, an interrupt that reads the level late, one
  buzzer under two tasks, a web server whose stop waits for its client.

`PROJECT.json` lists the hazards one by one, at their lines.

## 2. The modules

| Module | Models | Kind |
| --- | --- | --- |
| `IdentifyCounter` | the daily counter of `nvs_config.c` | operators |
| `Gateway` | `discord/gateway.c` | state machine |
| `Frames` | the reassembly of frames in `discord/gateway.c` | state machine, part of `Inbound` |
| `Rest` | `discord/rest.c` | state machine |
| `Outbox` | what the request queue promises | abstract specification |
| `Commands`, `MCCommands` | `commands/dispatcher.c`, `discord/events.c` | state machine, TLC instance |
| `Warnings` | `mod/warnings.c` | state machine |
| `WarnCounts` | what the warning counters promise | abstract specification |
| `Wifi` | `net/wifi.c`, the credential test of `config/web_server.c` | state machine |
| `Setup` | `main.c`, `save_all`, the save handler, registration | state machine over resets |
| `Moderation`, `MCModeration` | `mod/filter.c`, composed with `Outbox` and `WarnCounts` | state machine, TLC instance |
| `JsonParse` | `components/jsmn`, `discord/json_parse.c` | functions |
| `Inbound`, `MCInbound` | payload parsers of `discord/gateway.c`, over `JsonParse` and `Frames` | state machine, TLC instance |
| `Buzzer` | `hardware/buzzer.c` | state machine, part of `Panel` |
| `Panel` | `hardware/buttons.c`, `hardware_task`, start and stop of the web server | state machine |
| `GatewayProofs` | - | theorems about `Gateway`, `Frames`, `JsonParse` and `Inbound` |
| `RestProofs`, `CommandsProofs`, `WarningsProofs`, `WifiProofs`, `SetupProofs`, `ModerationProofs` | - | theorems about the module of that name |
| `PanelProofs` | - | theorems about `Panel` and `Buzzer` |

How they fit together: `Gateway`, `Frames` and `Inbound` divide `gateway.c` between
the connection, the pieces of a frame and the content of a message. `Rest` implements `Outbox`, `Warnings`
implements `WarnCounts` (both checked as refinements), and `Moderation` is built
on those two promises instead of the code behind them. `Setup` takes the
credential test by its outcome, which `Wifi` has in detail; `Panel` takes the
save handler by the time it takes.

A definition whose comment begins with "Mutant" is no part of the model: it is
a plausible bug, and replacing the definition that follows it by that operator
makes the property named in `PROJECT.json` fail.

### Gateway

| In the model | In the code |
| --- | --- |
| `gwPc` | where `gateway_task` is: initial fetch, top of the loop, inside `connect_ws()` before and after the handle is cleared, waiting, sleeping, stopped |
| `url`, `backoff_ms`, `reconnect_count` | its locals; `url` is which of the two URLs `connect_url` holds |
| `ws` | the handle: NULL, a live client, a client that was destroyed |
| `link` | the client's connection; `silent` is a connection on which Discord answers nothing more and nothing says so; `closing` separates a close from its end, which is `retry` when the client reports it and `finished` when it does not |
| `srv`, `owed` | what Discord does next on this connection, and the heartbeats it has not acknowledged |
| `state`, `connected`, `resumable`, `session_id`, `seq`, `hb_ack_received`, `hb_sent`, `hb_timer`, `evg` | fields of `s`; ids and numbers are reduced to "present or not", `hb_sent` is `hb_sent_us # 0` |
| `hbPc` | the heartbeat callback between its test and its send or close |
| `wsPc` | the INVALID_SESSION handler inside its two-second delay |
| `budget`, `today` | the NVS keys `id_count` and `id_day`, and the day the code computes |
| `disruptions` | a bound: what the network and Discord did to the connection |

Every handler is one action, except where another thread can run in between and
the outcome depends on it. `DestroyClient` waits for the handler that runs
(`esp_websocket_client_destroy()` joins the client's task) and resets nothing in
`s`, exactly as the code.

External parts, modelled from their use: a close comes to an end, and does so in
one of two ways. `WsReports`: the client reports DISCONNECTED or ERROR, and after
`RETRY_MS` reconnects by itself, because `connect_ws()` leaves that default on.
`WsFinishes`: a close that went smoothly, by either side (`WsCloses` is
Discord's), ends with the client's events CLOSED and FINISH; the handler has no
case for them, and the client has ended. Times are kept only where they decide something: `RETRY_MS`
against the backoff, and `Timely`. A close by the heartbeat callback ends before
the gateway task's shortest backoff does (both are about a second, the backoff
starts later), and the handshake of a new connection takes longer than the
callback needs from its test to its close.

`Timely = TRUE` says one thing: the ACK of a heartbeat sent on a healthy link comes
before the timer fires again (about 41 s later; `AnswerDue`). The timer of an
earlier connection, which nothing stops, may fire at any time while a connection
is being made or has just been made. `Timely = FALSE` says nothing about time at
all.

### Rest

`job` is where each executor (the worker and the synchronous callers) stands in
`do_request()`: waiting for the mutex, at `rate_limit_wait()`, in its delay,
sending, handling the answer. Discord's bucket (`bucket_left`) and the code's
idea of it (`reset_left`) are separate, both in ticks that `Tick` counts down.
The request's number stands for path and body. A call may fail before or after
Discord acted; the code sees the same error. `Outbox` is the abstract
specification; `ImplementsOutbox` maps `serving` to the worker's request and
`applied` to the queued requests that took effect; the synchronous ones are
counted apart, in `synced`.
Not modelled: `rest_post_front` (no caller), response buffers, the header
`X-RateLimit-Remaining` other than 0.

### Commands

One action for each step of the ACK task and of the commands task; a command
is the list of requests it makes, in its order, because nothing looks at what
becomes of them. `rest_queue` is `rest.c` as `Outbox` describes it, with its
worker as one action. Discord accepts one ACK per interaction and only within
its window. `MaxDeliveries` above 1 is a replay of the interaction after a
RESUME. `lost` is a history variable: the interactions for which a call failed,
was refused, or found a queue full. Commands that differ in text only are one
(`ping` stands for status, uptime, warnings and clearwarn, whose effect on the
counters is `Warnings`' matter, and for a warn without a log channel); `other` is
what `commands_task` and `cmd_mod` have no branch for.

### Warnings

Statement by statement, with the caller's program counter, because nothing
locks the table; a scan of the table is one step. Between any two statements the
other caller may run, and `Reboot` may come, which does what `warnings_init()`
does: it empties the table and loads nothing. `Ids` are the low words of user
ids. Three histories are what the properties compare with and except. `given`
counts the warnings of a user since the last clear, from the moment they are in
flash. `spoiled` are the users whose count the code may have put wrong: by a
call of theirs that overlaps another, by a first warning or a clear after a reset
that lost their entry while flash had a count, by an eviction or by a wrap.
`passed` are the users for whom a scan passed over the entry that another call
was making for them: they may have two. Not modelled: a failure of `nvs_open`
or of a write, after which nothing is stored at all.

### Wifi

`evPc` is the event task inside or outside its `vTaskDelay`, `web` where the
save handler is inside `wifi_test_credentials()`; every driver call of the test
is a step of its own, because the sleeping retry can wake between two of them.
The ten settings of `save_all` are one value, the credentials. The driver is
external: events are handled one at a time in the order they were posted;
`esp_wifi_connect()` does nothing in mode AP, without a configuration or while
a link is there, except that a link that is up may also be given up for the
new one (both are allowed); `esp_wifi_set_config()` may be refused while the
driver joins. Timing enters twice. The user takes longer than the handling of
an event, but not longer than a retry that sleeps. A test's thirty seconds are
longer than such a retry, which has slept two seconds at most in setup mode,
since every test starts the count anew. `StationPortal` lets the save handler
be used in normal mode, where button B starts the server. A test there makes the
default station a second time (`wifi.c:143`); with ESP-IDF's assertions on, as
`src/sdkconfig` has them, the device stops at that and boots anew
(`SecondStation`), and a build without them goes on with the test (`PostSave`).
Both are in the model.

### Setup

`flash` is the NVS partition, less the five keys that no step reads;
`phase` is where `app_main()` is; `web.key` is the next key of `save_all` to
be written (each `nvs_set_...` is durable when it returns, and the commit at the
end changes nothing); `reg` is `slash_register_task` in
`commands_register_slash()`, between its reads of flash and its write of
`cmds_reg`. A token stands for its application as well, so `app_id` holds a
token. `Prefix` is a token field with the word Bot and nothing else, which
passes the handler's check and is normalised to nothing. `PowerCut` may come
between any two steps and keeps `flash` and what Discord has registered. A form
without network or token is answered with an error page and changes nothing.
A credential test is taken by its outcome: it can fail for no good reason, and
it can pass with wrong credentials once a test of right ones has failed, because
the retry of their join may still sleep (`retrying`; `wifi.c:150`). In normal mode
it restarts the device (`SecondStation`) or goes on, as in `Wifi`. `torn`,
`overlap`, `faulted` and `misjudged` are history variables for what the properties
except.

### Moderation

`ws` is the WebSocket task inside `filter_check_message()`, one action for each
call it makes, in its order, and `inbox` the messages that wait for it meanwhile.
`Out` and `Warn` are `INSTANCE`s of `Outbox` and `WarnCounts`, and every step on
the queue or the counters is one of theirs; the commands task uses both too. A
message is its author, its count of mentions, its text, and whether its document
fits the receive buffer and the token table: one that does not, as a dozen
mentions make it, is passed over whole. A text is a sequence of pieces (a word, a
link, a blank), of which `parse_message_create()` keeps the first `MSG_CONTENT`;
links are counted in what is kept. A keyword field of the settings is such a
sequence too, blanks on either side of the word included, and a keyword matches
where it is a part of the text. `s_keywords` has each field, without its leading
blanks, under its place in the list, the first `MAX_KEYWORDS` that are no empty
field. What the filter and `/mod warn` post to the log channel is delivered
back as a message of the bot, unless `MaxMessages` is reached.

### JsonParse, Frames and Inbound

Text is a sequence of lexemes with their widths, so that token starts and ends
are what they are in the code. `Parsed`, `JpFind` and `OptionPlaces` are the
code's loops as recursive functions over their round. `JsonParse` ends with the
reference for them: a reader that follows the grammar of JSON with a stack
(`Reads`, `Read`) and leaves the tree of the text, its nodes numbered in the order
of the text as tokens are.

A document of `Inbound` is a tree of values. How Discord writes it down is the
constant `Lexemes`, and `Nodes` lists its parts in the order of the text; the
assumption says what they have to do with each other and no more. `Written`: the
text is JSON, and its tree, read by the grammar, says of every part what the
part says (`SameNode`). `ShortLists`: no array has 256 items, since the code
keeps the number of mentions in a byte. TLC evaluates both on every document of
`MCInbound`, which writes them out and numbers their parts by recursion. `Inbound`
compares what is handed on with a lookup in the document itself (`Expected`), over
every order of the members of a MESSAGE_CREATE (with nested members of the same
names, and names as values) and of an interaction's `data`.

In `Frames` a message is one frame or several, with control frames in between,
and the client reports each frame in pieces. `recv_buf` holds, for every byte,
which byte of which frame it is: that is what decides whether a frame is whole.
The code takes text and continuation frames (`Accepted`) and starts its buffer
anew at the first piece of each, so what it processes are frames: a message of
one frame as a whole, a message of several in its parts, none of which is JSON.
Lengths are chosen apart from texts, and `Frames` has no texts at all; a step of
`Inbound` is one of `Frames` together with what `gateway_process_message()` does
when the step completes a frame. Left out: the string fields that are
copied as the ones modelled are (`channel_id`, `token`, `guild_id`, `reason`),
escapes inside strings, and malformed text, which Discord does not send; a
mixture of two frames, or a part of a message, counts as malformed.

### Buzzer and Panel

`pattern` is the driver calls a task has still to make; between two of them the
other task may make its own. In `Panel` a press or release moves the contact,
the contact may bounce until the next tick, every edge raises the interrupt, one
that is pending absorbs the next, and `Isr` reads the level when it runs.
`owed` counts, for each kind of event, the presses whose event has not reached
the queue; `lost` counts those of them that never will, because the ISR found the
queue full or read a release too late; an event that is dropped stays owed. `late`
says of a button that its interrupt waited for a tick or more; its accounts are
closed until it is up again.
`handling` is the web server's own task inside the save handler. Time stands
still only while a contact has not settled.

## 3. The runs

All runs switch deadlock checking off: the gateway task really ends
(`gwPc = "gone"`), and everything else stops when its bound is used up.

| Run | Shows | Bounds |
| --- | --- | --- |
| `GatewaySafety` | `TypeOK`, `ReadyHeartbeats`, `NoLostWakeup`, `SessionSeqAgree`, `OvershootPaid`, with no assumption on time | limit 1 so that it is met, 3 disruptions, 2 days, one request out of turn |
| `GatewayLive` | `HealthyNotCondemned`, `ZombieAbandoned`, `EventuallyReady` | `Timely`, 4 disruptions (a close by the timer of an earlier connection is one), a limit out of reach |
| `GatewayResume` | violated: `ResumesOnResumeUrl` | 1 disruption |
| `RestQueue` | `TypeOK`, `AtMostOnce`, `ImplementsOutbox`, `QueueDrains` with two synchronous callers | 3 requests, queue of 2, resets both shorter and longer than the wait that is skipped |
| `Commands` | `TypeOK`, `OncePerAck`, `ReplyFollowsAction`, `EveryoneAnswered` | a kick, a ban and an unknown command, each delivered twice, 2 failures, queues of 2, 1 and 2 so that each overflows; a warn, whose log entry follows its reply, is left to the theorems |
| `Warnings` | `TypeOK`, `OneEntryPerUser`, `TableIsDurable`, `CountsMatch`, `ImplementsCounts`, with two unlocked callers, evictions, a wrap and a reset at any statement | 3 users (one with a blank id), 2 slots, 4 calls, counts below 3, 1 reset |
| `WarnReset` | violated: `StartsFromFlash` | 2 users, one caller, 3 calls, 1 reset |
| `Wifi` | `TypeOK`, `ConnectedAgrees`, `KeepsTrying`, `SavedAfterAddress` in setup and in normal mode | right and wrong credentials, 2 retries, 3 tests, 3 failures of a link that should work, 1 reset |
| `Setup` | `TypeOK`, `FlagMeansRegistered`, `NeverStranded`, `SavedGoesLive` | 2 tokens, 2 guilds, a right and a wrong network, 2 saves, 2 power cuts, 1 failure, 2 polls |
| `Moderation` | `TypeOK`, `LogFollowsDelete`, `NeverModeratesItsLog`, `ViolationsAnswered` under five settings | 2 messages delivered, of 4 pieces at most when kept, one that does not fit among them, 1 command, 1 failed request, queue of 2, 3 keywords |
| `Inbound` | `InboundTypeOK`, `FramesWhole`, `FieldsExact` | 3 frames (messages, parts of messages, control frames), the document of the last any of 376, lengths on both sides of the buffer, pieces of 1 and 2, a table of 41 tokens, which some documents fill exactly and some exceed by one |
| `Panel` | `TypeOK`, `SilentAtRest`, `OneEventPerPress`, `EventsHandled` | 2 presses, one bouncing button, 1 violation, a queue of 1, debounce of 1 tick and long press of 2 |

Why the bounds are enough to be interesting: four disruptions let a drop, a
silence, a RECONNECT and an INVALID_SESSION follow each other in any order and
let the client's own reconnect (after `RETRY_MS` = 1500, less than the third
backoff) interleave with the task's; `REFRESH_EVERY` = 2 makes the counter wrap.
Queues of one and two overflow with three requests, and two slots of a table
behave as 64 do: an action touches one slot and scans the rest. Four calls of two
callers meet at every pair of statements, and one of them can come after the
reset, or after the wrap. In `Setup` the
second save meets whatever the first left, registered or torn. In `Moderation`
two messages are one and its log, or two that overlap; with the moderator's log
three requests meet a queue of two. (Three messages and no failure, 1.75 million
states, pass as well, but take too long for every run.) In `Inbound` the two
frames before the last leave a sequence number, a half-filled buffer or an old event behind. In
`Panel` two presses fill the queue and meet the lock-out.

### Fairness

`TimerFairness`: esp_timer runs a callback that is due and the callback's steps
end. `TaskFairness`: FreeRTOS runs the gateway task when it is ready, and a
delay ends. `LiveSpec` of `Gateway` adds that Discord answers on a healthy
connection, that the client opens connections and brings a close to its end: to a
report, or to the clean end that nobody hears of. Its keep-alive, which reports a silent connection in the end, is counted
on only before READY; a READY session that goes silent is left to the heartbeat
callback, so that `ZombieAbandoned` speaks of this code. Drops, silences, RECONNECTs
and INVALID_SESSIONs are never fair and are bounded: "once they stop". So is what
the timer of an earlier connection does to a new one. The
initial fetch may fail, and then nothing is promised: `EventuallyReady` starts
from the top of the loop. `LiveSpec` of `Rest`: the tasks run, time passes, and
every HTTP call ends, at its timeout of eight seconds at the latest. `LiveSpec`
of `Commands`: the three tasks run, their calls ending in success or failure.
`LiveSpec` of `Setup`: a network that accepts the device lets it join, the tasks
run and Discord answers an IDENTIFY; the user, power cuts and failures are not
fair. `LiveSpec` of `Moderation`: the WebSocket task, `rest_task` and a command
that has begun go on; delays, queue waits and HTTP calls are bounded by their
timeouts. `LiveSpec` of `Panel`: the hardware task runs and a handler that has
its body comes to its end; nothing makes a client send its body, because the
code repeats a read that timed out. `Inbound` states no liveness.

## 4. What is proved

Every safety property that a passing run checks is a theorem, proved by TLAPS
for every value of the constants: any number of callers, users, messages,
retries, resets and failures, every queue length, buffer size and table size,
any set of documents. The assumptions are the named ones of each module: limits and bounds are
natural numbers, those the code divides by, allocates or counts down are not 0,
and names that stand for "nothing" are not among the users, tokens or
interactions.

Each proof has the same shape: an inductive invariant, in named parts at the
head of the proof module, each with a comment; one lemma per action, or per part
of the invariant; and a last step by temporal logic. The parts were checked by
TLC on the run of the module before they were proved.

`GatewayProofs`:

| Theorem | Property | Argument |
| --- | --- | --- |
| `TypeCorrect` | `TypeOK` | inductive as it stands |
| `ReadyAlwaysHeartbeats` | `ReadyHeartbeats` | `PhaseInv`: until HELLO has been answered on a connection the state is not READY, and from then on a timer exists; READY is left whenever HELLO makes the timer anew |
| `SessionAlwaysHasSeq` | `SessionSeqAgree` | from the same `PhaseInv` |
| `NoWakeupIsLost` | `NoLostWakeup` | with the type invariant: only `WsDown` moves a waiting connection to `retry`, and only `WakeUp`, which leaves the wait, clears the bits |
| `OvershootAlwaysPaid` | `OvershootPaid` | `BudgetInv` counts the INVALID_SESSION whose delay is still running separately from those already paid |
| `HealthyNeverCondemned` | `HealthyNotCondemned`, for `Timely = TRUE` | `HealthInv`: on a connection that has had its HELLO an ACK is outstanding whenever the flag is down and a heartbeat was sent, so the callback would not have been due; before HELLO the flags are the last connection's, and what remains is that this one owes nothing |
| `WholeAndUnmixed` | `FramesWhole` | `PiecesInv`: while a frame of text is on its way the buffer is its first bytes, as many as came and fit, and `recv_total` its length; a control frame leaves both alone. A frame that does not fit never completes; one that a break cut off is forgotten at offset 0 of the next |
| `FramesTypeCorrect` | the types of `Frames` | from the same invariant: a place is left for the terminating zero |

The same module has the theorems about the parser and about `Inbound`. Those
about the parser speak of every text over any set of words, not of a run's
documents:

| Theorem | States | Argument |
| --- | --- | --- |
| `TokensNest` | whatever `jsmn_parse()` is given, the tokens it leaves nest | `SpansTo`: after every lexeme the tokens come in the order of their starts, and what starts after a token that is over lies inside it or behind it |
| `SkipIsExact` | `jp_skip()` passes over a token with all that is inside it and nothing else | from `TokensNest`: the first token that starts behind the end is the first that is not inside |
| `TokensAreTheTree` | of a text that is JSON and fits the table, the tokens are its tree, and `jp_find()` is the lookup in it | below |
| `InboundImplementsFrames` | `InboundSpec => FramesSpec` | step by step |
| `InboundWholeAndUnmixed` | `FramesWhole` | from the line above and `WholeAndUnmixed` |
| `InboundTypeCorrect` | `InboundTypeOK` | the same, and what `atoi()` and the parsers return |
| `InboundFieldsExact` | `FieldsExact` | below |

`TokensAreTheTree` runs the parser and the reader of the grammar side by side.
`Alike` says of their states: token `i` is node `i` (`TokenOf`: type, text, number of
kids, open or not), the kids of a node are the tokens `jp_skip()` leads through
(`KidIs`), the reader's stack is the chain of open nodes (`StackInv`), and the token
jsmn counts for is the one the grammar is about to give a kid to (`Marked`). The
last is the delicate part: jsmn has one index for it, moved by colons, commas
and brackets, where a grammar has a stack. Every lexeme the grammar allows keeps
`Alike` (`AlikeStep`), or finds the table full (`NoRoom`); then `ReadAlike` follows,
`jp_find()` being a walk over `KidIs`.

`InboundFieldsExact` adds three things. `WholeOrNothing`: a document with more nodes
than the table has tokens is refused as a whole, and one with no more is never
refused (`InStep`; the test for a primitive at the end does not meet an object).
`Looks`: an index of the tokens and a part of the document are in step when every
key leads both to the same value, or neither to any; `jp_find()`, `ObjectAt` and
`ArrayAt` keep them in step (`Found`, `ObjectLooks`, `ArrayIs`), and the options loop
meets the items of the array, in their order (`ArraysRead`: a string in an array is
never taken for a key; `PlacesAre`, `OptionIs`). `FieldsInv`: the document in hand is
one that Discord may send, and no frame is handled before it is sent. With
`FramesInv`, which says that what is processed is one whole frame, the step that
takes the last piece of a message in one frame sets `event` and `s_seq` to the
document's.

Induction over data is needed twice, over the lexemes of a text and over the
rounds of a loop. The induction theorems of the library take an operator, which
the provers cannot instantiate; the proofs use sets instead (`LeastOf`, `Upwards`,
`GreatestOf`: a set of numbers that has 0 and, with each number below `n`, the next,
has all up to `n`), from the library's theorem that `<` is well-founded.

`RestProofs`:

| Theorem | Property | Argument |
| --- | --- | --- |
| `TypeCorrect` | `TypeOK` | inductive as it stands |
| `EffectiveOnce` | `AtMostOnce` | `PlaceInv`: by its number a request is in one place, in the queue, with one executor or among those that took effect, and with an executor only after that only if it will not be sent again; a 429 is the one answer that is retried and the one that says that nothing was done |
| `QueueIsOutbox` | `ImplementsOutbox` | step simulation under `serving <- job["rest"].req`: `Receive` is `Take`, an effect of the worker's request `TakesEffect`, its end `Finish`, all else a stutter; that the effect is the first follows from `PlaceInv` |
| `SyncCallsExclude` | `SemIsHeld`: the mutex is taken exactly while one synchronous call is under way | inductive with the types; no path out of `do_request()` keeps it |
| `CallsLeadOn` | `EveryCallLeadsOn`: each step of a call leaves it less to do, and no other step gives it more | a measure of the places of `do_request()` and the one retry; the safety half of `QueueDrains` |

`CommandsProofs`:

| Theorem | Property | Argument |
| --- | --- | --- |
| `TypeCorrect` | `TypeOK` | with `BusyInv`: a task that is at work has an interaction |
| `OnlyOncePerAck` | `OncePerAck` | `TokenInv`: the right to run comes with the ACK that Discord took, which it takes once, and is then in one place: with the ACK task, in the command queue, or used up |
| `ReplyIsLast` | `ReplyFollowsAction` | `OrderInv`: behind a reply there is only a log entry of the same interaction, in what is still to be made, in the queue, and over the two; `RunInv` says that nothing of an interaction is there before it runs |
| `NobodyIsForgotten` | `NobodyForgotten`: what has arrived is in a queue or in the hands of a task at work on it, until its reply takes effect, one of its own calls fails or, of an unknown command, it is taken | `ArrivedInv` up to the ACK, `AckedInv` from there on; the safety half of `EveryoneAnswered` |

`WarningsProofs`. The theorems have no conditions: calls overlap, resets come,
the table fills up and counts wrap. What the code does wrong then, section 5
shows; the properties except the users it does it to, by the histories `spoiled`
and `passed`, and nobody else.

| Theorem | Property | Argument |
| --- | --- | --- |
| `TypeCorrect` | `TypeOK` | with `CallInv`, what a caller at each statement was asked to do; no condition |
| `NoSecondEntry` | `OneEntryPerUser` | `FirstInv`: entries in use come first, and the slot a call is going to fill has none free before it; `UniqueInv`: no user has two entries, nor an entry and a call that is going to make another, nor two such calls, but for the users a scan passed over |
| `NothingUnsaved` | `TableIsDurable` | with `UniqueInv`: an entry that no call works on has been flushed since it changed, and nobody else writes its key |
| `CountsAreTrue` | `CountsMatch` | `ApartInv`: calls that overlap are about spoiled users; `CountInv`: for the others the entry, or without one the key in flash, has the count they were given, between the statements of a call too |
| `CountsImplemented` | `ImplementsCounts` | step simulation, for every set of users, until one of them is spoiled: the flush of a call, or a clear that finds nothing, is the step of `WarnCounts`, a reset its `Reset`, every other statement a stutter |

`WifiProofs`:

| Theorem | Property | Argument |
| --- | --- | --- |
| `TypeCorrect` | `TypeOK` | `HandlerInv` says where the save handler is and what that means for mode and flags |
| `ConnectedIsTrue` | `ConnectedAgrees` | `LinkInv`: the last of the events "ip" and "gone" still to come tells the truth about the link, and without one `s_connected` does |
| `NeverGivesUpEarly` | `KeepsTrying`, until a test fails | `TryInv`: a station that is down sleeps before a retry, has an event to come, or has used up its retries and set FAIL |
| `SavedIsProven` | `SavedAfterAddress` | an event of an earlier attempt must not decide a test: `TestInv` counts what can still post a "gone" in a test (the link, a retry that sleeps, the form's own attempt, at most two), `RestInv` the same between tests, and `ProvenInv` concludes that an address or its bit is one of this test |

`SetupProofs`:

| Theorem | Property | Argument |
| --- | --- | --- |
| `TypeCorrect` | `TypeOK` | with `RegInv`, where the registration can be |
| `NotStranded` | `NeverStranded` | `StrandedInv`, with `SaveInv`: what the save has written so far is the tested form's; after a reset between name and password, or the save of a test that was misjudged, nobody reaches the web server any more, so no save can begin |
| `FlagIsTrue` | `FlagMeansRegistered` | `FlagInv`: while no save is half done, was cut or met a registration, what the registration read is still what flash holds |

`ModerationProofs`:

| Theorem | Property | Argument |
| --- | --- | --- |
| `TypeCorrect` | `TypeOK` | `Shape`, and `KeywordsFit`: the places that `filter_init()` fills are at most `MAX_KEYWORDS`, by the largest of them |
| `LogIsLeftAlone` | `NeverModeratesItsLog` | `ModInv`: whatever is deleted, or in a request, or in hand, is a message that breaks a rule for the code; by the hypothesis on the settings a log message does not |
| `LogComesAfter` | `LogFollowsDelete` | `OrderInv`: before each log request in the queue its deletion is in the queue, being served or over, and the WebSocket task asks for the log only then |
| `NoViolationIsForgotten` | `NoViolationForgotten`: a message that fits and breaks a rule, by what of it is kept and a keyword that can match, waits, is in hand, or its deletion is on its way, done or lost | `PendingInv`, with what the rules mean for the code in `ModInv`; the safety half of `ViolationsAnswered` |
| `UsesTheOutbox` | every step on the queue is one of `Outbox` | step by step: what the three tasks do to the queue is `Accept`, `Take`, `TakesEffect` or `Finish`, or nothing |
| `UsesTheCounters` | every step on the counters is one of `WarnCounts` | with `WsOk`: the message in hand breaks a rule and so has an author to count for |

The last two close the composition: `RestProofs` shows that `Rest` is an `Outbox`
(`QueueIsOutbox`), `WarningsProofs` that `Warnings` is a `WarnCounts` for the users
whose count nothing has put wrong (`CountsImplemented`), and these that
`Moderation` asks no more of them.

`PanelProofs`:

| Theorem | Property | Argument |
| --- | --- | --- |
| `TypeCorrect` | `TypeOK` | from the three invariants together |
| `OneForOne` | `OneEventPerPress` | `AgreeInv`: the clock of the ISR agrees with the finger, except for a release it has still to hear of; `OwedInv`: beside the events that were lost, exactly that press is owed one, and of the type the ISR's clock says |
| `EndsSilent` | `SilentAtRest` | `BuzzerInv`: in what a task has still to call, every "on" has an "off" behind it and the last call is an update; a duty that is set has such an "off" to come in one of the tasks |

Only model-checked are the liveness properties (`ZombieAbandoned`,
`EventuallyReady`, `QueueDrains`, `EveryoneAnswered`, `SavedGoesLive`,
`ViolationsAnswered`, `EventsHandled`): they rest on fairness, and ENABLED is out of
the prover's reach. Of three of them the safety half is a theorem, named above:
nothing is lost on the way, so that fairness has only to move it on.

What the theorems about `Inbound` take from Discord is its assumption, and is
not proved: that it sends JSON, objects at the top, and lists of fewer than 256
items.

## 5. Where the code departs from what is said of it

Two departures are runs of their own (`PROJECT.json` "findings" quotes the texts):

- `GatewayResume`: a connection to the resume URL sends IDENTIFY, because
  CONNECTED overwrites the state that HELLO tests.
- `WarnReset`: `warnings.c:79`, "New entry — load from NVS first": the new entry is
  valid and named before `warnings_get()` looks, so that finds its 0 and never
  reads flash; the first warning after a reset counts from 0, and is written over
  the count in flash.

Five more contradict a comment or the README as plainly:

- `gateway.c:345`, "total across all fragments": `payload_offset` is 0 at the start
  of every frame, and `payload_len` is the frame's; a message in several frames is
  taken for several messages, none of which is JSON, and is lost.
- `wifi.c:143`: a save in normal mode, for which the README offers the server
  (`src/README.md:187`), makes the default station again, since `wifi_init()` did
  not keep the first in `s_sta_netif`; ESP-IDF's assertions, on in
  `src/sdkconfig`, reset the device, and nothing is saved.
- `gateway.c:474`: after "Gateway stopped permanently" (line 457) the heartbeat
  timer still runs, `s.connected` is still set, and the callback sends through
  the handle that was freed.
- `wifi.c:168`, "Revert to AP-only so config server stays up": in normal mode
  (without assertions) that switches the station off, and with it the address the
  form came from, until a reset (`KeepsTrying` excepts a test that failed).
- `filter.c:36`: the fields of the list are trimmed in front only, so a blank
  before a comma is part of the keyword, against `src/README.md:158`,
  "comma-separated" (`ViolationsAnswered` excepts such fields).

Met while modelling, besides:

- `gateway.c:361`: a close that goes smoothly ends with CLOSED and FINISH, for
  which the handler has no case; nothing wakes the gateway task any more
  (`EventuallyReady` excepts it, and fails without the exception).
- `gateway.c:114`: flags and timer of the last connection outlive it, so between
  CONNECTED and HELLO the timer can close a new connection that was never sent a
  heartbeat (`HealthyNotCondemned` excepts it, and `EventuallyReady` counts it as a
  disruption).
- `gateway.c:139`: the timer of HELLO fires once; a connection that goes silent
  before READY is left to the client's keep-alive.
- `gateway.c:464`: the backoff goes 32 s, 64 s and then 60 s, and is never reset
  after a success.
- `gateway.c:320`: the IDENTIFY of INVALID_SESSION does not look at the daily
  count; `OvershootPaid` bounds the damage.
- `gateway.c:304`: an ACK that arrives after HELLO reset `hb_sent_us` gives the
  uptime as latency.
- `warnings.c:84`: `count++` is not locked, and of two warnings at once, by the
  filter and by a command, one is lost.
- `warnings.c:78`: of two first warnings of one user at once, each can make an
  entry: the scan of one passes over the entry that the other has not yet named.
  `OneEntryPerUser` fails without `passed`, `CountsMatch` without `spoiled`.
- `warnings.c:75`: with a full table slot 0 is not re-keyed: the warning is
  counted, durably, for the user who is there.
- `warnings.c:91`: after a reset, a clear of a user who is only in flash does
  nothing.
- `warnings.c:84`: the count wraps after 255 warnings.
- `dispatcher.c:214`, and `cmd_mod` for an action it does not know: the interaction
  is acknowledged and never answered (`EveryoneAnswered` excepts it).
- `dispatcher.c:151` and `159`: the reply reports a kick or a ban whatever
  became of its request.
- `rest.c:61`: a reset of 30 s or more is not waited for, so the one retry
  (`rest.c:237`, "retry once after honouring reset") meets the same limit.
- `wifi.c:150`: a retry that has slept since the last failed test can wake
  between the switch to APSTA and `set_config` and join with the old
  credentials; the test of the new ones then passes, and they are saved
  untested. `SavedAfterAddress` is what does hold; `NeverStranded` excepts it.
- `web_server.c:156`: the comment says the test blocks for 15 s; it is 30 s.
- `web_server.c:13`: the idle timeout is declared and never used.

- `nvs_config.c:107`: the day is the days since boot, not a "unix day number"
  (line 106). A device that is reset more often than once in 24 hours stays in
  day 0 and adds its IDENTIFYs up over weeks; once there are 950, every HELLO
  stops the gateway for good, after every boot.
- `nvs_config.c:132`: a power cut between the network's name and its password
  leaves a device that boots into normal mode, cannot join and opens no portal;
  one before the last key leaves `cmds_reg` set for other settings
  (`NeverStranded` and `FlagMeansRegistered` except exactly these).
- `dispatcher.c:201`: a save during a registration resets the flag, and the
  registration then sets it: the new settings are never registered.
- `main.c:125`: registration is tried once a boot, within thirty seconds of the
  tasks' start; after a late READY, or a failure, only a reboot tries it again.
- `events.c:10`, "filter_check_message is fast": it beeps for 280 ms, 880 ms from
  the third warning on, and may wait twice 100 ms for the queue, all on the
  WebSocket task.
- `filter.c:36`: a field of blanks becomes the empty keyword, which every text
  contains. With it, with a mention threshold of 1 or 0 or a keyword such as
  "spam", which the log text contains, the bot punishes its own log messages,
  each of which is logged again (`NeverModeratesItsLog` excepts these settings).
- `dispatcher.c:143`: the log of `/mod warn` mentions two users and quotes the
  reason, so the filter can delete it and warn the bot.
- `filter.c:34`: keywords beyond the thirty-second are ignored without a word.
- `gateway.c:181`: content beyond 511 bytes is not looked at, nor the links in it;
  `gateway.c:251`: nor is a message whose document has more than 512 tokens, as a
  dozen mentions make it, so the strongest mention spam is never seen
  (`ViolationsAnswered` excepts both).
- `web_server.c:121`: a body that stalls is waited for without end; button B then
  holds the hardware task in `httpd_stop()` as long (`EventsHandled` excepts it,
  and fails without the exception).
- `display.c:398`: `page` changes and nothing reads it (`src/README.md:182`, "Cycle
  display page").
- `display.c:413`: "Config server ON" is shown, and the beep given, when
  `httpd_start()` failed too.
- `buttons.c:22`: the level is read late. A release whose edge is absorbed by a
  pending interrupt can lose the event of its press, and an interrupt that waits
  50 ms at a bounce of the release can make one too many.
- `buttons.c:45`: the result of `xQueueSendFromISR()` is not looked at: a press
  that ends while four events wait has no effect (`OneEventPerPress` counts it as
  lost, as it does the release above).

## 6. Not modelled, and what could be added

Not modelled for good: drawing, HTML, form decoding, time setting, CA loading
(I/O or text that no later step reads), memory behind a freed handle.

What could be added:

1. The daily counter over reboots, its two keys written one at a time, reusing
   `IdentifyCounter`: the runs of `Gateway` are within one boot, where its operators
   are exact.
2. `Commands` over `Outbox` by `INSTANCE`, as `Moderation` is, in place of its own
   request queue.
3. The sequences of a registration and of a reconnect in one module, with
   `s.state` as both see it.
