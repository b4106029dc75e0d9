------------------------------ MODULE Moderation ------------------------------
(***************************************************************************)
(* mod/filter.c at work: messages arrive on the WebSocket task, which      *)
(* checks each, queues the deletion, counts a warning, queues a log        *)
(* message and beeps before it takes the next; the commands task warns and *)
(* clears meanwhile.  The log messages are the bot's own messages, and     *)
(* Discord sends them back to it like any other.  rest.c is here as module *)
(* Outbox promises it (module Rest implements that), warnings.c as module  *)
(* WarnCounts does (module Warnings says for which users).  A text is a     *)
(* sequence of pieces: words, blanks, URLs.                                *)
(***************************************************************************)
EXTENDS Integers, SequencesExt

CONSTANTS
    Users,         \* Discord users
    Talk,          \* what users, or Discord itself, write:
                   \* [author, fits, mentions, text]
    Reason,        \* the reason that a moderator gives, a text
    Configs,       \* the settings in flash, one of which is there:
                   \* [mention_thresh, link_thresh, keywords, log_channel];
                   \* keywords: the list, cut at its commas
    MAX_KEYWORDS,  \* 32
    MSG_CONTENT,   \* pieces that fit into msg.content (511 bytes)
    QUEUE_DEPTH,   \* 8, rest.c's
    MaxMessages,   \* bound: messages delivered to the device
    MaxCommands,   \* bound: warnings and clears by moderators
    MaxFailures    \* bound: requests that fail

ASSUME ModerationAssumption ==
    /\ {"bot", "none"} \cap Users = {}
    /\ \A t \in Talk : t.author \in Users \cup {"none"}
    /\ \A c \in Configs : Len(c.keywords) \in Nat
                          /\ DOMAIN c.keywords = 1..Len(c.keywords)
    /\ {MAX_KEYWORDS, QUEUE_DEPTH, MSG_CONTENT} \subseteq Nat \ {0}
    /\ {MaxMessages, MaxCommands, MaxFailures} \subseteq Nat

VARIABLES
    config,        \* the settings
    s_keywords,    \* filter.c: the words, by the place in the list
    inbox,         \* messages on their way to the WebSocket task
    messages,      \* history: all that were delivered; a message's id is its
                   \* place
    ws,            \* WebSocket task in filter_check_message(): [pc, msg]
    cmd,           \* commands task: TRUE between a warning and its log
    rest_queue, rest_serving, rest_applied,      \* Outbox
    total, reply,                                \* WarnCounts
    deleted,       \* Discord: messages deleted
    lost,          \* history: messages of which a request was dropped or failed
    commands, failures

settings == <<config, s_keywords>>
arrived  == <<inbox, messages>>
outbox   == <<rest_queue, rest_serving, rest_applied>>
warnings == <<total, reply>>
vars == <<settings, arrived, ws, cmd, outbox, warnings, deleted, lost,
          commands, failures>>

Bot   == "bot"
Nobody == "none"      \* a system message has no author id

Request   == [what : {"delete", "log", "warnlog"}, msg : 0..MaxMessages,
              n : 0..MaxCommands]
NoRequest == [what |-> "none", msg |-> 0, n |-> 0]

Out == INSTANCE Outbox WITH Requests <- Request, Depth <- QUEUE_DEPTH,
           None <- NoRequest, queue <- rest_queue, serving <- rest_serving,
           applied <- rest_applied

Warn == INSTANCE WarnCounts WITH Ids <- Users \cup {Bot},
            Callers <- {"ws", "commands"}, MaxCount <- 255

TypeOK ==
    /\ config \in Configs
    /\ Cardinality(DOMAIN s_keywords) <= MAX_KEYWORDS
    /\ Range(inbox) \subseteq DOMAIN messages /\ Len(messages) <= MaxMessages
    /\ ws.pc \in {"idle", "delete", "warn", "log", "beep", "tone"}
    /\ ws.msg \in 0..MaxMessages /\ cmd \in BOOLEAN
    /\ rest_queue \in Seq(Request) /\ Len(rest_queue) <= QUEUE_DEPTH
    /\ rest_serving \in Request \cup {NoRequest}
    /\ Range(rest_applied) \subseteq Request
    /\ total \in [Users \cup {Bot} -> 0..255]
    /\ reply \in [{"ws", "commands"} -> 0..255]
    /\ deleted \subseteq DOMAIN messages /\ lost \subseteq 0..MaxMessages
    /\ commands \in 0..MaxCommands /\ failures \in 0..MaxFailures

-----------------------------------------------------------------------------
(* filter_init(): strtok() passes over empty fields; a field that is only   *)
(* blanks becomes an empty keyword.                                         *)
Fields(list) == {i \in DOMAIN list : list[i] # <<>>}

(* Mutant of Room: no check. *)
RoomUnbounded(list) == Fields(list)

(* The first MAX_KEYWORDS of them. *)
Room(list) ==
    {i \in Fields(list) :
        Cardinality({j \in Fields(list) : j <= i}) <= MAX_KEYWORDS}

(* Blanks in front go, blanks behind stay. *)
Ltrim(field) ==
    LET first == SelectInSeq(field, LAMBDA p : p # " ")
    IN IF first = 0 THEN <<>> ELSE SubSeq(field, first, Len(field))

(* Mutant of Keywords: the blank in front stays. *)
KeywordsUntrimmed(list) == [i \in Room(list) |-> list[i]]

Keywords(list) == [i \in Room(list) |-> Ltrim(list[i])]

Init ==
    /\ config \in Configs
    /\ s_keywords = Keywords(config.keywords)
    /\ inbox = <<>> /\ messages = <<>>
    /\ ws = [pc |-> "idle", msg |-> 0] /\ cmd = FALSE
    /\ Out!Init /\ Warn!Init
    /\ deleted = {} /\ lost = {} /\ commands = 0 /\ failures = 0

(* parse_message_create(): the text that msg.content holds, and its URLs. *)
Kept(text) == SubSeq(text, 1, Min({Len(text), MSG_CONTENT}))
Urls(content) == Cardinality({i \in DOMAIN content : content[i] = "http"})

(* strcasestr() finds the empty keyword in every text. *)
KeywordMatch(content) ==
    \E i \in DOMAIN s_keywords : s_keywords[i] \in SubSeqs(content)

MentionSpam(m) == m.mentions >= config.mention_thresh
LinkSpam(m)    == Urls(Kept(m.text)) >= config.link_thresh
Violates(m)    == MentionSpam(m) \/ LinkSpam(m) \/ KeywordMatch(Kept(m.text))

ReasonOf(m) == CASE MentionSpam(m) -> "mention spam"
                 [] ~MentionSpam(m) /\ LinkSpam(m) -> "link spam"
                 [] OTHER -> "banned keyword"

(* The reason within log_action()'s text. *)
WordsOf(reason) == CASE reason = "mention spam" -> <<"mention", " ", "spam">>
                     [] reason = "link spam" -> <<"link", " ", "spam">>
                     [] OTHER -> <<"banned", " ", "keyword">>

Post(author, kind, fits, mentions, text) ==
    [author |-> author, kind |-> kind, fits |-> fits, mentions |-> mentions,
     text |-> text]

(* Mutant of LogOf: the text of the message is quoted. *)
LogQuoting(m) == Post(Bot, "log", TRUE, 1, m.text)

(* log_action()'s message mentions the author. *)
LogOf(m) == Post(Bot, "log", TRUE, 1, WordsOf(ReasonOf(m)))

(* cmd_mod()'s mentions the user and the moderator. *)
WarnLog == Post(Bot, "warnlog", TRUE, 2, Reason)

-----------------------------------------------------------------------------
Arrive(m) == /\ messages' = Append(messages, m)
             /\ inbox' = Append(inbox, Len(messages'))

UserWrites(t) ==
    /\ Len(messages) < MaxMessages
    /\ Arrive(Post(t.author, "user", t.fits, t.mentions, t.text))
    /\ UNCHANGED <<settings, ws, cmd, outbox, warnings, deleted, lost,
                   commands, failures>>

Goto(from, to) == ws.pc = from /\ ws' = [ws EXCEPT !.pc = to]

Current == messages[ws.msg]

(* A document that the buffer or the token table does not hold is passed    *)
(* over, as is an author without an id (events_dispatch_message()).         *)
Checked(m) == m.fits /\ m.author # Nobody /\ Violates(m)

Receive ==
    /\ ws.pc = "idle" /\ inbox # <<>>
    /\ inbox' = Tail(inbox)
    /\ ws' = IF Checked(messages[Head(inbox)])
             THEN [pc |-> "delete", msg |-> Head(inbox)] ELSE ws
    /\ UNCHANGED <<settings, messages, cmd, outbox, warnings, deleted, lost,
                   commands, failures>>

(* enqueue_request(): dropped when the queue stays full for 100 ms. *)
Enqueue(r) == IF Len(rest_queue) < QUEUE_DEPTH
              THEN Out!Accept(r) /\ UNCHANGED lost
              ELSE UNCHANGED outbox /\ lost' = lost \cup {r.msg}

(* Mutant of Requests: the log goes out first. *)
RequestsLogFirst == <<"log", "delete">>

Requests == <<"delete", "log">>

AskFor(i) == Enqueue([what |-> Requests[i], msg |-> ws.msg, n |-> 0])

QueueDelete ==
    /\ Goto("delete", "warn")
    /\ AskFor(1)
    /\ UNCHANGED <<settings, arrived, cmd, warnings, deleted, commands,
                   failures>>

CountWarning ==
    /\ Goto("warn", "log")
    /\ Warn!Increment("ws", Current.author)
    /\ UNCHANGED <<settings, arrived, cmd, outbox, deleted, lost, commands,
                   failures>>

LogAction ==
    /\ Goto("log", "beep")
    /\ IF config.log_channel THEN AskFor(2)
       ELSE UNCHANGED <<outbox, lost>>
    /\ UNCHANGED <<settings, arrived, cmd, warnings, deleted, commands,
                   failures>>

(* buzzer_beep() and buzzer_long_tone() sleep on this task. *)
Beep ==
    /\ Goto("beep", IF reply["ws"] >= 3 THEN "tone" ELSE "idle")
    /\ UNCHANGED <<settings, arrived, cmd, outbox, warnings, deleted, lost,
                   commands, failures>>

Tone ==
    /\ Goto("tone", "idle")
    /\ UNCHANGED <<settings, arrived, cmd, outbox, warnings, deleted, lost,
                   commands, failures>>

-----------------------------------------------------------------------------
(* The part of cmd_mod() that meets the filter. *)
CmdStarts == ~cmd /\ commands < MaxCommands /\ commands' = commands + 1

CmdWarn(u) ==
    /\ CmdStarts /\ cmd' = TRUE
    /\ Warn!Increment("commands", u)
    /\ UNCHANGED <<settings, arrived, ws, outbox, deleted, lost, failures>>

CmdLog ==
    /\ cmd /\ cmd' = FALSE
    /\ IF config.log_channel
       THEN Enqueue([what |-> "warnlog", msg |-> 0, n |-> commands])
       ELSE UNCHANGED <<outbox, lost>>
    /\ UNCHANGED <<settings, arrived, ws, warnings, deleted, commands, failures>>

CmdClear(u) ==
    /\ CmdStarts /\ UNCHANGED cmd
    /\ Warn!Clear(u)
    /\ UNCHANGED <<settings, arrived, ws, outbox, deleted, lost, failures>>

-----------------------------------------------------------------------------
(* rest_task and Discord. *)
RestTakes ==
    /\ Out!Take
    /\ UNCHANGED <<settings, arrived, ws, cmd, warnings, deleted, lost,
                   commands, failures>>

(* A message posted comes back, unless the bound is reached. *)
Echo(m) == IF Len(messages) < MaxMessages THEN Arrive(m) ELSE UNCHANGED arrived

Applies ==
    /\ Out!TakesEffect
    /\ CASE rest_serving.what = "delete"
              -> deleted' = deleted \cup {rest_serving.msg} /\ UNCHANGED arrived
         [] rest_serving.what = "log"
              -> Echo(LogOf(messages[rest_serving.msg])) /\ UNCHANGED deleted
         [] OTHER -> Echo(WarnLog) /\ UNCHANGED deleted
    /\ UNCHANGED <<settings, ws, cmd, warnings, lost, commands, failures>>

RestFinishes ==
    /\ Out!Finish
    /\ IF rest_serving \in Range(rest_applied) THEN UNCHANGED <<lost, failures>>
       ELSE /\ failures < MaxFailures /\ failures' = failures + 1
            /\ lost' = lost \cup {rest_serving.msg}
    /\ UNCHANGED <<settings, arrived, ws, cmd, warnings, deleted, commands>>

-----------------------------------------------------------------------------
WsTask   == Receive \/ QueueDelete \/ CountWarning \/ LogAction \/ Beep \/ Tone
CmdTask  == CmdLog \/ \E u \in Users : CmdWarn(u) \/ CmdClear(u)
RestTask == RestTakes \/ Applies \/ RestFinishes

Next == \/ WsTask \/ CmdTask \/ RestTask
        \/ \E t \in Talk : UserWrites(t)

Spec == Init /\ [][Next]_vars

(* The three tasks run; delays, waits and HTTP calls end. *)
LiveSpec == /\ Spec /\ WF_vars(WsTask) /\ WF_vars(CmdLog) /\ WF_vars(RestTask)

-----------------------------------------------------------------------------
(* Properties. *)

(* A log message about a message that is not deleted comes only when the    *)
(* deletion was dropped or failed: the two requests go through the queue in *)
(* their order, whatever the commands task puts in between                  *)
(* (filter_check_message, log_action, rest_task).                           *)
LogFollowsDelete ==
    \A r \in Range(rest_applied) :
       r.what = "log" => r.msg \in deleted \cup lost

(* The rules README lists, with the keywords as their writer meant them, as *)
(* far as the filter can: among the first MAX_KEYWORDS fields of the list,  *)
(* and with no blank before the comma.                                      *)
Meant == {Ltrim(config.keywords[i]) :
             i \in {j \in Fields(config.keywords) :
                      j <= MAX_KEYWORDS /\ Last(config.keywords[j]) # " "}}
BreaksRules(m) == \/ MentionSpam(m) \/ LinkSpam(m)
                  \/ \E k \in Meant : k \in SubSeqs(Kept(m.text))

(* README, Auto-Moderation: every message that breaks a rule and reaches    *)
(* the filter ends up deleted, unless a request about it failed or found    *)
(* the queue full, which the code logs; however many wait behind the beeps  *)
(* of another.  What does not reach it is excepted: a message without an    *)
(* author; a document that the receive buffer or the token table does not   *)
(* hold, as a dozen mentions make it (gateway.c:251-254); the text after    *)
(* byte 511 (gateway.c:181); and the keywords that Meant leaves out.        *)
ViolationsAnswered ==
    \A m \in 1..MaxMessages :
       (/\ m \in DOMAIN messages /\ messages[m].fits
        /\ messages[m].author # Nobody /\ BreaksRules(messages[m]))
          ~> (m \in deleted \cup lost)

(* Settings under which a log message of the filter breaks a rule itself: a  *)
(* mention threshold of 1 (or 0), a keyword of its own text, a blank field. *)
SelfTriggering ==
    \E reason \in {"mention spam", "link spam", "banned keyword"} :
       Violates(Post(Bot, "log", TRUE, 1, WordsOf(reason)))

(* Moderation does not feed on itself: no log message of the filter is      *)
(* punished, whatever the messages and the moderators' reasons contain,     *)
(* except under those settings (log_action, filter_check_message).          *)
NeverModeratesItsLog ==
    ~SelfTriggering =>
       \A m \in (deleted \cup {ws.msg}) \ {0} : messages[m].kind # "log"
=============================================================================
