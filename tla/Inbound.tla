------------------------------- MODULE Inbound -------------------------------
(***************************************************************************)
(* The way of a message from Discord into the device: it is put together   *)
(* from its pieces (module Frames), gateway_process_message() takes it     *)
(* apart with JsonParse and hands the fields of a MESSAGE_CREATE or an     *)
(* INTERACTION_CREATE on.  Other messages are module Gateway's.  A         *)
(* document is a tree: type, text, and children, which in an object are    *)
(* keys and values in turn.                                                *)
(***************************************************************************)
EXTENDS JsonParse, Frames

CONSTANTS
    Documents,       \* what Discord may send: Documents[k] is of the message
                     \* that begins with frame k
    Lexemes(_),      \* how Discord writes a document down
    Nodes(_),        \* the parts of a document in the order of its text,
                     \* the whole of it first
    ID_LEN,          \* 24
    CONTENT_LEN      \* 512

Words(text) == {""} \cup {text[i].text : i \in DOMAIN text}

(* A part of a document is what the tree of its text says at its place.     *)
SameNode(nodes, tree, i) ==
    LET kids == tree[i].kids
    IN /\ nodes[i].type = tree[i].type /\ nodes[i].text = tree[i].text
       /\ tree[i].type = "array" =>
             nodes[i].kids = [k \in DOMAIN kids |-> nodes[kids[k]]]
       /\ tree[i].type = "object" =>
             /\ DOMAIN nodes[i].kids = 1..(2 * Len(kids))
             /\ \A k \in DOMAIN kids :
                   /\ nodes[i].kids[2 * k - 1] = nodes[kids[k]]
                   /\ nodes[i].kids[2 * k] = nodes[tree[kids[k]].kids[1]]

(* The text of a document is JSON, and says what the document says.         *)
Written(doc) ==
    LET text  == Lexemes(doc)
        nodes == Nodes(doc)
        tree  == Read(text).tree
    IN /\ text \in Seq(LexemesOver(Words(text))) /\ Texts(Words(text))
       /\ WellFormed(text)
       /\ Len(nodes) = Len(tree) /\ DOMAIN nodes = DOMAIN tree
       /\ 1 \in DOMAIN nodes /\ nodes[1] = doc
       /\ \A i \in DOMAIN tree : SameNode(nodes, tree, i)

(* Discord's limits: a message mentions fewer than 256 users.               *)
ShortLists(doc) ==
    \A i \in DOMAIN Nodes(doc) :
       Nodes(doc)[i].type = "array" => Len(Nodes(doc)[i].kids) < 256

ASSUME InboundAssumption ==
    /\ {ID_LEN, CONTENT_LEN} \subseteq Nat \ {0}
    /\ DOMAIN Documents = 1..MaxFrames
    /\ \A k \in 1..MaxFrames : \A doc \in Documents[k] :
          doc.type = "object" /\ Written(doc) /\ ShortLists(doc)
    /\ Len("") = 0

VARIABLES
    document,   \* the text of the message on its way; its length is chosen
                \* apart from it
    s_seq,      \* s.seq
    event       \* what was handed on last

inbound == <<frames, document, s_seq, event>>

NoEvent == [kind |-> "none"]
Leaf(type, text) == [type |-> type, text |-> text, kids |-> <<>>]
NoDocument == Leaf("primitive", "null")

InboundTypeOK ==
    /\ FramesTypeOK
    /\ document.type \in {"object", "primitive"}
    /\ s_seq \in 0..99
    /\ event.kind \in {"none", "message", "interaction"}

InboundInit ==
    /\ FramesInit
    /\ document = NoDocument /\ s_seq = 0 /\ event = NoEvent

-----------------------------------------------------------------------------
(* The parsers of gateway.c. *)

ObjectAt(toks, obj, key) ==
    LET v == JpFind(toks, obj, key)
    IN IF v # 0 /\ toks[v].type = "object" THEN v ELSE 0

ArrayAt(toks, obj, key) ==
    LET v == JpFind(toks, obj, key)
    IN IF v # 0 /\ toks[v].type = "array" THEN v ELSE 0

CountUrls(text) ==
    Cardinality({i \in 1..(Len(text) - 3) : SubSeq(text, i, i + 3) = "http"})

(* parse_message_create() *)
MessageCreate(toks, d) ==
    LET content  == JpStr(toks, d, "content", CONTENT_LEN)
        mentions == ArrayAt(toks, d, "mentions")
    IN [kind    |-> "message",
        id      |-> JpStr(toks, d, "id", ID_LEN),
        content |-> content,
        author  |-> JpStr(toks, ObjectAt(toks, d, "author"), "id", ID_LEN),
        mention_count |-> IF mentions = 0 THEN 0 ELSE toks[mentions].size % 256,
        url_count     |-> CountUrls(content)]

(* The places of the options: each one's end leads to the next. *)
OptionPlaces(toks, opts) ==
    LET n == toks[opts].size
        Place[k \in 1..n] == IF k = 1 THEN opts + 1
                             ELSE JpSkip(toks, Place[k - 1])
    IN {i \in {Place[k] : k \in 1..n} : i <= Len(toks)}

(* The last option of a name wins. *)
Option(toks, opts, name) ==
    LET named == {i \in (IF opts = 0 THEN {} ELSE OptionPlaces(toks, opts)) :
                     toks[i].type = "object" /\ JpStr(toks, i, "name", 16) = name}
    IN IF named = {} THEN "" ELSE JpStr(toks, Max(named), "value", ID_LEN)

(* parse_interaction_create(), for commands only *)
InteractionCreate(toks, d) ==
    LET data == ObjectAt(toks, d, "data")
        opts == ArrayAt(toks, data, "options")
        user == ObjectAt(toks, ObjectAt(toks, d, "member"), "user")
    IN IF JpInt(toks, d, "type", 0) # 2 THEN NoEvent
       ELSE [kind    |-> "interaction",
             id      |-> JpStr(toks, d, "id", ID_LEN),
             invoker |-> JpStr(toks, user, "id", ID_LEN),
             command |-> JpStr(toks, data, "name", ID_LEN),
             action  |-> Option(toks, opts, "action"),
             user    |-> Option(toks, opts, "user")]

(* gateway_process_message(): dispatch *)
EventOf(toks) ==
    LET t == JpStr(toks, 1, "t", 48)
        d == JpFind(toks, 1, "d")
    IN IF JpInt(toks, 1, "op", 0) # 0 \/ d = 0 THEN NoEvent
       ELSE CASE t = "MESSAGE_CREATE"     -> MessageCreate(toks, d)
              [] t = "INTERACTION_CREATE" -> InteractionCreate(toks, d)
              [] OTHER                    -> NoEvent

(* Sequence numbers that are not positive are passed over. *)
NextSeq(toks) == LET s == JpInt(toks, 1, "s", 0) IN IF s > 0 THEN s ELSE s_seq

-----------------------------------------------------------------------------
(* The frame on its way is all of its message. *)
OneFrame == sent.op = "text" /\ sent.fin

(* What is put together is processed; a mixture is no JSON text, and neither *)
(* is one frame of several: the first lacks the brace that closes the        *)
(* document, the last the one that opens it.                                 *)
Process(buf) ==
    LET toks == IF OneFrame /\ Complete(buf) THEN Tokenize(Lexemes(document))
                ELSE <<>>
    IN IF toks = <<>> THEN event' = NoEvent /\ UNCHANGED s_seq
       ELSE event' = EventOf(toks) /\ s_seq' = NextSeq(toks)

InboundNext ==
    \/ \E len \in Lengths :
          /\ SendFrames(len)
          /\ IF sent'.op = "text" THEN document' \in Documents[sent.id + 1]
             ELSE UNCHANGED document
          /\ UNCHANGED <<s_seq, event>>
    \/ DropFrames /\ UNCHANGED <<document, s_seq, event>>
    \/ \E n \in 1..Piece :
          /\ Data(n) /\ UNCHANGED document
          /\ IF Arrives THEN Process(recv_buf') ELSE UNCHANGED <<s_seq, event>>

InboundSpec == InboundInit /\ [][InboundNext]_inbound

-----------------------------------------------------------------------------
(* Properties. *)

(* The reference: a value is looked up in the document itself. *)
Missing == Leaf("missing", "")

Member(node, key) ==
    LET at == {k \in DOMAIN node.kids : k % 2 = 1 /\ node.kids[k].text = key}
    IN IF node.type # "object" \/ at = {} THEN Missing
       ELSE node.kids[Min(at) + 1]

(* As far as it fits into size bytes with a terminating zero *)
TextAt(node, key, size) ==
    LET text == Member(node, key).text
    IN IF Len(text) < size THEN text ELSE SubSeq(text, 1, size - 1)

NumberAt(node, key) ==
    IF Member(node, key).type = "primitive" THEN AtoI(Member(node, key).text)
    ELSE 0

Items(node) == IF node.type = "array" THEN node.kids ELSE <<>>

OptionOf(data, name) ==
    LET items == Items(Member(data, "options"))
        named == {i \in DOMAIN items : TextAt(items[i], "name", 16) = name}
    IN IF named = {} THEN "" ELSE TextAt(items[Max(named)], "value", ID_LEN)

MessageOf(d) ==
    LET content == TextAt(d, "content", CONTENT_LEN)
    IN [kind |-> "message", id |-> TextAt(d, "id", ID_LEN), content |-> content,
        author |-> TextAt(Member(d, "author"), "id", ID_LEN),
        mention_count |-> Len(Items(Member(d, "mentions"))),
        url_count |-> CountUrls(content)]

InteractionOf(d) ==
    LET data == Member(d, "data")
    IN [kind |-> "interaction", id |-> TextAt(d, "id", ID_LEN),
        invoker |-> TextAt(Member(Member(d, "member"), "user"), "id", ID_LEN),
        command |-> TextAt(data, "name", ID_LEN),
        action |-> OptionOf(data, "action"), user |-> OptionOf(data, "user")]

Expected(doc) ==
    LET d == Member(doc, "d")
        t == TextAt(doc, "t", 48)
    IN IF NumberAt(doc, "op") # 0 \/ d = Missing THEN NoEvent
       ELSE CASE t = "MESSAGE_CREATE" -> MessageOf(d)
              [] t = "INTERACTION_CREATE" /\ NumberAt(d, "type") = 2 ->
                    InteractionOf(d)
              [] OTHER -> NoEvent

(* The fields handed on, and the sequence number, are those of the document  *)
(* of a message in one frame, in whatever order it has its members, whatever *)
(* nested objects have members of the same names, and wherever a name        *)
(* appears as a value (jsmn_parse, jp_find, jp_skip and the parsers); a      *)
(* document with more tokens than the table is passed over as a whole.       *)
FieldsExact ==
    handled # <<>> /\ handled[Len(handled)] = sent.id /\ OneFrame =>
       IF Len(Nodes(document)) > JP_MAX_TOKENS THEN event = NoEvent
       ELSE /\ event = Expected(document)
            /\ NumberAt(document, "s") > 0 => s_seq = NumberAt(document, "s")
=============================================================================
