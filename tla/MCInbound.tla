------------------------------ MODULE MCInbound ------------------------------
(* Documents for Inbound: messages and interactions with their members in   *)
(* many orders, some missing, and with members of the same names nested in  *)
(* them.                                                                    *)
EXTENDS Inbound

(* A document as Discord writes it, without white space. *)
RECURSIVE WrittenAs(_)
WrittenAs(doc) ==
    LET kids == doc.kids
        Item(i) == WrittenAs(kids[i]) \o
                     IF i = Len(kids) THEN <<>>
                     ELSE IF doc.type = "object" /\ i % 2 = 1 THEN <<Punct(":")>>
                     ELSE <<Punct(",")>>
        inside == FlattenSeq([i \in DOMAIN kids |-> Item(i)])
    IN CASE doc.type = "object" -> <<Punct("{")>> \o inside \o <<Punct("}")>>
         [] doc.type = "array"  -> <<Punct("[")>> \o inside \o <<Punct("]")>>
         [] doc.type = "string" -> <<Str(doc.text)>>
         [] OTHER               -> <<Prim(doc.text)>>

(* The parts of a document, in the order of its text *)
RECURSIVE NodesOf(_)
NodesOf(doc) ==
    <<doc>> \o FlattenSeq([i \in DOMAIN doc.kids |-> NodesOf(doc.kids[i])])

Node(type, kids) == [type |-> type, text |-> "", kids |-> kids]
S(text) == Leaf("string", text)
P(text) == Leaf("primitive", text)

Obj(pairs)   == Node("object", FlattenSeq(pairs))
Array(items) == Node("array", items)

(* Some of the pairs, in any order. *)
Orders(pairs) == UNION {{s \in [1..n -> pairs] : IsInjective(s)} :
                         n \in 0..Cardinality(pairs)}

Quoted == <<S("quoted"), Obj(<< <<S("id"), S("8")>>, <<S("content"), S("old")>>,
             <<S("author"), Obj(<< <<S("id"), S("7")>> >>)>>, <<S("mentions"), Array(<<>>)>> >>)>>

MessageMembers ==
    { <<S("id"), S("1")>>, <<S("content"), S("author http http")>>, Quoted,
      <<S("author"), Obj(<< <<S("name"), S("id")>>, <<S("bot"), Obj(<<>>)>>,
                            <<S("id"), S("2")>> >>)>>,
      <<S("mentions"), Array(<< Obj(<< <<S("id"), S("3")>> >>), Obj(<<>>) >>)>> }

OptionAction == Obj(<< <<S("name"), S("action")>>, <<S("value"), S("warn")>> >>)
OptionUser   == Obj(<< <<S("value"), S("5")>>, <<S("type"), P("6")>>,
                       <<S("name"), S("user")>> >>)

DataMembers ==
    { <<S("name"), S("mod")>>, <<S("id"), S("9")>>,
      <<S("options"), Array(<<OptionUser, OptionAction>>)>> }

User == <<S("user"), Obj(<< <<S("name"), S("user")>>, <<S("id"), S("4")>> >>)>>

InteractionMembers(data) ==
    { << <<S("type"), P("2")>>, <<S("id"), S("1")>>, <<S("data"), data>>,
         <<S("member"), Obj(<<User>>)>> >>,
      << <<S("member"), Obj(<< <<S("roles"), Array(<<P("1")>>)>>, User>>)>>,
         <<S("data"), data>>, <<S("type"), P("2")>> >>,
      << <<S("data"), data>>, <<S("type"), P("3")>>, User >> }

Head1(t, s) == << <<S("t"), S(t)>>, <<S("s"), P(s)>>, <<S("op"), P("0")>> >>

Ack == Obj(<< <<S("t"), P("null")>>, <<S("s"), P("null")>>,
             <<S("op"), P("11")>> >>)

Message(members) ==
    Obj(Head1("MESSAGE_CREATE", "5") \o << <<S("d"), Obj(members)>> >>)

AnyDocument ==
    { Message(m) : m \in Orders(MessageMembers) }
    \cup UNION {{ Obj(<< <<S("d"), Obj(i)>> >> \o Head1("INTERACTION_CREATE", "6")) :
                  i \in InteractionMembers(Obj(data)) } :
                data \in Orders(DataMembers)}
    \cup {Ack, Obj(<<>>)}

(* Two messages to leave something behind, and then any. *)
SomeDocuments == << {Message(<<Quoted>>)}, {Ack, Message(<<>>)}, AnyDocument >>
=============================================================================
