------------------------------ MODULE JsonParse ------------------------------
(***************************************************************************)
(* components/jsmn/jsmn.c and discord/json_parse.c as functions.  The text *)
(* is a sequence of lexemes: punctuation, strings and primitives, with the *)
(* width they have in the text; white space is left out.  Tokens and their *)
(* indices start from 1 here, and 0 stands for the code's -1.              *)
(***************************************************************************)
EXTENDS Integers, SequencesExt

CONSTANT JP_MAX_TOKENS    \* 512

ASSUME TokensAssumption == JP_MAX_TOKENS \in Nat \ {0}

Punct(c)  == [c |-> c, text |-> ""]
Str(text) == [c |-> "string", text |-> text]
Prim(text) == [c |-> "primitive", text |-> text]

(* A set of texts, and the lexemes with them *)
Texts(W) == "" \in W /\ \A w \in W : Len(w) \in Nat

LexemesOver(W) == [c : {"{", "}", "[", "]", ":", ",", "string", "primitive"},
                   text : W]

Width(lex) == CASE lex.c = "string"    -> Len(lex.text) + 2
                [] lex.c = "primitive" -> Len(lex.text)
                [] OTHER               -> 1

-----------------------------------------------------------------------------
(* jsmn_parse().  The parser: tokens, the token that counts the next ones,  *)
(* the place in the text, and the error that ended it.                      *)
Parser(toks, toksuper, pos, err) ==
    [toks |-> toks, toksuper |-> toksuper, pos |-> pos, err |-> err]

ParserInit == Parser(<<>>, 0, 0, "none")

Open(toks) == {i \in DOMAIN toks : toks[i].end = -1}

Newest(S) == IF S = {} THEN 0 ELSE Max(S)

Container(type) == type \in {"object", "array"}

(* jsmn_alloc_token() and the parent's count *)
Alloc(p, type, start, end, text) ==
    IF Len(p.toks) = JP_MAX_TOKENS THEN [p EXCEPT !.err = "nomem"]
    ELSE LET counted == IF p.toksuper = 0 THEN p.toks
                        ELSE [p.toks EXCEPT ![p.toksuper].size = @ + 1]
         IN [p EXCEPT !.toks = Append(counted,
                [type |-> type, start |-> start, end |-> end, size |-> 0,
                 text |-> text])]

OpenContainer(p, type) ==
    LET q == Alloc(p, type, p.pos, -1, "")
    IN IF q.err = "none" THEN [q EXCEPT !.toksuper = Len(q.toks)] ELSE q

Enclosing(p, i) == Newest(Open(p.toks) \ {i})

CloseContainer(p, type) ==
    LET i == Newest(Open(p.toks))
    IN IF i = 0 THEN p
       ELSE IF p.toks[i].type # type THEN [p EXCEPT !.err = "inval"]
       ELSE [p EXCEPT !.toks[i].end = p.pos + 1, !.toksuper = Enclosing(p, i)]

(* A comma after a pair: the object counts again, not the key. *)
Comma(p) ==
    IF p.toksuper # 0 /\ ~Container(p.toks[p.toksuper].type)
          /\ Open(p.toks) # {}
    THEN [p EXCEPT !.toksuper = Newest(Open(p.toks))] ELSE p

Scan(p, lex) ==
    CASE lex.c = "{" -> OpenContainer(p, "object")
      [] lex.c = "[" -> OpenContainer(p, "array")
      [] lex.c = "}" -> CloseContainer(p, "object")
      [] lex.c = "]" -> CloseContainer(p, "array")
      [] lex.c = ":" -> [p EXCEPT !.toksuper = Len(p.toks)]
      [] lex.c = "," -> Comma(p)
      [] lex.c = "string" ->
            Alloc(p, "string", p.pos + 1, p.pos + 1 + Len(lex.text), lex.text)
      [] lex.c = "primitive" ->
            Alloc(p, "primitive", p.pos, p.pos + Len(lex.text), lex.text)

Step(p, lex) == IF p.err # "none" THEN p
                ELSE [Scan(p, lex) EXCEPT !.pos = @ + Width(lex)]

(* A primitive at the end of the text has no end; nor has an open container. *)
CutShort(p, text) == \/ Open(p.toks) # {}
                     \/ text # <<>> /\ text[Len(text)].c = "primitive"

(* The parser after each lexeme, in turn *)
Parsed(text) ==
    LET After[i \in 0..Len(text)] ==
           IF i = 0 THEN ParserInit ELSE Step(After[i - 1], text[i])
    IN After[Len(text)]

(* jp_tokenize(): the tokens, none after an error *)
Tokenize(text) ==
    LET p == Parsed(text)
    IN IF p.err # "none" \/ CutShort(p, text) THEN <<>> ELSE p.toks

-----------------------------------------------------------------------------
(* discord/json_parse.c *)

(* Mutant of JpSkip: the next token, whatever it belongs to. *)
JpSkipOne(toks, i) == i + 1

JpSkip(toks, i) ==
    IF i > Len(toks) THEN Len(toks) + 1
    ELSE Min({j \in (i + 1)..Len(toks) : toks[j].start >= toks[i].end}
                \cup {Len(toks) + 1})

JpTokEq(tok, key) == tok.type = "string" /\ tok.text = key

(* jp_tok_str(): what fits, with its terminating zero *)
JpTokStr(tok, size) ==
    IF Len(tok.text) < size THEN tok.text ELSE SubSeq(tok.text, 1, size - 1)

(* KeyAt[k] is the place of key k; nothing is looked at behind the tokens. *)
JpFind(toks, obj, key) ==
    IF obj = 0 \/ obj > Len(toks) \/ toks[obj].type # "object" THEN 0
    ELSE LET n == toks[obj].size
             KeyAt[k \in 1..n] == IF k = 1 THEN obj + 1
                                  ELSE JpSkip(toks, KeyAt[k - 1] + 1)
             Found == {k \in 1..n : /\ KeyAt[k] + 1 <= Len(toks)
                                    /\ JpTokEq(toks[KeyAt[k]], key)}
         IN IF Found = {} THEN 0 ELSE KeyAt[Min(Found)] + 1

JpStr(toks, obj, key, size) ==
    LET v == JpFind(toks, obj, key)
    IN IF v = 0 THEN "" ELSE JpTokStr(toks[v], size)

(* atoi(): 0 for a text that is no number *)
AtoI(text) == IF \E n \in 0..99 : ToString(n) = text
              THEN CHOOSE n \in 0..99 : ToString(n) = text ELSE 0

(* jp_int(): the value, or the default the caller has put into *out *)
JpInt(toks, obj, key, default) ==
    LET v == JpFind(toks, obj, key)
    IN IF v # 0 /\ toks[v].type = "primitive" THEN AtoI(toks[v].text)
       ELSE default

-----------------------------------------------------------------------------
(* The reference for both: a text read by the grammar of JSON into a tree.  *)
(* The nodes are numbered as they come; the kids of an object are its keys, *)
(* and the kid of a key is its value.  The stack has the nodes that are     *)
(* still open, a key whose value is to come among them.                     *)

TreeNode(type, text) == [type |-> type, text |-> text, kids |-> <<>>]

ReaderInit == [tree |-> <<>>, stack |-> <<>>, mode |-> "next"]

Top(r) == IF r.stack = <<>> THEN 0 ELSE r.stack[Len(r.stack)]

Within(r, type) == Top(r) # 0 /\ r.tree[Top(r)].type = type

ValueMayCome(r) ==
    \/ Top(r) = 0 /\ r.mode = "next"
    \/ Within(r, "array") /\ r.mode \in {"first", "next"}
    \/ Within(r, "string") /\ r.mode = "next"

KeyMayCome(r) == Within(r, "object") /\ r.mode \in {"first", "next"}

EndMayCome(r, type) == Within(r, type) /\ r.mode \in {"first", "rest"}

WithNode(r, type, text) ==
    Append(IF Top(r) = 0 THEN r.tree
           ELSE [r.tree EXCEPT ![Top(r)].kids = Append(@, Len(r.tree) + 1)],
           TreeNode(type, text))

Opened(r, type, text, mode) ==
    [tree |-> WithNode(r, type, text), mode |-> mode,
     stack |-> Append(r.stack, Len(r.tree) + 1)]

(* A value is over, and with it the key it belongs to. *)
Over(r) == [r EXCEPT !.mode = "rest",
                     !.stack = IF Within(r, "string") THEN Front(@) ELSE @]

Reads(r, lex) ==
    CASE lex.c = "{" /\ ValueMayCome(r) -> Opened(r, "object", "", "first")
      [] lex.c = "[" /\ ValueMayCome(r) -> Opened(r, "array", "", "first")
      [] lex.c \in {"string", "primitive"} /\ ValueMayCome(r) ->
            Over([r EXCEPT !.tree = WithNode(r, lex.c, lex.text)])
      [] lex.c = "string" /\ KeyMayCome(r) ->
            Opened(r, "string", lex.text, "colon")
      [] lex.c = ":" /\ r.mode = "colon" -> [r EXCEPT !.mode = "next"]
      [] lex.c = "," /\ r.mode = "rest" /\ Top(r) # 0 ->
            [r EXCEPT !.mode = "next"]
      [] lex.c = "}" /\ EndMayCome(r, "object") ->
            Over([r EXCEPT !.stack = Front(@)])
      [] lex.c = "]" /\ EndMayCome(r, "array") ->
            Over([r EXCEPT !.stack = Front(@)])
      [] OTHER -> [r EXCEPT !.mode = "bad"]

Read(text) ==
    LET After[i \in 0..Len(text)] ==
           IF i = 0 THEN ReaderInit ELSE Reads(After[i - 1], text[i])
    IN After[Len(text)]

WellFormed(text) == Read(text).mode = "rest" /\ Read(text).stack = <<>>

(* The value of the first member of that name, of the object itself. *)
ValueOf(tree, obj, key) ==
    LET kids  == tree[obj].kids
        Named == {k \in DOMAIN kids : tree[kids[k]].text = key}
    IN IF Named = {} THEN 0 ELSE tree[kids[Min(Named)]].kids[1]

(* jsmn_parse() and jp_find() read a text as the grammar does. *)
ReadAlike(text, keys) ==
    LET toks == Tokenize(text)
        tree == Read(text).tree
    IN WellFormed(text) /\ toks # <<>> =>
          /\ Len(toks) = Len(tree)
          /\ \A i \in DOMAIN toks :
                /\ toks[i].type = tree[i].type /\ toks[i].text = tree[i].text
                /\ toks[i].size = Len(tree[i].kids)
                /\ toks[i].type = "object" =>
                      \A key \in keys :
                         JpFind(toks, i, key) = ValueOf(tree, i, key)
=============================================================================
