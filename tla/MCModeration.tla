----------------------------- MODULE MCModeration -----------------------------
(* Instances of Moderation for TLC: what users write, and settings.        *)
EXTENDS Moderation

Text(author, mentions, text) ==
    [author |-> author, fits |-> TRUE, mentions |-> mentions, text |-> text]

(* Mention spam, seen and too large to be seen; link spam; a keyword, with a *)
(* blank behind it, after the cut, and in a message of the system.           *)
SomeTalk ==
    { Text("ann", 2, <<>>), [Text("ann", 9, <<>>) EXCEPT !.fits = FALSE],
      Text("ann", 0, <<"http", "raid", "http", "http">>),
      Text("ann", 0, <<"scam", " ", "x">>),
      Text("ann", 0, <<"http", "http", " ", "x", "scam">>),
      Text(Nobody, 0, <<"scam">>) }

SomeReason == <<"raid">>

Settings(mentions, links, keywords, log_channel) ==
    [mention_thresh |-> mentions, link_thresh |-> links, keywords |-> keywords,
     log_channel |-> log_channel]

(* Lists with a blank before or behind a comma, an empty field, a field of  *)
(* one blank, and more fields than there is room for.                       *)
SomeSettings ==
    { Settings(5, 3, <<<<"raid", " ">>, <<>>, <<" ", "scam">>>>, TRUE),
      Settings(2, 2, <<>>, TRUE),
      Settings(1, 3, <<>>, TRUE),
      Settings(5, 3, <<<<"raid">>, <<" ">>>>, TRUE),
      Settings(5, 3, <<<<"raid">>, <<"scam">>, <<"spam">>, <<"x">>>>, FALSE) }
=============================================================================
