----------------------------- MODULE MCOutbound -----------------------------
(***************************************************************************)
(* A small instance of Outbound: two members who may come to bear the same *)
(* name, one of whose names begins the other's, two groups and room for    *)
(* one in the cache, and the texts in which markers, mentions and the      *)
(* limit of the length meet.                                               *)
(***************************************************************************)
EXTENDS Outbound

CONSTANTS g1, g2, direct, u1, u2

MCUser == {u1, u2}
An == <<"a", "n">>
MCName == {<<"a">>, An \o <<" ">> \o <<"b">>}
MCLetter == {"a", "n", "b"}
MCSymbol == MCLetter \cup {" ", "@", "[", "]", "x", "heading", "newline", Secret}
            \cup Range(Passes) \cup {Redacted, CutOff}
MCPermitted == {<<g1, TRUE>>, <<g2, TRUE>>, <<direct, FALSE>>}

MCText ==
  {<<"@", "[", "a", "]", "bold", "@", "a", "bold">>,
   <<"bold", "x", "bold", "@", "[", "a", "n", " ", "b", "]">>,
   <<"@", "a", " ", "bold", "@", "a", "bold", "italic">>,
   <<"heading", "a", "italic", "@", "[", "b", "]", "n", "italic">>,
   <<"bold", "a", "newline", "@", "[", "a", "]", "bold", "x", "bold">>,
   <<"secret", "bold", "a", "@", "a", "bold", "tick", "tick", "a", "tick", "@">>}

Req(a, given, t, isGroup, text) ==
  [action |-> a, given |-> given, thread |-> t, isGroup |-> isGroup, text |-> text]

MCRequest ==
  {Req("send", {"thread", "text"}, g1, TRUE, t) : t \in MCText}
  \cup {Req("messages", {"thread", "text"}, g2, TRUE, <<"@", "a">>),
        Req("messages", {"thread", "text"}, direct, TRUE, <<"a">>),
        Req("reply-message", {"thread", "text"}, direct, FALSE, <<"@", "a">>),
        Req("send-image", {"thread", "attachment"}, direct, FALSE, <<>>),
        Req("send-image", {"thread", "attachment"}, g1, FALSE, <<>>),
        Req("send-video", {"thread", "video"}, g1, TRUE, <<>>),
        Req("mark-read", {"thread"}, g1, TRUE, <<>>),
        Req("get-group-info", {"thread"}, direct, TRUE, <<>>),
        Req("get-group-members", {"thread"}, g1, TRUE, <<>>),
        Req("send-sms", {"thread", "text"}, g1, TRUE, <<>>)}
=============================================================================
