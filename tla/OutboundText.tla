---------------------------- MODULE OutboundText ----------------------------
(***************************************************************************)
(* What sendMessageZaloClaw makes of a text before it goes to Zalo         *)
(* (channel/send.ts, parsing/mention-parser.ts): secrets are redacted, the *)
(* text is cut, markers become styles, and names of members mentions.      *)
(*                                                                         *)
(* A text is a sequence of symbols; a marker is one symbol whatever its    *)
(* length.  While the text is worked on, every symbol carries the place    *)
(* where it was written ("at"), so that what the styles and mentions of    *)
(* the result cover can be compared with what was marked in the source.    *)
(***************************************************************************)
EXTENDS Integers, FiniteSets, Sequences, SequencesExt

CONSTANTS Symbol,    \* the symbols of texts
          Letter,    \* those that are word characters
          MaxText    \* ZALO_MAX_TEXT_LENGTH

ASSUME TextsHaveALimit == MaxText \in Nat \ {0}

(* The markers in the order of the patterns: three stars, two stars, tildes, *)
(* underlines, a backtick, one star.                                        *)
Passes == <<"heavy", "bold", "strike", "under", "tick", "italic">>
Secret == "secret"
Redacted == "[redacted]"
CutOff == "[...]"

ASSUME MarkersAreSymbols == Range(Passes) \cup {Redacted, CutOff} \subseteq Symbol

Places(doc) == {doc[i].at : i \in DOMAIN doc}
Symbols(doc) == [i \in DOMAIN doc |-> doc[i].ch]

-----------------------------------------------------------------------------
Redact(text) == [i \in DOMAIN text |-> IF text[i] = Secret THEN Redacted ELSE text[i]]

Truncate(text) ==
  IF Len(text) > MaxText THEN Append(SubSeq(text, 1, MaxText - 1), CutOff)
  ELSE text

Placed(text) == [i \in DOMAIN text |-> [ch |-> text[i], at |-> i]]

(* The pairs of a marker, left to right, on one line: at least one symbol   *)
(* lies between.  Backticks pair across lines, with none between them.      *)
Take(doc, k, acc, j) ==
  IF doc[j].ch = "newline" /\ k # "tick" THEN [acc EXCEPT !.open = 0]
  ELSE IF doc[j].ch # k THEN acc
  ELSE IF acc.open = 0 \/ (j = acc.open + 1 /\ k = "tick")
  THEN [acc EXCEPT !.open = j]
  ELSE IF j = acc.open + 1 THEN acc
  ELSE [open |-> 0, pairs |-> Append(acc.pairs, <<acc.open, j>>)]

Pairs(doc, k) ==
  LET scan[j \in 0..Len(doc)] ==
        IF j = 0 THEN [open |-> 0, pairs |-> <<>>] ELSE Take(doc, k, scan[j - 1], j)
  IN scan[Len(doc)].pairs

(* A match: what stood before it and between its markers moves to the       *)
(* result.  "of" is kept for the properties: the places between the markers.*)
Move(doc, k, acc, p) ==
  LET before == acc.result \o SubSeq(doc, acc.last + 1, p[1] - 1)
      inner  == SubSeq(doc, p[1] + 1, p[2] - 1)
  IN [result |-> before \o inner,
      last   |-> p[2],
      styles |-> Append(acc.styles, [start |-> Len(before), len |-> Len(inner),
                                     st |-> k, of |-> Places(inner)])]

(* One pattern of markdownToZaloStyles.                                     *)
Styled(acc, k) ==
  LET pairs == Pairs(acc.doc, k)
      moved[i \in 0..Len(pairs)] ==
        IF i = 0 THEN [result |-> <<>>, last |-> 0, styles |-> acc.styles]
        ELSE Move(acc.doc, k, moved[i - 1], pairs[i])
      all == moved[Len(pairs)]
  IN [doc    |-> all.result \o SubSeq(acc.doc, all.last + 1, Len(acc.doc)),
      styles |-> all.styles]

(* The marks of headings at the start of a line go, without a style.        *)
Headings(doc) ==
  {i \in DOMAIN doc : doc[i].ch = "heading"
                      /\ (i = 1 \/ doc[i - 1].ch = "newline")}

Without(doc, gone) ==
  LET kept[i \in 0..Len(doc)] ==
        IF i = 0 THEN <<>>
        ELSE IF i \in gone THEN kept[i - 1] ELSE Append(kept[i - 1], doc[i])
  IN kept[Len(doc)]

MarkdownToZaloStyles(doc) ==
  LET after[i \in 0..Len(Passes)] ==
        IF i = 0 THEN [doc |-> Without(doc, Headings(doc)), styles |-> <<>>]
        ELSE Styled(after[i - 1], Passes[i])
  IN after[Len(Passes)]

-----------------------------------------------------------------------------
(* buildIndex: the names of the members that were loaded; a name that two   *)
(* of them bear resolves to nobody.                                         *)
Bearers(index, name) == {u \in DOMAIN index : index[u] = name}
Unique(index, name) == \E u \in DOMAIN index : Bearers(index, name) = {u}
Names(index) == {index[u] : u \in DOMAIN index}

IsWordChar(doc, i) == i \in DOMAIN doc /\ doc[i].ch \in Letter

(* The names that are written bare from place i, up to a word boundary.     *)
BareNames(doc, i, index) ==
  {n \in Names(index) : /\ Unique(index, n)
                        /\ i + Len(n) - 1 <= Len(doc)
                        /\ Symbols(SubSeq(doc, i, i + Len(n) - 1)) = n
                        /\ ~IsWordChar(doc, i + Len(n))}

Longest(names) == CHOOSE n \in names : \A m \in names : Len(m) <= Len(n)

(* What an @ at place i mentions: the name, the places where it stands, the *)
(* places of the brackets of the form @[Name], and the last place used.     *)
NoMention == [name |-> <<>>, from |-> 0, to |-> 0, strips |-> {}, done |-> 0]

MentionAt(doc, i, index) ==
  LET close == {j \in i + 2 .. Len(doc) : doc[j].ch = "]"}
      end   == CHOOSE j \in close : \A k \in close : j <= k
      inner == Symbols(SubSeq(doc, i + 2, end - 1))
      bare  == BareNames(doc, i + 1, index)
      name  == Longest(bare)
  IN IF IsWordChar(doc, i - 1) THEN NoMention
     ELSE IF /\ i < Len(doc) /\ doc[i + 1].ch = "[" /\ close # {}
             /\ Unique(index, inner)
     THEN [name |-> inner, from |-> i + 2, to |-> end - 1,
           strips |-> {i + 1, end}, done |-> end]
     ELSE IF bare # {}
     THEN [name |-> name, from |-> i + 1, to |-> i + Len(name),
           strips |-> {}, done |-> i + Len(name)]
     ELSE NoMention

(* Bug: a mention is placed where its @ was written.                        *)
MentionedAsWritten(acc, i, doc, index) ==
  LET m == MentionAt(doc, i, index) IN
  IF i <= acc.done THEN acc
  ELSE IF doc[i].ch # "@" \/ m = NoMention
  THEN [acc EXCEPT !.out = Append(@, doc[i])]
  ELSE [out      |-> Append(acc.out, doc[i]) \o SubSeq(doc, m.from, m.to),
        mentions |-> Append(acc.mentions,
                            [pos |-> i - 1, len |-> 1 + Len(m.name),
                             uid |-> CHOOSE u \in Bearers(index, m.name) : TRUE]),
        strips   |-> acc.strips \cup m.strips,
        done     |-> m.done]

(* parseOutboundMentions at place i of the text.                            *)
Mentioned(acc, i, doc, index) ==
  LET m == MentionAt(doc, i, index) IN
  IF i <= acc.done THEN acc
  ELSE IF doc[i].ch # "@" \/ m = NoMention
  THEN [acc EXCEPT !.out = Append(@, doc[i])]
  ELSE [out      |-> Append(acc.out, doc[i]) \o SubSeq(doc, m.from, m.to),
        mentions |-> Append(acc.mentions,
                            [pos |-> Len(acc.out), len |-> 1 + Len(m.name),
                             uid |-> CHOOSE u \in Bearers(index, m.name) : TRUE]),
        strips   |-> acc.strips \cup m.strips,
        done     |-> m.done]

ParseOutboundMentions(doc, index) ==
  LET parsed[i \in 0..Len(doc)] ==
        IF i = 0 THEN [out |-> <<>>, mentions |-> <<>>, strips |-> {}, done |-> 0]
        ELSE Mentioned(parsed[i - 1], i, doc, index)
  IN parsed[Len(doc)]

(* Bug: the closing brackets are not counted.                               *)
CountOpeningStrips(strips, start, doc) ==
  Cardinality({g \in strips : g - 1 < start /\ doc[g].ch = "["})

CountStripsBefore(strips, start, doc) == Cardinality({g \in strips : g - 1 < start})

-----------------------------------------------------------------------------
(* The content that is sent.  The members are known in a group only.        *)
Prepare(text, index) ==
  LET md     == MarkdownToZaloStyles(Placed(Truncate(Redact(text))))
      parsed == ParseOutboundMentions(md.doc, index)
      Align(s) ==
        [s EXCEPT !.start = @ - CountStripsBefore(parsed.strips, @, md.doc)]
  IN [doc      |-> parsed.out,
      styles   |-> [i \in DOMAIN md.styles |-> Align(md.styles[i])],
      mentions |-> parsed.mentions]
=============================================================================
