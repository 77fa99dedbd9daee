------------------------------ MODULE Envelope ------------------------------
(***************************************************************************)
(* The text of a delivery: compose of deliver/deliver.go, and Wrap and     *)
(* Unwrap of udsmsg/attrib.go.  A text is a sequence of tokens, each a     *)
(* piece that one of the patterns in attrib.go or the trailer can tell     *)
(* apart:                                                                  *)
(*   "open", "close"   <cross-session-message and </cross-session-message> *)
(*   "gt" "lt" "quote" "nl" "cc" "sp"   one character each, cc a control   *)
(*   "from=" "from-name=" "from-mode="  the names of the attributes        *)
(*   "[cursor:" "[no cursor" "more" "]" pieces of a trailer                *)
(* and any other token a word.                                             *)
(***************************************************************************)
EXTENDS Naturals, Sequences, FiniteSets

Keys == {"from=", "from-name=", "from-mode="}

\* The first and the last of a set of positions.
First(P) == CHOOSE i \in P : \A j \in P : i <= j
Last(P) == CHOOSE i \in P : \A j \in P : i >= j

-----------------------------------------------------------------------------
(* compose *)

\* The trailer of a delivery; a cursor is a word, or "" for none.
Trailer(d) ==
    (IF d.cursor # "" THEN <<"[cursor:", d.cursor>> ELSE <<"[no cursor">>)
    \o (IF d.more THEN <<"more">> ELSE <<>>) \o <<"]">>

compose(d) ==
    d.body \o (IF d.body # <<>> THEN <<"nl", "nl">> ELSE <<>>) \o Trailer(d)

-----------------------------------------------------------------------------
(* Wrap *)

\* strings.Map: the tokens of s at the positions K, in their order.
Pick(s, K) ==
    [k \in 1..Cardinality(K) |->
       s[CHOOSE i \in K : Cardinality({j \in K : j <= i}) = k]]

\* strings.TrimSpace
Trim(s) ==
    LET kept == {i \in DOMAIN s : s[i] # "sp"} IN
    IF kept = {} THEN <<>> ELSE SubSeq(s, First(kept), Last(kept))

\* Mutant: a double quote stays in the name.
ScrubMarkup(name) ==
    Trim(Pick(name, {i \in DOMAIN name :
                       name[i] \notin {"lt", "gt", "nl", "cc"}}))

\* Names lose brackets, quotes and control characters, then outer spaces.
scrubName(name) ==
    Trim(Pick(name, {i \in DOMAIN name :
                       name[i] \notin {"quote", "lt", "gt", "nl", "cc"}}))

\* fromRe, the shape of a reply address; and the one mode that is asserted.
UsableFrom(from) == IF from = <<"uds:addr">> THEN from ELSE <<>>
UsableMode(mode) == IF mode = <<"prompting">> THEN mode ELSE <<>>

\* One attribute, left out when it is empty.
Attr(k, value) ==
    IF value = <<>> THEN <<>>
    ELSE <<"sp", k, "quote">> \o value \o <<"quote">>

Wrap(cs, text) ==
    <<"open">> \o Attr("from=", UsableFrom(cs.from))
    \o Attr("from-name=", scrubName(cs.name))
    \o Attr("from-mode=", UsableMode(cs.mode))
    \o <<"gt", "nl">> \o text \o <<"nl", "close">>

-----------------------------------------------------------------------------
(* Unwrap *)

\* Where the open tag ends: at the first ">".
TagEnd(s) ==
    First({i \in DOMAIN s : s[i] \in {"gt", "close"}} \cup {Len(s) + 1})

\* The tokens that begin with no letter: \b is between a name and one of them.
Breaks == {"gt", "lt", "quote", "nl", "cc", "sp", "open", "close", "[cursor:",
           "[no cursor", "]"}

\* wrapperRe: the element spans the whole content.
Matches(s) ==
    LET g == TagEnd(s) IN
    /\ Len(s) >= g + 3 /\ s[1] = "open" /\ s[2] \in Breaks
    /\ s[g + 1] = "nl" /\ s[Len(s) - 1] = "nl" /\ s[Len(s)] = "close"

\* Where attrRe can match, and where such a match ends.
Closing(tag, i) == {j \in i + 2..Len(tag) : tag[j] = "quote"}
Starts(tag) ==
    {i \in 1..Len(tag) - 2 : /\ tag[i] \in Keys /\ tag[i + 1] = "quote"
                            /\ Closing(tag, i) # {}}
MatchEnd(tag, i) == First(Closing(tag, i))

\* FindAll: the matches from the left, each after the end of the last one.
Apart(tag, M) ==
    \A i \in Starts(tag) :
       i \in M <=> \A j \in M : j < i => MatchEnd(tag, j) < i
Found(tag) == CHOOSE M \in SUBSET Starts(tag) : Apart(tag, M)

\* What the tag says of each attribute; of two with one name the last counts.
Attributes(tag) ==
    [k \in Keys |->
       LET of == {i \in Found(tag) : tag[i] = k}
       IN IF of = {} THEN <<>>
          ELSE SubSeq(tag, Last(of) + 2, MatchEnd(tag, Last(of)) - 1)]

NoOne == [from |-> <<>>, name |-> <<>>, mode |-> <<>>]

Unwrap(s) ==
    IF ~Matches(s) THEN [cs |-> NoOne, body |-> s, ok |-> FALSE]
    ELSE LET g == TagEnd(s)
             a == Attributes(SubSeq(s, 2, g - 1))
         IN [cs |-> [from |-> a["from="], name |-> a["from-name="],
                     mode |-> a["from-mode="]],
             body |-> SubSeq(s, g + 2, Len(s) - 2), ok |-> TRUE]

-----------------------------------------------------------------------------
(* The round trip *)

SeqUpTo(S, n) == UNION {[1..k -> S] : k \in 0..n}

\* Names, and bodies that may quote an envelope or a trailer.
Names == SeqUpTo({"w", "sp", "quote", "lt", "gt", "nl", "from="}, 3)
Bodies == SeqUpTo({"w", "nl", "open", "gt", "close", "]"}, 2)
          \cup {<<"[cursor:", "c2", "]">>, <<"open", "gt", "nl", "w">>,
                <<"w", "nl", "close">>,
                <<"open", "sp", "from=", "quote", "w", "quote", "gt", "nl">>}
Deliveries == [body : Bodies, cursor : {"", "c1"}, more : BOOLEAN]
Senders == [from : {<<>>, <<"uds:addr">>, <<"other">>}, name : {<<"w">>},
            mode : {<<>>, <<"prompting">>, <<"auto">>}]
           \cup [from : {<<>>, <<"uds:addr">>}, name : Names,
                 mode : {<<"prompting">>}]

\* The trailer that a text ends with, from its last opening bracket on.
LastTrailer(s) ==
    SubSeq(s, Last({i \in DOMAIN s : s[i] \in {"[cursor:", "[no cursor"}}),
           Len(s))

\* What a session unwraps is what was delivered: the body as it was composed,
\* ending with the trailer of this delivery whatever the body quotes; the
\* sender's name without what would break the element; address and mode as
\* given, or absent, and never out of the name or the body.  One envelope
\* inside a larger text is no attribution.
RoundTrip ==
    \A cs \in Senders :
      LET clean == [from |-> UsableFrom(cs.from), mode |-> UsableMode(cs.mode),
                    name |-> Trim(Pick(cs.name, {i \in DOMAIN cs.name :
                                    cs.name[i] \in {"w", "sp", "from="}}))]
          few == {d \in Deliveries : cs.name = <<"w">> \/ ~d.more}
      IN \A d \in few :
           LET sent == Wrap(cs, compose(d))
               seen == Unwrap(sent)
           IN /\ seen = [cs |-> clean, body |-> compose(d), ok |-> TRUE]
              /\ LastTrailer(seen.body) = Trailer(d)
              /\ ~Unwrap(<<"w">> \o sent).ok /\ ~Unwrap(sent \o <<"w">>).ok
=============================================================================
