------------------------------ MODULE LineCap ------------------------------
(***************************************************************************)
(* The size of a delivery to a Claude Code session, from deliver/claude.go *)
(* and udsmsg/client.go: the text that compose makes, the line it becomes  *)
(* and the three limits on it.  A text counts by its bytes, apart by how   *)
(* far JSON inflates them: not at all, twofold (quotes, newlines) or       *)
(* sixfold (<, >, & and other control characters).                         *)
(***************************************************************************)
EXTENDS Naturals

CONSTANTS
    MaxLineBytes,       \* the cap on a line, newline included
    claudeOverhead,     \* what is reserved of it
    worstCaseEscape     \* how far a byte may be inflated

\* What is reserved holds an element with a full address and a short name, and
\* no byte is inflated further than worstCaseEscape.
ASSUME CapsSensible ==
    /\ MaxLineBytes \in Nat /\ claudeOverhead \in 530..MaxLineBytes
    /\ worstCaseEscape \in Nat /\ worstCaseEscape >= 6

Bytes(t) == t.one + t.two + t.six
Encoded(t) == t.one + 2 * t.two + 6 * t.six

\* compose: the body, two newlines and the trailer, whose cursor is plain.
ComposedText(d) ==
    [one |-> d.body.one + (IF d.cursor > 0 THEN 10 + d.cursor ELSE 46)
                        + (IF d.more THEN 45 ELSE 0),
     two |-> d.body.two + (IF Bytes(d.body) > 0 THEN 2 ELSE 0),
     six |-> d.body.six]

\* Mutant: twofold is taken for the worst case.
IntactTwofold == (MaxLineBytes - claudeOverhead) \div 2

MaxIntactBytes == (MaxLineBytes - claudeOverhead) \div worstCaseEscape

\* The line BuildUserFrame and encodeFrame make of a text: the frame, the
\* element of Wrap around the text, and what address, name and mode add to
\* both.  Address and name count by their encoded length; the frame carries
\* the mode as well if fromMode says so.
LineSize(text, cs, fromMode) ==
    130 + 71 + Encoded(text)
    + (IF cs.from > 0 THEN 2 * (10 + cs.from) ELSE 0)
    + (IF cs.name > 0 THEN 15 + cs.name ELSE 0)
    + (IF cs.mode THEN 24 ELSE 0) + (IF fromMode THEN 24 ELSE 0)

\* Deliver's refusal, the one of encodeFrame after it, and what Fits says.
DeliverRefuses(d) == Bytes(ComposedText(d)) > MaxIntactBytes
EncodeRefuses(d, cs) == LineSize(ComposedText(d), cs, cs.mode) > MaxLineBytes
Fits(d, cs) == LineSize(ComposedText(d), cs, FALSE) <= MaxLineBytes

-----------------------------------------------------------------------------
(* The floor *)

\* Bodies around the floor, of each kind of content and of two kinds.
Around ==
    {0, 1} \cup ((MaxIntactBytes - 110..MaxIntactBytes + 1) \cap Nat)
EdgeBodies ==
    UNION {{[one |-> n, two |-> 0, six |-> 0],
            [one |-> 0, two |-> n, six |-> 0],
            [one |-> 0, two |-> 0, six |-> n],
            [one |-> 0, two |-> n \div 2, six |-> n - n \div 2]} : n \in Around}
EdgeDeliveries == [body : EdgeBodies, cursor : {0, 1, 40}, more : BOOLEAN]

\* Senders whose name, with everything else that goes into the line, keeps
\* within what is reserved.
EdgeSenders == [from : {0, 111}, name : {0, 20, claudeOverhead - 510},
                mode : BOOLEAN]

\* A message that Deliver does not refuse becomes a line within the cap,
\* whatever it is made of, and Fits says so too: no message passes the floor
\* and then costs the connection.
Floor ==
    \A d \in EdgeDeliveries, cs \in EdgeSenders :
       ~DeliverRefuses(d) => ~EncodeRefuses(d, cs) /\ Fits(d, cs)
=============================================================================
