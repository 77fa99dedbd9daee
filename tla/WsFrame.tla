------------------------------ MODULE WsFrame ------------------------------
(***************************************************************************)
(* The bytes of a frame in codexmsg/ws.go: the header that writeFrame      *)
(* builds and readFrame takes apart, and the masking of the payload.  A    *)
(* header is a sequence of byte values.  A payload counts by its length;   *)
(* for masking, a byte is one bit, since exclusive or works bit by bit.    *)
(***************************************************************************)
EXTENDS Naturals, Sequences

CONSTANT MaxFrame   \* maxFrame: the longest payload readFrame takes

\* Bound: a length is below 2^31.
ASSUME CapInRange == MaxFrame \in Nat \ {0} /\ MaxFrame < 2147483647

\* The byte of n at a place, and what n becomes with one more byte.
Byte(n, place) == (n \div place) % 256
Shift(n, byte) == n * 256 + byte

\* Uint16 and Uint64 of the bytes from the i-th on.
Uint16(b, i) == Shift(b[i], b[i + 1])
Uint32(n, b, i) ==
    Shift(Shift(Shift(Shift(n, b[i]), b[i + 1]), b[i + 2]), b[i + 3])
Uint64(b, i) == Uint32(Uint32(0, b, i), b, i + 4)

\* PutUint16 and PutUint64 behind the byte that announces them, mask bit set;
\* the first four of eight bytes are zero.
Short(n) == <<128 + 126, Byte(n, 256), Byte(n, 1)>>
Long(n) == <<128 + 127, 0, 0, 0, 0, Byte(n, 16777216), Byte(n, 65536),
             Byte(n, 256), Byte(n, 1)>>

\* Mutant: 126 itself is written as a seven-bit length.
Shortest126(n) ==
    IF n <= 126 THEN <<128 + n>> ELSE IF n <= 65535 THEN Short(n) ELSE Long(n)

\* The second byte of a header and the length that follows it.
LengthBytes(n) ==
    IF n < 126 THEN <<128 + n>> ELSE IF n <= 65535 THEN Short(n) ELSE Long(n)

\* The header of a frame of n bytes: FIN set, masked.
Header(op, n, mask) == <<128 + op>> \o LengthBytes(n) \o mask

\* b ^ mask[i%4] for every byte.
Masked(payload, mask) ==
    [i \in 1..Len(payload) |-> (payload[i] + mask[1 + ((i - 1) % 4)]) % 2]

\* How many bytes of length follow the second byte of a header.
Extension(second) == CASE second % 128 = 126 -> 2
                       [] second % 128 = 127 -> 8
                       [] second % 128 < 126 -> 0

\* What readFrame makes of the bytes up to the payload: an error if they end
\* too early or announce more than maxFrame.
ReadHeader(bytes) ==
    IF Len(bytes) < 2 THEN [ok |-> FALSE]
    ELSE LET ext == Extension(bytes[2])
             masked == bytes[2] >= 128
             end == 2 + ext + (IF masked THEN 4 ELSE 0)
             n == CASE ext = 0 -> bytes[2] % 128
                    [] ext = 2 -> Uint16(bytes, 3)
                    [] ext = 8 -> Uint64(bytes, 3)
         IN IF Len(bytes) < 2 + ext \/ n > MaxFrame \/ Len(bytes) < end
            THEN [ok |-> FALSE]
            ELSE [ok |-> TRUE, fin |-> bytes[1] >= 128, op |-> bytes[1] % 16,
                  length |-> n, mask |-> SubSeq(bytes, 3 + ext, end)]

-----------------------------------------------------------------------------
(* The round trip *)

\* Lengths around the places where the encoding of a length changes.
Boundary == {0, 1, 125, 126, 127, 255, 256, 65535, 65536, 65537,
             MaxFrame - 1, MaxFrame, MaxFrame + 1}

Masks == [1..4 -> 0..1]

\* readFrame reads what writeFrame wrote: the header of a frame of any length
\* up to maxFrame says what went into it, no shorter piece of it is taken for
\* a header, one byte over maxFrame is refused, and masking twice gives the
\* payload back wherever its length falls against the mask's.
RoundTrip ==
    /\ \A n \in Boundary, op \in {1, 8, 10}, mask \in Masks :
         LET h == Header(op, n, mask) IN
         /\ ReadHeader(h) =
              IF n > MaxFrame THEN [ok |-> FALSE]
              ELSE [ok |-> TRUE, fin |-> TRUE, op |-> op, length |-> n,
                    mask |-> mask]
         /\ \A k \in 0..Len(h) - 1 : ~ReadHeader(SubSeq(h, 1, k)).ok
    /\ \A mask \in Masks, k \in 0..5 : \A p \in [1..k -> 0..1] :
         Masked(Masked(p, mask), mask) = p
=============================================================================
