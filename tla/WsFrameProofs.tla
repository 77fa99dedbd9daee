--------------------------- MODULE WsFrameProofs ---------------------------
(***************************************************************************)
(* Proofs about WsFrame, for every cap, every length below 2^31 and every  *)
(* payload.  The leaves name SMT where numbers are large: the other prover *)
(* counts in successors.                                                   *)
(***************************************************************************)
EXTENDS WsFrame, SequenceTheorems, TLAPS

Lengths == {n \in Nat : n < 2147483648}
Opcodes == {n \in Nat : n < 16}

\* Two bytes hold what fits sixteen bits, eight what fits thirty-one.
LEMMA BytesHold ==
    ASSUME NEW n \in Lengths
    PROVE  /\ n <= 65535 => Byte(n, 256) * 256 + Byte(n, 1) = n
           /\ ((Byte(n, 16777216) * 256 + Byte(n, 65536)) * 256
                 + Byte(n, 256)) * 256 + Byte(n, 1) = n
           /\ Byte(n, 256) \in Nat /\ Byte(n, 1) \in Nat
           /\ Byte(n, 65536) \in Nat /\ Byte(n, 16777216) \in Nat
  BY SMT DEF Byte, Lengths

\* The length of a frame as readFrame computes it, from the byte that says how
\* it is written and the bytes after it.
ReadLength(b) ==
    CASE Extension(b[1]) = 0 -> b[1] % 128
      [] Extension(b[1]) = 2 -> Uint16(b, 2)
      [] Extension(b[1]) = 8 -> Uint64(b, 2)

\* What LengthBytes writes, ReadLength reads.
LEMMA LengthFacts ==
    ASSUME NEW n \in Lengths
    PROVE  /\ LengthBytes(n) \in Seq(Nat)
           /\ LengthBytes(n)[1] \in Nat /\ LengthBytes(n)[1] >= 128
           /\ Extension(LengthBytes(n)[1]) \in {0, 2, 8}
           /\ Len(LengthBytes(n)) = 1 + Extension(LengthBytes(n)[1])
           /\ ReadLength(LengthBytes(n)) = n
  <1>0. n \in Nat
    BY SMT DEF Lengths
  <1>1. CASE n < 126
    <2>1. LengthBytes(n) = <<128 + n>>
      BY <1>1, SMT DEF LengthBytes
    <2>2. (128 + n) % 128 = n
      BY <1>0, <1>1, SMT
    <2>3. Extension(128 + n) = 0
      BY <1>0, <1>1, <2>2, SMT DEF Extension
    <2> QED
      BY <1>0, <2>1, <2>2, <2>3, SMT DEF ReadLength
  <1>2. CASE n >= 126 /\ n <= 65535
    <2>1. LengthBytes(n) = Short(n)
      BY <1>0, <1>2, SMT DEF LengthBytes
    <2>2. Extension(254) = 2
      BY SMT DEF Extension
    <2>3. /\ Short(n)[1] = 254 /\ Short(n)[2] = Byte(n, 256)
          /\ Short(n)[3] = Byte(n, 1) /\ Len(Short(n)) = 3
      BY SMT DEF Short
    <2>4. Short(n) \in Seq(Nat)
      BY BytesHold, SMT DEF Short
    <2>5. Uint16(Short(n), 2) = n
      BY <1>2, <2>3, BytesHold, SMT DEF Uint16, Shift
    <2> QED
      BY <2>1, <2>2, <2>3, <2>4, <2>5, SMT DEF ReadLength
  <1>3. CASE n > 65535
    <2>1. LengthBytes(n) = Long(n)
      BY <1>0, <1>3, SMT DEF LengthBytes
    <2>2. Extension(255) = 8
      BY SMT DEF Extension
    <2>3. /\ Long(n)[1] = 255 /\ Long(n)[2] = 0 /\ Long(n)[3] = 0
          /\ Long(n)[4] = 0 /\ Long(n)[5] = 0
          /\ Long(n)[6] = Byte(n, 16777216) /\ Long(n)[7] = Byte(n, 65536)
          /\ Long(n)[8] = Byte(n, 256) /\ Long(n)[9] = Byte(n, 1)
          /\ Len(Long(n)) = 9
      BY SMT DEF Long
    <2>4. Long(n) \in Seq(Nat)
      BY BytesHold, SMT DEF Long
    <2>5. Uint64(Long(n), 2) = n
      BY <2>3, BytesHold, SMT DEF Uint64, Uint32, Shift
    <2> QED
      BY <2>1, <2>2, <2>3, <2>4, <2>5, SMT DEF ReadLength
  <1> QED
    BY <1>0, <1>1, <1>2, <1>3, SMT

\* A mask is four bytes.
LEMMA MaskFacts ==
    ASSUME NEW mask \in Masks
    PROVE  /\ mask \in Seq(Nat) /\ Len(mask) = 4
           /\ \A i \in 1..4 : mask[i] \in {0, 1}
  <1>1. mask = [i \in 1..4 |-> mask[i]]
    BY DEF Masks
  <1>2. \A i \in 1..4 : mask[i] \in {0, 1}
    BY DEF Masks
  <1>3. [i \in 1..4 |-> mask[i]] \in Seq(Nat)
    BY <1>2
  <1>4. Len([i \in 1..4 |-> mask[i]]) = 4
    OBVIOUS
  <1> QED
    BY <1>1, <1>2, <1>3, <1>4

\* A header is one byte, the bytes of the length and the mask.
LEMMA HeaderFacts ==
    ASSUME NEW n \in Lengths, NEW op \in Opcodes, NEW mask \in Masks
    PROVE  LET h == Header(op, n, mask)
               ext == Extension(LengthBytes(n)[1])
           IN /\ h \in Seq(Nat) /\ Len(h) = 6 + ext
              /\ h[1] = 128 + op
              /\ \A i \in 1..1 + ext : h[i + 1] = LengthBytes(n)[i]
              /\ SubSeq(h, 3 + ext, 6 + ext) = mask
  <1> DEFINE L == LengthBytes(n)
             ext == Extension(L[1])
             h == Header(op, n, mask)
  <1>1. L \in Seq(Nat) /\ ext \in {0, 2, 8} /\ Len(L) = 1 + ext
    BY LengthFacts
  <1>2. mask \in Seq(Nat) /\ Len(mask) = 4
    BY MaskFacts
  <1>3. 128 + op \in Nat
    BY SMT DEF Opcodes
  <1> HIDE DEF L, ext
  <1>4. PICK b \in Nat : b = 128 + op
    BY <1>3
  <1>5. PICK g : g = <<b>> \o L
    OBVIOUS
  <1>6. /\ g \in Seq(Nat) /\ Len(g) = 2 + ext /\ g[1] = b
        /\ \A i \in 1..1 + ext : g[i + 1] = L[i]
    <2>1. <<b>> \in Seq(Nat) /\ Len(<<b>>) = 1 /\ <<b>>[1] = b
      OBVIOUS
    <2> QED
      BY <1>1, <1>5, <2>1
  <1>7. h = g \o mask
    BY <1>4, <1>5 DEF Header, L
  <1> HIDE DEF h
  <1>8. /\ h \in Seq(Nat) /\ Len(h) = 6 + ext /\ h[1] = b
        /\ \A i \in 1..1 + ext : h[i + 1] = g[i + 1]
        /\ \A i \in 1..4 : h[2 + ext + i] = mask[i]
    <2>1. /\ h \in Seq(Nat) /\ Len(h) = Len(g) + Len(mask)
          /\ \A i \in 1..Len(g) + Len(mask) :
               h[i] = IF i <= Len(g) THEN g[i] ELSE mask[i - Len(g)]
      BY <1>2, <1>6, <1>7, ConcatProperties
    <2>2. Len(h) = 6 + ext /\ h[1] = g[1]
      BY <1>1, <1>2, <1>6, <2>1
    <2>3. \A i \in 1..1 + ext : h[i + 1] = g[i + 1]
      BY <1>1, <1>2, <1>6, <2>1
    <2>4. \A i \in 1..4 : h[2 + ext + i] = mask[i]
      <3> SUFFICES ASSUME NEW i \in 1..4 PROVE h[2 + ext + i] = mask[i]
        OBVIOUS
      <3>1. PICK j : j = 2 + ext + i
        OBVIOUS
      <3>2. j \in 1..Len(g) + Len(mask) /\ ~(j <= Len(g)) /\ j - Len(g) = i
        BY <1>1, <1>2, <1>6, <3>1
      <3>3. h[j] = mask[j - Len(g)]
        BY <2>1, <3>2
      <3> QED
        BY <3>1, <3>2, <3>3
    <2> QED
      BY <1>6, <2>1, <2>2, <2>3, <2>4
  <1>9. SubSeq(h, 3 + ext, 6 + ext) = mask
    <2>1. \A i \in 3 + ext..6 + ext : h[i] \in Nat
      BY <1>1, <1>8
    <2>2. PICK s : s = SubSeq(h, 3 + ext, 6 + ext)
      OBVIOUS
    <2>3. /\ s \in Seq(Nat) /\ Len(s) = 4
          /\ \A i \in 1..4 : s[i] = h[2 + ext + i]
      BY <1>1, <2>1, <2>2, SubSeqProperties
    <2>4. Len(s) = Len(mask) /\ \A i \in 1..Len(s) : s[i] = mask[i]
      BY <1>2, <1>8, <2>3
    <2>5. s = mask
      BY <1>2, <2>3, <2>4, SeqEqual
    <2> QED
      BY <2>2, <2>5
  <1> QED
    BY <1>4, <1>6, <1>8, <1>9 DEF h, ext, L

\* The length as ReadHeader finds it in the bytes of a header.
Announced(bytes) ==
    CASE Extension(bytes[2]) = 0 -> bytes[2] % 128
      [] Extension(bytes[2]) = 2 -> Uint16(bytes, 3)
      [] Extension(bytes[2]) = 8 -> Uint64(bytes, 3)

\* What ReadHeader does with two bytes or more of which the second has the
\* mask bit.
LEMMA ReadMasked ==
    ASSUME NEW bytes, Len(bytes) \in Nat, Len(bytes) >= 2,
           bytes[2] \in Nat, bytes[2] >= 128,
           NEW ext \in Nat, ext = Extension(bytes[2])
    PROVE  ReadHeader(bytes) =
             IF Len(bytes) < 2 + ext \/ Announced(bytes) > MaxFrame
                \/ Len(bytes) < 6 + ext
             THEN [ok |-> FALSE]
             ELSE [ok |-> TRUE, fin |-> bytes[1] >= 128,
                   op |-> bytes[1] % 16, length |-> Announced(bytes),
                   mask |-> SubSeq(bytes, 3 + ext, 6 + ext)]
  <1> DEFINE end == 2 + ext + (IF bytes[2] >= 128 THEN 4 ELSE 0)
  <1>1. ~(Len(bytes) < 2) /\ end = 6 + ext
    OBVIOUS
  <1>2. ReadHeader(bytes) =
          IF Len(bytes) < 2 + ext \/ Announced(bytes) > MaxFrame
             \/ Len(bytes) < end
          THEN [ok |-> FALSE]
          ELSE [ok |-> TRUE, fin |-> bytes[1] >= 128,
                op |-> bytes[1] % 16, length |-> Announced(bytes),
                mask |-> SubSeq(bytes, 3 + ext, end)]
    BY <1>1, Zenon DEF ReadHeader, Announced
  <1> HIDE DEF end
  <1> QED
    BY <1>1, <1>2, Zenon

\* readFrame reads from the header of writeFrame, whatever the length, what
\* went into it, and refuses a length over maxFrame.
THEOREM HeaderReadsBack ==
    \A n \in Lengths, op \in Opcodes, mask \in Masks :
       ReadHeader(Header(op, n, mask)) =
         IF n > MaxFrame THEN [ok |-> FALSE]
         ELSE [ok |-> TRUE, fin |-> TRUE, op |-> op, length |-> n,
               mask |-> mask]
  <1> SUFFICES ASSUME NEW n \in Lengths, NEW op \in Opcodes, NEW mask \in Masks
               PROVE  ReadHeader(Header(op, n, mask)) =
                        IF n > MaxFrame THEN [ok |-> FALSE]
                        ELSE [ok |-> TRUE, fin |-> TRUE, op |-> op,
                              length |-> n, mask |-> mask]
    OBVIOUS
  <1>1. PICK L, ext, h : /\ L = LengthBytes(n) /\ ext = Extension(L[1])
                         /\ h = Header(op, n, mask)
    OBVIOUS
  <1>2. /\ h \in Seq(Nat) /\ Len(h) = 6 + ext /\ h[1] = 128 + op
        /\ \A i \in 1..1 + ext : h[i + 1] = L[i]
        /\ SubSeq(h, 3 + ext, 6 + ext) = mask
    BY <1>1, HeaderFacts
  <1>3. /\ L \in Seq(Nat) /\ L[1] \in Nat /\ L[1] >= 128
        /\ ext \in {0, 2, 8} /\ Len(L) = 1 + ext /\ ReadLength(L) = n
    BY <1>1, LengthFacts
  <1>4. h[2] = L[1]
    BY <1>2, <1>3
  <1>5. op \in Nat /\ (128 + op) % 16 = op /\ 128 + op >= 128
    BY SMT DEF Opcodes
  <1>6. Announced(h) = n
    <2>1. CASE ext = 0
      BY <1>1, <1>3, <1>4, <2>1, SMT DEF ReadLength, Announced
    <2>2. CASE ext = 2
      <3>1. h[3] = L[2] /\ h[4] = L[3]
        BY <1>2, <2>2
      <3>2. Uint16(h, 3) = Uint16(L, 2)
        BY <3>1, SMT DEF Uint16
      <3> QED
        BY <1>1, <1>3, <1>4, <2>2, <3>2, SMT DEF ReadLength, Announced
    <2>3. CASE ext = 8
      <3>1. /\ h[3] = L[2] /\ h[4] = L[3] /\ h[5] = L[4] /\ h[6] = L[5]
            /\ h[7] = L[6] /\ h[8] = L[7] /\ h[9] = L[8] /\ h[10] = L[9]
        BY <1>2, <2>3
      <3>2. Uint64(h, 3) = Uint64(L, 2)
        BY <3>1, SMT DEF Uint64, Uint32
      <3> QED
        BY <1>1, <1>3, <1>4, <2>3, <3>2, SMT DEF ReadLength, Announced
    <2> QED
      BY <1>3, <2>1, <2>2, <2>3
  <1>7. Len(h) \in Nat /\ Len(h) >= 2 /\ h[2] \in Nat /\ h[2] >= 128
    BY <1>2, <1>3, <1>4
  <1>8. /\ ext \in Nat /\ ext = Extension(h[2])
        /\ ~(Len(h) < 2 + ext) /\ ~(Len(h) < 6 + ext)
    <2>1. ext = Extension(h[2])
      BY <1>1, <1>4
    <2>2. ext \in Nat /\ Len(h) = 6 + ext
      BY <1>2, <1>3
    <2>3. ~(Len(h) < 2 + ext) /\ ~(Len(h) < 6 + ext)
      BY <2>2
    <2> QED
      BY <2>1, <2>2, <2>3
  <1>9. ReadHeader(h) =
          IF n > MaxFrame THEN [ok |-> FALSE]
          ELSE [ok |-> TRUE, fin |-> h[1] >= 128, op |-> h[1] % 16,
                length |-> n, mask |-> mask]
    BY <1>2, <1>6, <1>7, <1>8, ReadMasked
  <1>10. (h[1] >= 128) = TRUE /\ h[1] % 16 = op
    BY <1>2, <1>5
  <1> QED
    BY <1>1, <1>9, <1>10

\* No piece of a header that ends early is taken for a header.
THEOREM HeaderIsNeeded ==
    \A n \in Lengths, op \in Opcodes, mask \in Masks :
       LET h == Header(op, n, mask) IN
       \A k \in 0..Len(h) - 1 : ~ReadHeader(SubSeq(h, 1, k)).ok
  <1> SUFFICES ASSUME NEW n \in Lengths, NEW op \in Opcodes, NEW mask \in Masks,
                      NEW k \in 0..Len(Header(op, n, mask)) - 1
               PROVE  ~ReadHeader(SubSeq(Header(op, n, mask), 1, k)).ok
    OBVIOUS
  <1>1. PICK L, ext, h : /\ L = LengthBytes(n) /\ ext = Extension(L[1])
                         /\ h = Header(op, n, mask)
    OBVIOUS
  <1>2. /\ h \in Seq(Nat) /\ Len(h) = 6 + ext
        /\ \A i \in 1..1 + ext : h[i + 1] = L[i]
    BY <1>1, HeaderFacts
  <1>3. L[1] \in Nat /\ L[1] >= 128 /\ ext \in {0, 2, 8}
    BY <1>1, LengthFacts
  <1>4. h[2] = L[1] /\ ext \in Nat
    BY <1>2, <1>3
  <1>5. k \in Nat /\ k < 6 + ext
    BY <1>1, <1>2, <1>4
  <1>6. PICK p : p = SubSeq(h, 1, k)
    OBVIOUS
  <1>7. Len(p) = k /\ \A i \in 1..k : p[i] = h[i]
    <2>1. \A i \in 1..k : h[i] \in Nat
      BY <1>2, <1>4, <1>5
    <2> QED
      BY <1>5, <1>6, <2>1, SubSeqProperties
  <1>8. CASE k < 2
    <2>1. ReadHeader(p) = [ok |-> FALSE]
      BY <1>7, <1>8, Zenon DEF ReadHeader
    <2> QED
      BY <1>1, <1>6, <2>1
  <1>9. CASE k >= 2
    <2>1. p[2] = h[2]
      BY <1>5, <1>7, <1>9
    <2>2. Extension(p[2]) = ext /\ p[2] \in Nat /\ p[2] >= 128
      BY <1>1, <1>3, <1>4, <2>1
    <2>3. ReadHeader(p) = [ok |-> FALSE]
      BY <1>4, <1>5, <1>7, <1>9, <2>2, ReadMasked
    <2> QED
      BY <1>1, <1>6, <2>3
  <1> QED
    BY <1>5, <1>8, <1>9

\* Masking what is masked gives the payload back, of whatever length.
THEOREM MaskingUndone ==
    \A p \in Seq({0, 1}), mask \in Masks : Masked(Masked(p, mask), mask) = p
  <1> SUFFICES ASSUME NEW p \in Seq({0, 1}), NEW mask \in Masks
               PROVE  Masked(Masked(p, mask), mask) = p
    OBVIOUS
  <1> DEFINE m(i) == mask[1 + ((i - 1) % 4)]
  <1>1. Len(p) \in Nat /\ p \in [1..Len(p) -> {0, 1}]
    BY LenProperties
  <1>2. \A i \in 1..Len(p) : m(i) \in {0, 1}
    <2> SUFFICES ASSUME NEW i \in 1..Len(p) PROVE m(i) \in {0, 1}
      OBVIOUS
    <2>1. 1 + ((i - 1) % 4) \in 1..4
      BY <1>1
    <2> QED
      BY <2>1, MaskFacts
  <1>3. PICK q : q = Masked(p, mask)
    OBVIOUS
  <1>4. q = [i \in 1..Len(p) |-> (p[i] + m(i)) % 2]
    BY <1>3 DEF Masked
  <1> HIDE DEF m
  <1>5. \A i \in 1..Len(p) : /\ (p[i] + m(i)) % 2 \in {0, 1}
                              /\ (((p[i] + m(i)) % 2) + m(i)) % 2 = p[i]
    BY <1>1, <1>2
  <1>6. q \in Seq({0, 1}) /\ Len(q) = Len(p)
    BY <1>1, <1>4, <1>5
  <1>7. Masked(q, mask) = [i \in 1..Len(p) |-> (q[i] + m(i)) % 2]
    BY <1>6 DEF Masked, m
  <1>8. \A i \in 1..Len(p) : (q[i] + m(i)) % 2 = p[i]
    BY <1>4, <1>5
  <1> QED
    BY <1>1, <1>3, <1>7, <1>8

\* What the runs check at the boundaries holds there for every cap.
THEOREM RoundTripHolds == RoundTrip
  <1>1. Boundary \subseteq Lengths
    BY CapInRange, SMT DEF Boundary, Lengths
  <1>2. {1, 8, 10} \subseteq Opcodes
    BY SMT DEF Opcodes
  <1>3. ASSUME NEW k \in 0..5, NEW p \in [1..k -> 0..1]
        PROVE  p \in Seq({0, 1})
    <2>1. p = [i \in 1..k |-> p[i]] /\ \A i \in 1..k : p[i] \in {0, 1}
      BY <1>3
    <2>2. [i \in 1..k |-> p[i]] \in Seq({0, 1})
      BY <2>1
    <2> QED
      BY <2>1, <2>2
  <1> QED
    BY <1>1, <1>2, <1>3, HeaderReadsBack, HeaderIsNeeded, MaskingUndone
       DEF RoundTrip
=============================================================================
