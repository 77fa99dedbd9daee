------------------------ MODULE ClaudeDeliverProofs ------------------------
(***************************************************************************)
(* Proofs about the envelope, for names and texts of any length, and about *)
(* ClaudeDeliver, for any sets of processes, pids, socket directories and  *)
(* invocations, and any choice of the sessions that require                *)
(* authentication.                                                         *)
(***************************************************************************)
EXTENDS ClaudeDeliver, SequenceTheorems, FiniteSetTheorems,
        WellFoundedInduction, TLAPS

-----------------------------------------------------------------------------
(***************************************************************************)
(* The envelope.  Texts are sequences over any set T of tokens that holds  *)
(* the ones Wrap writes; a name or a text may otherwise be as long as it   *)
(* likes and hold whatever it likes.                                       *)
(***************************************************************************)

\* A set of natural numbers that is not empty has a least one: this is the one
\* place where the proofs use that the order on them is well founded.
LEMMA Least ==
    ASSUME NEW S, S \subseteq Nat, S # {}
    PROVE  \E i \in S : \A j \in S : i <= j
  <1>1. PICK R : R = OpToRel(<, Nat)
    OBVIOUS
  <1>2. IsWellFoundedOn(R, Nat)
    BY <1>1, NatLessThanWellFounded, Zenon
  <1>3. PICK i \in S : \A j \in S : <<j, i>> \notin R
    BY <1>2, WFMin
  <1>4. ASSUME NEW j \in S PROVE i <= j
    <2>1. i \in Nat /\ j \in Nat
      OBVIOUS
    <2>2. j < i => <<j, i>> \in R
      BY <1>1, <2>1, Zenon DEF OpToRel
    <2> QED
      BY <1>3, <2>1, <2>2
  <1> QED
    BY <1>4

\* A set of positions has a first one.
LEMMA FirstOf ==
    ASSUME NEW P, P \subseteq Nat, P # {}
    PROVE  First(P) \in P /\ \A j \in P : First(P) <= j
  BY Least DEF First

\* A set of positions in a text of n tokens has a last one.
LEMMA LastOf ==
    ASSUME NEW n \in Nat, NEW P, P \subseteq 1..n, P # {}
    PROVE  Last(P) \in P /\ \A j \in P : Last(P) >= j
  <1> DEFINE Q == {n - i : i \in P}
  <1>1. Q \subseteq Nat /\ Q # {}
    <2>1. \A i \in P : n - i \in Nat
      OBVIOUS
    <2>2. PICK i : i \in P
      OBVIOUS
    <2>3. n - i \in Q
      BY <2>2
    <2> QED
      BY <2>1, <2>3
  <1> HIDE DEF Q
  <1>2. PICK q \in Q : \A r \in Q : q <= r
    BY <1>1, Least
  <1>3. PICK i \in P : q = n - i
    BY DEF Q
  <1>4. ASSUME NEW j \in P PROVE i >= j
    <2>1. q <= n - j
      BY <1>2 DEF Q
    <2>2. i \in Int /\ j \in Int
      OBVIOUS
    <2> QED
      BY <1>3, <2>1, <2>2
  <1>5. \E k \in P : \A j \in P : k >= j
    BY <1>4
  <1> QED
    BY <1>5 DEF Last

-----------------------------------------------------------------------------
(* Names *)

\* The positions up to i of a set of positions.
UpTo(K, i) == {j \in K : j <= i}

\* They are finitely many: none at first, and all in the end.
LEMMA UpToFinite ==
    ASSUME NEW n \in Nat, NEW K \in SUBSET (1..n), NEW i \in Nat
    PROVE  /\ IsFiniteSet(UpTo(K, i)) /\ Cardinality(UpTo(K, i)) \in Nat
           /\ Cardinality(UpTo(K, 0)) = 0 /\ UpTo(K, n) = K
  <1>1. UpTo(K, i) \subseteq 1..n
    BY DEF UpTo
  <1>2. IsFiniteSet(UpTo(K, i))
    <2>1. IsFiniteSet(1..n)
      BY FS_Interval
    <2> QED
      BY <1>1, <2>1, FS_Subset
  <1>3. UpTo(K, 0) = {} /\ UpTo(K, n) = K
    <2>1. \A j \in K : ~(j <= 0) /\ j <= n
      OBVIOUS
    <2> QED
      BY <2>1, Zenon DEF UpTo
  <1> QED
    BY <1>2, <1>3, FS_CardinalityType, FS_EmptySet

\* Going one position further adds at most one.
LEMMA UpToNext ==
    ASSUME NEW n \in Nat, NEW K \in SUBSET (1..n), NEW h \in Nat, NEW i \in Nat,
           i = h + 1
    PROVE  /\ i \in K => Cardinality(UpTo(K, i)) = Cardinality(UpTo(K, h)) + 1
           /\ i \notin K => UpTo(K, i) = UpTo(K, h)
  <1>1. \A j \in K : j <= i <=> j <= h \/ j = i
    OBVIOUS
  <1>2. ~(i <= h)
    OBVIOUS
  <1>3. ASSUME i \in K
        PROVE  Cardinality(UpTo(K, i)) = Cardinality(UpTo(K, h)) + 1
    <2>1. UpTo(K, i) = UpTo(K, h) \cup {i} /\ i \notin UpTo(K, h)
      BY <1>1, <1>2, <1>3, Zenon DEF UpTo
    <2>2. IsFiniteSet(UpTo(K, h))
      BY UpToFinite
    <2> QED
      BY <2>1, <2>2, FS_AddElement
  <1>4. ASSUME i \notin K PROVE UpTo(K, i) = UpTo(K, h)
    BY <1>1, <1>4, Zenon DEF UpTo
  <1> QED
    BY <1>3, <1>4

\* Every token that Pick returns stands in the text, at one of the positions.
LEMMA PickFrom ==
    ASSUME NEW s, NEW n \in Nat, NEW K \in SUBSET (1..n)
    PROVE  /\ Cardinality(K) \in Nat /\ Len(Pick(s, K)) = Cardinality(K)
           /\ Pick(s, K) \in Seq({s[i] : i \in K})
  <1>1. Cardinality(K) \in Nat
    BY UpToFinite
  <1>2. ASSUME NEW k \in 1..Cardinality(K)
        PROVE  \E i \in K : Cardinality(UpTo(K, i)) = k
    <2> DEFINE S == {i \in Nat : Cardinality(UpTo(K, i)) >= k}
    <2>1. S \subseteq Nat /\ n \in S
      BY <1>1, UpToFinite
    <2> HIDE DEF S
    <2>2. PICK i \in S : \A j \in S : i <= j
      BY <2>1, Least
    <2>3. i \in Nat /\ Cardinality(UpTo(K, i)) >= k
      BY DEF S
    <2>4. i # 0
      <3>1. Cardinality(UpTo(K, 0)) = 0
        BY UpToFinite
      <3> QED
        BY <2>3, <3>1
    <2>5. PICK h \in Nat : i = h + 1
      <3>1. i - 1 \in Nat /\ i = (i - 1) + 1
        BY <2>3, <2>4
      <3> QED
        BY <3>1
    <2>6. Cardinality(UpTo(K, h)) \in Nat /\ ~(Cardinality(UpTo(K, h)) >= k)
      <3>1. h \notin S
        BY <2>2, <2>5
      <3> QED
        BY <3>1, UpToFinite DEF S
    <2>7. i \in K /\ Cardinality(UpTo(K, i)) = Cardinality(UpTo(K, h)) + 1
      <3>1. /\ i \in K => Cardinality(UpTo(K, i)) = Cardinality(UpTo(K, h)) + 1
            /\ i \notin K => UpTo(K, i) = UpTo(K, h)
        BY <2>3, <2>5, UpToNext
      <3> QED
        BY <2>3, <2>6, <3>1
    <2> QED
      BY <2>3, <2>6, <2>7
  <1>3. ASSUME NEW k \in 1..Cardinality(K)
        PROVE  s[CHOOSE i \in K : Cardinality({j \in K : j <= i}) = k]
                 \in {s[i] : i \in K}
    BY <1>2, <1>3 DEF UpTo
  <1>4. PICK S, c : S = {s[i] : i \in K} /\ c = Cardinality(K)
    OBVIOUS
  <1>5. PICK f : f = Pick(s, K)
    OBVIOUS
  <1>6. f \in [1..c -> S]
    BY <1>3, <1>4, <1>5 DEF Pick
  <1>7. f \in Seq(S) /\ Len(f) = c
    BY <1>1, <1>4, <1>6
  <1> QED
    BY <1>1, <1>4, <1>5, <1>7

\* What is trimmed does not begin or end with a space.
LEMMA Trimmed ==
    ASSUME NEW S, NEW s \in Seq(S), NEW r, r = Trim(s)
    PROVE  r \in Seq(S) /\ (r # <<>> => r[1] # "sp" /\ r[Len(r)] # "sp")
  <1> DEFINE kept == {i \in DOMAIN s : s[i] # "sp"}
  <1>1. /\ DOMAIN s = 1..Len(s) /\ Len(s) \in Nat
        /\ \A i \in 1..Len(s) : s[i] \in S
    BY LenProperties, ElementOfSeq
  <1>2. CASE kept = {}
    BY <1>2 DEF Trim
  <1>3. CASE kept # {}
    <2>1. kept \subseteq 1..Len(s) /\ kept \subseteq Nat
      BY <1>1
    <2>2. \A i \in kept : s[i] # "sp"
      OBVIOUS
    <2>3. PICK m, n : m = First(kept) /\ n = Last(kept)
      OBVIOUS
    <2>4. r = SubSeq(s, m, n)
      BY <1>3, <2>3 DEF Trim
    <2> HIDE DEF kept
    <2>5. m \in kept /\ \A j \in kept : m <= j
      BY <1>3, <2>1, <2>3, FirstOf
    <2>6. n \in kept
      BY <1>1, <1>3, <2>1, <2>3, LastOf
    <2>7. m \in 1..Len(s) /\ n \in 1..Len(s) /\ m <= n
      BY <2>1, <2>5, <2>6
    <2>8. \A i \in m..n : s[i] \in S
      BY <1>1, <2>7
    <2>9. /\ r \in Seq(S) /\ Len(r) = n - m + 1
          /\ \A i \in 1..n - m + 1 : r[i] = s[m + i - 1]
      <3>1. m \in Int /\ n \in Int /\ m <= n
        BY <1>1, <2>7
      <3> QED
        BY <2>4, <2>8, <3>1, SubSeqProperties
    <2>10. r[1] = s[m]
      <3>1. 1 \in 1..n - m + 1 /\ m + 1 - 1 = m
        BY <1>1, <2>7
      <3> QED
        BY <2>9, <3>1
    <2>11. r[Len(r)] = s[n]
      <3>1. PICK k : k = n - m + 1
        OBVIOUS
      <3>2. k \in 1..n - m + 1 /\ m + k - 1 = n
        BY <1>1, <2>7, <3>1
      <3> QED
        BY <2>9, <3>1, <3>2
    <2> QED
      BY <2>2, <2>5, <2>6, <2>9, <2>10, <2>11
  <1> QED
    BY <1>2, <1>3

\* A name that has been scrubbed holds nothing that would end the attribute,
\* the tag or the line, and neither begins nor ends with a space.
THEOREM NameIsScrubbed ==
    ASSUME NEW S, NEW name \in Seq(S), NEW r, r = scrubName(name)
    PROVE  /\ r \in Seq(S \ {"quote", "lt", "gt", "nl", "cc"})
           /\ r # <<>> => r[1] # "sp" /\ r[Len(r)] # "sp"
  <1>1. PICK M : M = {"quote", "lt", "gt", "nl", "cc"}
    OBVIOUS
  <1>2. PICK K : K = {i \in DOMAIN name : name[i] \notin M}
    OBVIOUS
  <1>3. PICK n : n = Len(name)
    OBVIOUS
  <1>4. n \in Nat /\ K \in SUBSET (1..n) /\ \A i \in K : name[i] \in S \ M
    BY <1>2, <1>3, LenProperties, ElementOfSeq
  <1>5. PICK s : s = Pick(name, K)
    OBVIOUS
  <1>6. s \in Seq({name[i] : i \in K})
    BY <1>4, <1>5, PickFrom
  <1>7. {name[i] : i \in K} \subseteq S \ M
    BY <1>4
  <1>8. s \in Seq(S \ M)
    BY <1>6, <1>7, SeqMonotonic
  <1>9. r = Trim(s)
    BY <1>1, <1>2, <1>5 DEF scrubName
  <1> QED
    BY <1>1, <1>8, <1>9, Trimmed

\* A name with nothing to remove stays as it is.
THEOREM CleanNameStays ==
    ASSUME NEW S, NEW name \in Seq(S), name # <<>>,
           \A i \in 1..Len(name) :
              name[i] \notin {"quote", "lt", "gt", "nl", "cc"},
           name[1] # "sp", name[Len(name)] # "sp"
    PROVE  scrubName(name) = name
  <1>1. PICK n : n = Len(name)
    OBVIOUS
  <1>2. n \in Nat /\ DOMAIN name = 1..n /\ n # 0 /\ n >= 1
    BY <1>1, LenProperties, EmptySeq
  <1>3. PICK K : K = 1..n
    OBVIOUS
  <1>4. {i \in DOMAIN name :
           name[i] \notin {"quote", "lt", "gt", "nl", "cc"}} = K
    BY <1>1, <1>2, <1>3
  <1>5. Cardinality(K) = n
    BY <1>2, <1>3, FS_Interval
  <1>6. ASSUME NEW i \in K PROVE Cardinality({j \in K : j <= i}) = i
    <2>1. {j \in K : j <= i} = 1..i /\ i \in Nat /\ i >= 1
      BY <1>2, <1>3
    <2>2. Cardinality(1..i) = i
      BY <2>1, FS_Interval
    <2> QED
      BY <2>1, <2>2, Zenon
  <1>7. ASSUME NEW k \in K
        PROVE  (CHOOSE i \in K : Cardinality({j \in K : j <= i}) = k) = k
    BY <1>6
  <1>8. PICK s : s = Pick(name, K)
    OBVIOUS
  <1>9. s = [k \in 1..n |-> name[k]]
    <2> DEFINE place(k) == CHOOSE i \in K : Cardinality({j \in K : j <= i}) = k
    <2>1. s = [k \in K |-> name[place(k)]]
      BY <1>3, <1>5, <1>8, Zenon DEF Pick
    <2>2. \A k \in K : place(k) = k
      BY <1>7, Zenon
    <2> HIDE DEF place
    <2>3. s = [k \in K |-> name[k]]
      BY <2>1, <2>2
    <2> QED
      BY <1>3, <2>3
  <1>10. s = name
    BY <1>1, <1>2, <1>9
  <1>11. PICK kept : kept = {i \in DOMAIN name : name[i] # "sp"}
    OBVIOUS
  <1>12. 1 \in kept /\ n \in kept /\ kept \subseteq 1..n /\ kept # {}
    BY <1>1, <1>2, <1>11
  <1>13. First(kept) = 1
    <2>1. \A j \in kept : 1 <= j
      BY <1>2, <1>12
    <2>2. \A i \in kept : (\A j \in kept : i <= j) => i = 1
      BY <1>2, <1>12
    <2> QED
      BY <1>12, <2>1, <2>2 DEF First
  <1>14. Last(kept) = n
    <2>1. \A j \in kept : n >= j
      BY <1>2, <1>12
    <2>2. \A i \in kept : (\A j \in kept : i >= j) => i = n
      BY <1>2, <1>12
    <2> QED
      BY <1>12, <2>1, <2>2 DEF Last
  <1>15. Trim(name) = SubSeq(name, 1, n)
    BY <1>11, <1>12, <1>13, <1>14 DEF Trim
  <1>16. SubSeq(name, 1, n) = name
    BY <1>1, SubSeqFull
  <1> QED
    BY <1>4, <1>8, <1>10, <1>15, <1>16 DEF scrubName

-----------------------------------------------------------------------------
(* The attributes of a tag *)

\* If every match lies in one of E apart from each other, or begins inside one
\* of them, these are what FindAll finds.
LEMMA FoundAre ==
    ASSUME NEW tag, NEW E, E \subseteq Starts(tag), Starts(tag) \subseteq Nat,
           \A i \in Starts(tag) : MatchEnd(tag, i) \in Nat,
           \A i, j \in E : j < i => MatchEnd(tag, j) < i,
           \A i \in Starts(tag) \ E :
              \E j \in E : j < i /\ i <= MatchEnd(tag, j)
    PROVE  Found(tag) = E
  <1>1. Apart(tag, E)
    <2>1. ASSUME NEW i \in Starts(tag), i \notin E,
                 \A j \in E : j < i => MatchEnd(tag, j) < i
          PROVE  FALSE
      <3>1. PICK j \in E : j < i /\ i <= MatchEnd(tag, j)
        BY <2>1
      <3>2. MatchEnd(tag, j) < i /\ MatchEnd(tag, j) \in Nat /\ i \in Nat
        BY <2>1, <3>1
      <3> QED
        BY <3>1, <3>2
    <2> QED
      BY <2>1 DEF Apart
  <1>2. PICK M : M = Found(tag)
    OBVIOUS
  <1>3. M \subseteq Starts(tag) /\ Apart(tag, M)
    BY <1>1, <1>2 DEF Found
  <1>4. ASSUME NEW i \in M, NEW j \in M, j < i
        PROVE  MatchEnd(tag, j) < i
    BY <1>3, <1>4 DEF Apart
  <1>5. E \subseteq M
    <2> SUFFICES ASSUME E \ M # {} PROVE FALSE
      OBVIOUS
    <2>1. E \ M \subseteq Nat
      OBVIOUS
    <2>2. PICK m \in E \ M : \A l \in E \ M : m <= l
      BY <2>1, Least
    <2>3. PICK j \in M : j < m /\ ~(MatchEnd(tag, j) < m)
      BY <1>3 DEF Apart
    <2>4. j \in Starts(tag) \ E
      BY <1>3, <2>2, <2>3
    <2>5. PICK l \in E : l < j /\ j <= MatchEnd(tag, l)
      BY <2>4
    <2>6. l \in Nat /\ j \in Nat /\ m \in Nat /\ MatchEnd(tag, l) \in Nat
      BY <1>3, <2>2, <2>3, <2>5
    <2>7. l \in M
      BY <2>2, <2>3, <2>5, <2>6
    <2>8. MatchEnd(tag, l) < j
      BY <1>4, <2>3, <2>5, <2>7
    <2> QED
      BY <2>5, <2>6, <2>8
  <1>6. M \subseteq E
    <2> SUFFICES ASSUME NEW i \in M, i \notin E PROVE FALSE
      OBVIOUS
    <2>1. PICK j \in E : j < i /\ i <= MatchEnd(tag, j)
      BY <1>3
    <2>2. MatchEnd(tag, j) < i
      BY <1>4, <1>5, <2>1
    <2>3. i \in Nat /\ MatchEnd(tag, j) \in Nat
      BY <1>3, <2>1
    <2> QED
      BY <2>1, <2>2, <2>3
  <1> QED
    BY <1>2, <1>5, <1>6

\* The tokens that Wrap puts around a text.
Marks == {"open", "close", "gt", "nl", "sp", "quote", "uds:addr", "prompting"}
         \cup Keys

\* A value that ends neither the attribute nor the tag it stands in.
Plain(T, v) ==
    v \in Seq(T) /\ \A i \in 1..Len(v) : v[i] \notin {"quote", "gt", "close"}

\* How many tokens an attribute takes, and where they lie behind o.
Size(v) == IF v = <<>> THEN 0 ELSE Len(v) + 4
Field(r, o, k, v) ==
    v # <<>> => /\ r[o + 1] = "sp" /\ r[o + 2] = k /\ r[o + 3] = "quote"
                /\ \A j \in 1..Len(v) : r[o + 3 + j] = v[j]
                /\ r[o + 4 + Len(v)] = "quote"

\* The attributes of Wrap in their order.
Order == <<"from=", "from-name=", "from-mode=">>

\* A tag of attributes with the values V, the x-th behind position O[x].
Layout(T, tag, V, O) ==
    /\ tag \in Seq(T) /\ O \in [1..4 -> Nat]
    /\ \A x \in 1..3 : /\ Plain(T, V[x]) /\ Field(tag, O[x], Order[x], V[x])
                       /\ O[x + 1] = O[x] + Size(V[x])
    /\ O[1] = 0 /\ O[4] = Len(tag)

Present(V) == {x \in 1..3 : V[x] # <<>>}

\* Attributes follow each other, and every position belongs to one of them.
LEMMA LayoutCovers ==
    ASSUME NEW T, NEW tag, NEW V, NEW O, Layout(T, tag, V, O)
    PROVE  /\ \A x \in Present(V) :
                /\ x \in 1..3 /\ Len(V[x]) \in Nat /\ Len(V[x]) >= 1
                /\ O[x] \in Nat /\ O[x] + Len(V[x]) + 4 <= Len(tag)
           /\ \A x, y \in Present(V) :
                x < y => O[x] + Len(V[x]) + 4 <= O[y]
           /\ \A i \in 1..Len(tag) :
                \E x \in Present(V) : O[x] < i /\ i <= O[x] + Len(V[x]) + 4
  <1>1. \A x \in 1..3 : Len(V[x]) \in Nat /\ (V[x] # <<>> => Len(V[x]) >= 1)
    <2> SUFFICES ASSUME NEW x \in 1..3
                 PROVE  Len(V[x]) \in Nat /\ (V[x] # <<>> => Len(V[x]) >= 1)
      OBVIOUS
    <2>1. PICK v : v = V[x]
      OBVIOUS
    <2>2. v \in Seq(T)
      BY <2>1 DEF Layout, Plain
    <2>3. Len(v) \in Nat /\ (v # <<>> => Len(v) # 0)
      BY <2>2, LenProperties, EmptySeq
    <2> QED
      BY <2>1, <2>3
  <1>2. PICK a, b, c : a = Size(V[1]) /\ b = Size(V[2]) /\ c = Size(V[3])
    OBVIOUS
  <1>3. /\ a \in Nat /\ b \in Nat /\ c \in Nat
        /\ V[1] = <<>> => a = 0
        /\ V[1] # <<>> => a = Len(V[1]) + 4
        /\ V[2] = <<>> => b = 0
        /\ V[2] # <<>> => b = Len(V[2]) + 4
        /\ V[3] = <<>> => c = 0
        /\ V[3] # <<>> => c = Len(V[3]) + 4
    BY <1>1, <1>2 DEF Size
  <1>4. O[1] = 0 /\ O[2] = a /\ O[3] = a + b /\ Len(tag) = a + b + c
    <2>1. /\ O[1] = 0 /\ O[1 + 1] = O[1] + a /\ O[2 + 1] = O[2] + b
          /\ O[3 + 1] = O[3] + c /\ Len(tag) = O[4]
      BY <1>2 DEF Layout
    <2> QED
      BY <1>3, <2>1
  <1>5. \A x \in Present(V) : x = 1 \/ x = 2 \/ x = 3
    BY DEF Present
  <1>6. \A x \in Present(V) : V[x] # <<>> /\ x \in 1..3
    BY DEF Present
  <1>7. \A x \in Present(V) :
          /\ x \in 1..3 /\ Len(V[x]) \in Nat /\ Len(V[x]) >= 1
          /\ O[x] \in Nat /\ O[x] + Len(V[x]) + 4 <= Len(tag)
    <2> SUFFICES ASSUME NEW x \in Present(V)
                 PROVE  /\ x \in 1..3 /\ Len(V[x]) \in Nat /\ Len(V[x]) >= 1
                        /\ O[x] \in Nat /\ O[x] + Len(V[x]) + 4 <= Len(tag)
      OBVIOUS
    <2>1. PICK l, o, n : l = Len(V[x]) /\ o = O[x] /\ n = Len(tag)
      OBVIOUS
    <2>2. x \in 1..3 /\ l \in Nat /\ l >= 1
      BY <1>1, <1>6, <2>1
    <2>3. \/ l + 4 = a /\ o = 0
          \/ l + 4 = b /\ o = a
          \/ l + 4 = c /\ o = a + b
      BY <1>3, <1>4, <1>5, <1>6, <2>1
    <2>4. a \in Nat /\ b \in Nat /\ c \in Nat /\ n = a + b + c
      BY <1>3, <1>4, <2>1
    <2>5. o \in Nat /\ o + l + 4 <= n
      BY <2>2, <2>3, <2>4
    <2> QED
      BY <2>1, <2>2, <2>5
  <1>8. ASSUME NEW x \in Present(V), NEW y \in Present(V), x < y
        PROVE  O[x] + Len(V[x]) + 4 <= O[y]
    <2>1. PICK l, o : l = Len(V[x]) /\ o = O[x]
      OBVIOUS
    <2>2. l \in Nat /\ a \in Nat /\ b \in Nat
      BY <1>3, <1>7, <2>1
    <2>3. \/ l + 4 = a /\ o = 0 /\ O[y] = a
          \/ l + 4 = a /\ o = 0 /\ O[y] = a + b
          \/ l + 4 = b /\ o = a /\ O[y] = a + b
      <3>1. (x = 1 /\ (y = 2 \/ y = 3)) \/ (x = 2 /\ y = 3)
        BY <1>5, <1>8
      <3>2. V[x] # <<>>
        BY <1>6
      <3>3. (x = 1 => l + 4 = a /\ o = 0) /\ (x = 2 => l + 4 = b /\ o = a)
        BY <1>3, <1>4, <2>1, <3>2
      <3>4. (y = 2 => O[y] = a) /\ (y = 3 => O[y] = a + b)
        BY <1>4
      <3> QED
        BY <3>1, <3>3, <3>4
    <2>4. o + l + 4 <= O[y]
      BY <2>2, <2>3
    <2> QED
      BY <2>1, <2>4
  <1>9. ASSUME NEW i \in 1..Len(tag)
        PROVE  \E x \in Present(V) : O[x] < i /\ i <= O[x] + Len(V[x]) + 4
    <2>1. CASE i <= a
      <3>1. 1 \in Present(V)
        BY <1>3, <1>4, <2>1 DEF Present
      <3> QED
        BY <1>3, <1>4, <1>6, <2>1, <3>1
    <2>2. CASE a < i /\ i <= a + b
      <3>1. 2 \in Present(V)
        BY <1>3, <1>4, <2>2 DEF Present
      <3>2. Len(V[2]) + 4 = b /\ O[2] = a
        BY <1>3, <1>4, <1>6, <3>1
      <3>3. PICK l, o : l = Len(V[2]) /\ o = O[2]
        OBVIOUS
      <3>4. l \in Nat /\ o \in Nat
        BY <1>7, <3>1, <3>3
      <3>5. l + 4 = b /\ o = a
        BY <3>2, <3>3
      <3>6. o < i /\ i <= o + l + 4
        BY <2>2, <3>4, <3>5
      <3> QED
        BY <3>1, <3>3, <3>6
    <2>3. CASE a + b < i
      <3>1. 3 \in Present(V)
        BY <1>3, <1>4, <2>3 DEF Present
      <3> QED
        BY <1>3, <1>4, <1>6, <2>3, <3>1
    <2> QED
      BY <1>3, <1>4, <2>1, <2>2, <2>3
  <1> QED
    BY <1>7, <1>8, <1>9

\* What stands where in an attribute; e is where it ends.
Spans(tag, o, e, k, v) ==
    /\ o \in Nat /\ e \in Nat /\ o + 5 <= e /\ e <= Len(tag)
    /\ tag[o + 1] = "sp" /\ tag[o + 2] = k /\ tag[o + 3] = "quote"
    /\ tag[e] = "quote"
    /\ \A j \in 1..Len(v) : tag[o + 3 + j] = v[j]
    /\ \A i \in o + 4..e - 1 : tag[i] # "quote"

\* An attribute holds its value and no other quote.
LEMMA FieldSpans ==
    ASSUME NEW T, NEW tag, NEW o \in Nat, NEW k, NEW v, Plain(T, v),
           Field(tag, o, k, v), v # <<>>, NEW n \in Nat, n = Len(v), n >= 1,
           NEW e, e = o + n + 4, e <= Len(tag)
    PROVE  Spans(tag, o, e, k, v)
  <1>1. /\ tag[o + 1] = "sp" /\ tag[o + 2] = k /\ tag[o + 3] = "quote"
        /\ \A j \in 1..n : tag[o + 3 + j] = v[j]
        /\ tag[o + 4 + n] = "quote"
    BY DEF Field
  <1>2. e \in Nat /\ e = o + 4 + n /\ o + 5 <= e
    OBVIOUS
  <1>3. ASSUME NEW i \in o + 4..e - 1
        PROVE  tag[i] # "quote"
    <2>1. PICK j : j = i - (o + 3)
      OBVIOUS
    <2>2. j \in 1..n /\ o + 3 + j = i
      BY <2>1
    <2>3. tag[i] = v[j]
      BY <1>1, <2>2
    <2>4. v[j] # "quote"
      BY <2>2 DEF Plain
    <2> QED
      BY <2>3, <2>4
  <1>4. tag[e] = "quote"
    BY <1>1, <1>2
  <1> QED
    BY <1>1, <1>2, <1>3, <1>4 DEF Spans

\* So does every attribute that is present in a tag of Wrap.
LEMMA FieldTokens ==
    ASSUME NEW T, NEW tag, NEW V, NEW O, Layout(T, tag, V, O),
           NEW x \in Present(V), NEW o, o = O[x],
           NEW e, e = O[x] + Len(V[x]) + 4
    PROVE  Spans(tag, o, e, Order[x], V[x])
  <1>1. /\ x \in 1..3 /\ Len(V[x]) \in Nat /\ Len(V[x]) >= 1 /\ O[x] \in Nat
        /\ O[x] + Len(V[x]) + 4 <= Len(tag)
    BY LayoutCovers
  <1>2. PICK v, n : v = V[x] /\ n = Len(v)
    OBVIOUS
  <1>3. V[x] # <<>> /\ Field(tag, O[x], Order[x], V[x]) /\ Plain(T, V[x])
    BY <1>1 DEF Layout, Present
  <1>4. v # <<>> /\ Field(tag, o, Order[x], v) /\ Plain(T, v)
    BY <1>2, <1>3
  <1>5. /\ o \in Nat /\ n \in Nat /\ n >= 1
        /\ e = o + n + 4 /\ e <= Len(tag)
    BY <1>1, <1>2
  <1>6. Spans(tag, o, e, Order[x], v)
    BY <1>2, <1>4, <1>5, FieldSpans
  <1> QED
    BY <1>2, <1>6

\* An attribute of Wrap is a match, which ends where the attribute does.
LEMMA FieldMatches ==
    ASSUME NEW T, NEW tag, NEW V, NEW O, Layout(T, tag, V, O),
           NEW x \in Present(V), NEW m, m = O[x] + 2,
           NEW e, e = O[x] + Len(V[x]) + 4
    PROVE  m \in Starts(tag) /\ MatchEnd(tag, m) = e
  <1>1. PICK o : o = O[x]
    OBVIOUS
  <1>2. /\ o \in Nat /\ e \in Nat /\ o + 5 <= e /\ e <= Len(tag)
        /\ tag[o + 2] = Order[x] /\ tag[o + 3] = "quote" /\ tag[e] = "quote"
        /\ \A i \in o + 4..e - 1 : tag[i] # "quote"
    <2>1. Spans(tag, o, e, Order[x], V[x])
      BY <1>1, FieldTokens
    <2> QED
      BY <2>1 DEF Spans
  <1>3. Len(tag) \in Nat
    BY LenProperties DEF Layout
  <1>4. m = o + 2 /\ m + 1 = o + 3 /\ m + 2 = o + 4
    <2>1. m = o + 2
      BY <1>1
    <2>2. o \in Nat
      BY <1>2
    <2>3. (o + 2) + 1 = o + 3 /\ (o + 2) + 2 = o + 4
      BY <2>2
    <2> QED
      BY <2>1, <2>3
  <1>5. PICK C : C = Closing(tag, m)
    OBVIOUS
  <1>6. e \in C /\ \A j \in C : e <= j
    <2>1. e \in C
      BY <1>2, <1>3, <1>4, <1>5 DEF Closing
    <2>2. ASSUME NEW j \in C PROVE e <= j
      <3>1. j \in o + 4..Len(tag) /\ tag[j] = "quote"
        BY <1>4, <1>5 DEF Closing
      <3> QED
        BY <1>2, <1>3, <3>1
    <2> QED
      BY <2>1, <2>2
  <1>7. First(C) = e
    <2>1. \A i \in C : (\A j \in C : i <= j) => i = e
      <3> SUFFICES ASSUME NEW i \in C, \A j \in C : i <= j PROVE i = e
        OBVIOUS
      <3>1. i <= e /\ e <= i /\ i \in Int
        BY <1>3, <1>4, <1>2, <1>5, <1>6 DEF Closing
      <3> QED
        BY <1>2, <3>1
    <2> QED
      BY <1>6, <2>1 DEF First
  <1>8. Order[x] \in Keys
    BY LayoutCovers DEF Order, Keys
  <1>9. m \in 1..Len(tag) - 2 /\ tag[m] \in Keys /\ tag[m + 1] = "quote"
    <2>1. tag[m] \in Keys /\ tag[m + 1] = "quote"
      BY <1>2, <1>4, <1>8
    <2>2. PICK n : n = Len(tag)
      OBVIOUS
    <2>3. /\ n \in Nat /\ o \in Nat /\ e \in Nat /\ o + 5 <= e /\ e <= n
          /\ m = o + 2
      BY <1>2, <1>3, <1>4, <2>2
    <2>4. m \in 1..n - 2
      BY <2>3
    <2> QED
      BY <2>1, <2>2, <2>4
  <1> QED
    BY <1>5, <1>6, <1>7, <1>9 DEF Starts, MatchEnd

\* What FindAll finds in a tag of Wrap are its attributes, and nothing that
\* only looks like one inside a value.
LEMMA FoundFields ==
    ASSUME NEW T, NEW tag, NEW V, NEW O, Layout(T, tag, V, O)
    PROVE  Found(tag) = {O[x] + 2 : x \in Present(V)}
  <1>1. PICK E : E = {O[x] + 2 : x \in Present(V)}
    OBVIOUS
  <1>2. \A x \in Present(V) :
          /\ O[x] + 2 \in Starts(tag)
          /\ MatchEnd(tag, O[x] + 2) = O[x] + Len(V[x]) + 4
    BY FieldMatches
  <1>3. \A x \in Present(V) : O[x] \in Nat /\ Len(V[x]) \in Nat
    BY LayoutCovers
  <1>4. Len(tag) \in Nat
    BY LenProperties DEF Layout
  <1>5. E \subseteq Starts(tag) /\ Starts(tag) \subseteq Nat
    BY <1>1, <1>2, <1>4 DEF Starts
  <1>6. ASSUME NEW i \in Starts(tag) PROVE MatchEnd(tag, i) \in Nat
    <2>1. PICK C : C = Closing(tag, i)
      OBVIOUS
    <2>2. C # {} /\ C \subseteq Nat
      BY <1>4, <1>6, <2>1 DEF Starts, Closing
    <2>3. First(C) \in Nat
      BY <2>2, FirstOf
    <2> QED
      BY <2>1, <2>3 DEF MatchEnd
  <1>7. ASSUME NEW i \in E, NEW j \in E, j < i PROVE MatchEnd(tag, j) < i
    <2>1. PICK x \in Present(V) : i = O[x] + 2
      BY <1>1
    <2>2. PICK y \in Present(V) : j = O[y] + 2
      BY <1>1
    <2>3. /\ x \in 1..3 /\ y \in 1..3 /\ O[x] \in Nat /\ O[y] \in Nat
          /\ Len(V[x]) \in Nat /\ Len(V[y]) \in Nat
      BY LayoutCovers
    <2>4. O[y] < O[x] /\ x # y
      BY <1>7, <2>1, <2>2, <2>3
    <2>5. /\ y < x => O[y] + Len(V[y]) + 4 <= O[x]
          /\ x < y => O[x] + Len(V[x]) + 4 <= O[y]
      BY LayoutCovers
    <2>6. O[y] + Len(V[y]) + 4 <= O[x]
      BY <2>3, <2>4, <2>5
    <2>7. MatchEnd(tag, j) = O[y] + Len(V[y]) + 4
      BY <1>2, <2>2
    <2>8. O[x] < O[x] + 2 /\ O[y] + Len(V[y]) + 4 \in Nat
      BY <2>3
    <2>9. O[y] + Len(V[y]) + 4 < O[x] + 2
      BY <2>3, <2>6, <2>8
    <2> QED
      BY <2>1, <2>7, <2>9
  <1>8. ASSUME NEW i \in Starts(tag) \ E
        PROVE  \E j \in E : j < i /\ i <= MatchEnd(tag, j)
    <2>1. i \in 1..Len(tag) /\ tag[i] \in Keys
      BY <1>4, <1>8 DEF Starts
    <2>2. PICK x \in Present(V) : O[x] < i /\ i <= O[x] + Len(V[x]) + 4
      BY <2>1, LayoutCovers
    <2>3. PICK o, e : o = O[x] /\ e = O[x] + Len(V[x]) + 4
      OBVIOUS
    <2>4. o \in Nat /\ e \in Nat /\ tag[o + 1] = "sp"
      <3>1. Spans(tag, o, e, Order[x], V[x])
        BY <2>3, FieldTokens
      <3> QED
        BY <3>1 DEF Spans
    <2>5. i # o + 1 /\ i # o + 2
      <3>1. "sp" \notin Keys
        BY DEF Keys
      <3>2. o + 2 \in E
        BY <1>1, <2>3
      <3> QED
        BY <1>8, <2>1, <2>4, <3>1, <3>2
    <2>6. PICK j : j = o + 2
      OBVIOUS
    <2>7. j < i /\ i <= e
      <3>1. o < i /\ i <= e
        BY <2>2, <2>3
      <3>2. o \in Nat /\ i \in Int
        BY <2>1, <2>4
      <3>3. o + 2 < i
        BY <2>5, <3>1, <3>2
      <3> QED
        BY <2>6, <3>1, <3>3
    <2>8. j \in E /\ MatchEnd(tag, j) = e
      BY <1>1, <1>2, <2>3, <2>6
    <2> QED
      BY <2>7, <2>8
  <1>9. Found(tag) = E
    BY <1>5, <1>6, <1>7, <1>8, FoundAre
  <1> QED
    BY <1>1, <1>9

\* A tag of Wrap says what Wrap put into it.
LEMMA FieldsRead ==
    ASSUME NEW T, NEW tag, NEW V, NEW O, Layout(T, tag, V, O), NEW x \in 1..3
    PROVE  Attributes(tag)[Order[x]] = V[x]
  <1>1. Order[x] \in Keys /\ \A y \in 1..3 : Order[y] = Order[x] => y = x
    BY DEF Order, Keys
  <1>2. PICK of : of = {i \in Found(tag) : tag[i] = Order[x]}
    OBVIOUS
  <1>3. Attributes(tag)[Order[x]] =
          IF of = {} THEN <<>>
          ELSE SubSeq(tag, Last(of) + 2, MatchEnd(tag, Last(of)) - 1)
    BY <1>1, <1>2 DEF Attributes
  <1>4. ASSUME NEW y \in Present(V)
        PROVE  tag[O[y] + 2] = Order[y] /\ y \in 1..3
    <2>1. Spans(tag, O[y], O[y] + Len(V[y]) + 4, Order[y], V[y])
      BY FieldTokens
    <2> QED
      BY <2>1 DEF Spans, Present
  <1>5. \A i \in of : i = O[x] + 2 /\ x \in Present(V)
    BY <1>1, <1>2, <1>4, FoundFields
  <1>6. CASE V[x] = <<>>
    <2>1. x \notin Present(V)
      BY <1>6 DEF Present
    <2> QED
      BY <1>3, <1>5, <1>6, <2>1
  <1>7. CASE V[x] # <<>>
    <2>1. x \in Present(V)
      BY <1>7 DEF Present
    <2>2. PICK o, e, v, m : /\ o = O[x] /\ v = V[x] /\ e = O[x] + Len(V[x]) + 4
                            /\ m = O[x] + 2
      OBVIOUS
    <2>3. /\ o \in Nat /\ e \in Nat /\ o + 5 <= e /\ e <= Len(tag)
          /\ \A j \in 1..Len(v) : tag[o + 3 + j] = v[j]
      <3>1. Spans(tag, o, e, Order[x], V[x])
        BY <2>1, <2>2, FieldTokens
      <3>2. Spans(tag, o, e, Order[x], v)
        BY <2>2, <3>1
      <3> QED
        BY <3>2 DEF Spans
    <2>4. MatchEnd(tag, m) = e
      BY <2>1, <2>2, FieldMatches
    <2>5. m \in of
      BY <1>2, <1>4, <2>1, <2>2, FoundFields
    <2>6. of = {m}
      BY <1>5, <2>2, <2>5
    <2>7. m = o + 2 /\ e = o + Len(v) + 4 /\ Len(v) \in Nat /\ v \in Seq(T)
      BY <2>1, <2>2, <2>3, LayoutCovers DEF Layout, Plain
    <2>8. Last(of) = m
      BY <2>3, <2>6, <2>7 DEF Last
    <2>9. PICK r : r = SubSeq(tag, o + 4, e - 1)
      OBVIOUS
    <2>10. Attributes(tag)[Order[x]] = r
      BY <1>3, <2>3, <2>4, <2>5, <2>7, <2>8, <2>9
    <2>11. /\ o + 4 \in Int /\ e - 1 \in Int /\ (e - 1) - (o + 4) + 1 = Len(v)
           /\ o + 4 <= e - 1
      <3>1. PICK n : n = Len(v)
        OBVIOUS
      <3>2. (e - 1) - (o + 4) + 1 = n
        BY <2>3, <2>7, <3>1
      <3> QED
        BY <2>3, <3>1, <3>2
    <2>12. \A i \in o + 4..e - 1 : tag[i] \in T
      <3>1. tag \in Seq(T) /\ Len(tag) \in Nat
        BY LenProperties DEF Layout
      <3>2. \A i \in o + 4..e - 1 : i \in 1..Len(tag)
        BY <2>3, <3>1
      <3> QED
        BY <3>1, <3>2, ElementOfSeq
    <2>13. PICK a, b : a = o + 4 /\ b = e - 1
      OBVIOUS
    <2>14. /\ r \in Seq(T) /\ Len(r) = Len(v)
           /\ \A i \in 1..Len(v) : r[i] = tag[a + i - 1]
      <3>1. /\ a \in Int /\ b \in Int /\ \A i \in a..b : tag[i] \in T
            /\ r = SubSeq(tag, a, b) /\ a <= b /\ b - a + 1 = Len(v)
        BY <2>9, <2>11, <2>12, <2>13
      <3>2. /\ r \in Seq(T) /\ Len(r) = IF a <= b THEN b - a + 1 ELSE 0
            /\ \A i \in 1..b - a + 1 : r[i] = tag[a + i - 1]
        BY <3>1, SubSeqProperties
      <3> QED
        BY <3>1, <3>2
    <2>15. ASSUME NEW i \in 1..Len(v) PROVE r[i] = v[i]
      <3>1. a + i - 1 = o + 3 + i
        BY <2>3, <2>7, <2>13
      <3> QED
        BY <2>3, <2>14, <3>1
    <2>16. r = v
      BY <2>7, <2>14, <2>15, SeqEqual
    <2> QED
      BY <2>2, <2>10, <2>16
  <1> QED
    BY <1>6, <1>7

-----------------------------------------------------------------------------
(* The tag and the element *)

\* A text over the tokens T that does not end an open tag.
Clean(T, s) ==
    s \in Seq(T) /\ \A i \in 1..Len(s) : s[i] \notin {"gt", "close"}

\* An open tag without its ">".
Tag(T, s) ==
    /\ Clean(T, s) /\ Len(s) >= 1 /\ s[1] = "open"
    /\ Len(s) >= 2 => s[2] = "sp"

\* Two texts that do not end a tag do not do so together.
LEMMA CleanConcat ==
    ASSUME NEW T, NEW s, NEW t, Clean(T, s), Clean(T, t)
    PROVE  /\ Clean(T, s \o t) /\ Len(s \o t) = Len(s) + Len(t)
           /\ Len(s) \in Nat /\ Len(t) \in Nat
           /\ \A i \in 1..Len(s) + Len(t) :
                (s \o t)[i] = IF i <= Len(s) THEN s[i] ELSE t[i - Len(s)]
  <1>1. /\ s \o t \in Seq(T) /\ Len(s \o t) = Len(s) + Len(t)
        /\ Len(s) \in Nat /\ Len(t) \in Nat
        /\ \A i \in 1..Len(s) + Len(t) :
             (s \o t)[i] = IF i <= Len(s) THEN s[i] ELSE t[i - Len(s)]
    BY ConcatProperties, LenProperties DEF Clean
  <1>2. ASSUME NEW i \in 1..Len(s) + Len(t)
        PROVE  (s \o t)[i] \notin {"gt", "close"}
    <2>1. CASE i <= Len(s)
      <3>1. i \in 1..Len(s)
        BY <1>1, <2>1
      <3> QED
        BY <1>1, <2>1, <3>1 DEF Clean
    <2>2. CASE ~(i <= Len(s))
      <3>1. i - Len(s) \in 1..Len(t)
        BY <1>1, <2>2
      <3> QED
        BY <1>1, <2>2, <3>1 DEF Clean
    <2> QED BY <2>1, <2>2
  <1> QED
    BY <1>1, <1>2 DEF Clean

\* An attribute does not end the tag it stands in.
LEMMA AttrClean ==
    ASSUME NEW T, Marks \subseteq T, NEW k \in Keys, NEW v, Clean(T, v)
    PROVE  /\ Clean(T, Attr(k, v))
           /\ \/ Attr(k, v) = <<>>
              \/ Len(Attr(k, v)) >= 1 /\ Attr(k, v)[1] = "sp"
  <1>1. CASE v = <<>>
    BY <1>1 DEF Attr, Clean
  <1>2. CASE v # <<>>
    <2>1. PICK a, q : a = <<"sp", k, "quote">> /\ q = <<"quote">>
      OBVIOUS
    <2>2. k \in T /\ k \notin {"gt", "close"} /\ "sp" \in T /\ "quote" \in T
      BY DEF Keys, Marks
    <2>3. Clean(T, a) /\ Len(a) = 3 /\ a[1] = "sp"
      <3>1. a \in Seq(T) /\ Len(a) = 3
        BY <2>1, <2>2
      <3>2. a[1] = "sp" /\ a[2] = k /\ a[3] = "quote"
        BY <2>1
      <3> QED
        BY <2>2, <3>1, <3>2 DEF Clean
    <2>4. Clean(T, q) /\ Len(q) = 1
      <3>1. q \in Seq(T) /\ Len(q) = 1
        BY <2>1, <2>2
      <3>2. q[1] = "quote"
        BY <2>1
      <3> QED
        BY <3>1, <3>2 DEF Clean
    <2>5. PICK b : b = a \o v
      OBVIOUS
    <2>6. Clean(T, b) /\ Len(b) = 3 + Len(v) /\ Len(v) \in Nat /\ b[1] = "sp"
      <3>1. Clean(T, a)
        BY <2>3
      <3>2. /\ Clean(T, b) /\ Len(b) = Len(a) + Len(v) /\ Len(v) \in Nat
            /\ \A i \in 1..Len(a) + Len(v) :
                 b[i] = IF i <= Len(a) THEN a[i] ELSE v[i - Len(a)]
        BY <3>1, <2>5, CleanConcat
      <3> QED
        BY <2>3, <3>2
    <2>7. Attr(k, v) = b \o q
      BY <1>2, <2>1, <2>5 DEF Attr
    <2>8. PICK c : c = b \o q
      OBVIOUS
    <2>9. /\ Clean(T, c) /\ Len(c) = Len(b) + Len(q)
          /\ \A i \in 1..Len(b) + Len(q) :
               c[i] = IF i <= Len(b) THEN b[i] ELSE q[i - Len(b)]
      <3>1. Clean(T, b) /\ Clean(T, q)
        BY <2>4, <2>6
      <3> QED
        BY <3>1, <2>8, CleanConcat
    <2>10. Len(c) >= 1 /\ c[1] = "sp"
      BY <2>4, <2>6, <2>9
    <2> QED
      BY <2>7, <2>8, <2>9, <2>10
  <1> QED BY <1>1, <1>2

\* A tag with one more attribute is a tag.
LEMMA TagGrows ==
    ASSUME NEW T, Marks \subseteq T, NEW s, Tag(T, s), NEW k \in Keys, NEW v,
           Clean(T, v)
    PROVE  Tag(T, s \o Attr(k, v))
  <1>1. PICK a : a = Attr(k, v)
    OBVIOUS
  <1>2. Clean(T, a) /\ (a = <<>> \/ (Len(a) >= 1 /\ a[1] = "sp"))
    BY <1>1, AttrClean
  <1>3. /\ Clean(T, s) /\ Len(s) >= 1 /\ s[1] = "open"
        /\ Len(s) >= 2 => s[2] = "sp"
    BY DEF Tag
  <1>4. PICK r : r = s \o a
    OBVIOUS
  <1>5. /\ Clean(T, r) /\ Len(r) = Len(s) + Len(a)
        /\ Len(s) \in Nat /\ Len(a) \in Nat
        /\ \A i \in 1..Len(s) + Len(a) :
             r[i] = IF i <= Len(s) THEN s[i] ELSE a[i - Len(s)]
    BY <1>2, <1>3, <1>4, CleanConcat
  <1>6. Len(r) >= 1 /\ r[1] = "open"
    BY <1>3, <1>5
  <1>7. ASSUME Len(r) >= 2 PROVE r[2] = "sp"
    <2>1. CASE Len(s) >= 2
      BY <1>3, <1>5, <1>7, <2>1
    <2>2. CASE Len(s) = 1
      <3>1. Len(a) >= 1
        BY <1>5, <1>7, <2>2
      <3>2. a # <<>>
        BY <3>1
      <3>3. a[1] = "sp" /\ r[2] = a[1]
        BY <1>2, <1>5, <1>7, <2>2, <3>2
      <3> QED BY <3>3
    <2>3. Len(s) >= 2 \/ Len(s) = 1
      <3>1. PICK n : n = Len(s)
        OBVIOUS
      <3>2. n \in Nat /\ n >= 1
        BY <1>3, <1>5, <3>1
      <3>3. n >= 2 \/ n = 1
        BY <3>2
      <3> QED
        BY <3>1, <3>3
    <2> QED
      BY <2>1, <2>2, <2>3
  <1> QED
    BY <1>1, <1>4, <1>5, <1>6, <1>7 DEF Tag

\* An element: the tag, ">" and a newline, the text, a newline and the closing
\* tag.
Element(p, text) == p \o <<"gt", "nl">> \o text \o <<"nl", "close">>

\* Where the pieces of an element lie.
Parts(T, s, p, text) ==
    /\ s \in Seq(T) /\ Len(s) = Len(p) + Len(text) + 4
    /\ \A i \in 1..Len(p) : s[i] = p[i]
    /\ s[Len(p) + 1] = "gt" /\ s[Len(p) + 2] = "nl"
    /\ \A i \in 1..Len(text) : s[Len(p) + 2 + i] = text[i]
    /\ s[Len(s) - 1] = "nl" /\ s[Len(s)] = "close"

\* They lie there in what Wrap puts together.
LEMMA ElementParts ==
    ASSUME NEW T, Marks \subseteq T, NEW p \in Seq(T), NEW text \in Seq(T),
           NEW s, s = Element(p, text)
    PROVE  Parts(T, s, p, text)
  <1>1. PICK a, b : a = <<"gt", "nl">> /\ b = <<"nl", "close">>
    OBVIOUS
  <1>2. /\ a \in Seq(T) /\ Len(a) = 2 /\ a[1] = "gt" /\ a[2] = "nl"
        /\ b \in Seq(T) /\ Len(b) = 2 /\ b[1] = "nl" /\ b[2] = "close"
    <2>1. "gt" \in T /\ "nl" \in T /\ "close" \in T
      BY DEF Marks
    <2> QED
      BY <1>1, <2>1
  <1>3. a \in Seq(T) /\ b \in Seq(T)
    BY <1>2
  <1>4. Len(p) \in Nat /\ Len(text) \in Nat
    BY LenProperties
  <1>5. PICK x : x = p \o a
    OBVIOUS
  <1>6. /\ x \in Seq(T) /\ Len(x) = Len(p) + Len(a)
        /\ \A i \in 1..Len(p) + Len(a) :
             x[i] = IF i <= Len(p) THEN p[i] ELSE a[i - Len(p)]
    BY <1>3, <1>5, ConcatProperties
  <1>7. PICK y : y = x \o text
    OBVIOUS
  <1>8. /\ y \in Seq(T) /\ Len(y) = Len(x) + Len(text)
        /\ \A i \in 1..Len(x) + Len(text) :
             y[i] = IF i <= Len(x) THEN x[i] ELSE text[i - Len(x)]
    <2>1. x \in Seq(T)
      BY <1>6
    <2> QED
      BY <2>1, <1>7, ConcatProperties
  <1>9. /\ s \in Seq(T) /\ Len(s) = Len(y) + Len(b)
        /\ \A i \in 1..Len(y) + Len(b) :
             s[i] = IF i <= Len(y) THEN y[i] ELSE b[i - Len(y)]
    <2>1. y \in Seq(T) /\ s = y \o b
      BY <1>1, <1>5, <1>7, <1>8 DEF Element
    <2> QED
      BY <1>3, <2>1, ConcatProperties
  <1>10. Len(x) = Len(p) + 2 /\ Len(y) = Len(p) + 2 + Len(text)
    BY <1>2, <1>4, <1>6, <1>8
  <1>11. Len(s) = Len(p) + Len(text) + 4
    BY <1>2, <1>4, <1>9, <1>10
  <1>12. \A i \in 1..Len(p) + 2 : s[i] = x[i]
    BY <1>2, <1>4, <1>8, <1>9, <1>10
  <1>13. \A i \in 1..Len(p) : s[i] = p[i]
    BY <1>2, <1>4, <1>6, <1>12
  <1>14. s[Len(p) + 1] = "gt" /\ s[Len(p) + 2] = "nl"
    <2>1. PICK n : n = Len(p)
      OBVIOUS
    <2>2. /\ n + 1 \in 1..Len(p) + 2 /\ n + 2 \in 1..Len(p) + 2
          /\ ~(n + 1 <= Len(p)) /\ (n + 1) - Len(p) = 1
          /\ ~(n + 2 <= Len(p)) /\ (n + 2) - Len(p) = 2
      BY <1>4, <2>1
    <2>3. Len(a) = 2
      BY <1>2
    <2>4. x[n + 1] = a[1] /\ x[n + 2] = a[2]
      BY <1>6, <2>2, <2>3
    <2>5. s[n + 1] = x[n + 1] /\ s[n + 2] = x[n + 2]
      BY <1>12, <2>2
    <2> QED
      BY <1>2, <2>1, <2>4, <2>5
  <1>15. \A i \in 1..Len(text) : s[Len(p) + 2 + i] = text[i]
    <2> SUFFICES ASSUME NEW i \in 1..Len(text)
                 PROVE  s[Len(p) + 2 + i] = text[i]
      OBVIOUS
    <2>1. PICK j : j = Len(p) + 2 + i
      OBVIOUS
    <2>2. /\ j \in 1..Len(y) /\ j \in 1..Len(x) + Len(text)
          /\ ~(j <= Len(x)) /\ j - Len(x) = i
      BY <1>4, <1>10, <2>1
    <2>3. s[j] = y[j]
      BY <1>2, <1>4, <1>9, <1>10, <2>2
    <2>4. y[j] = text[j - Len(x)]
      BY <1>8, <2>2
    <2> QED
      BY <2>1, <2>2, <2>3, <2>4
  <1>16. s[Len(s) - 1] = "nl" /\ s[Len(s)] = "close"
    <2>1. PICK n : n = Len(s)
      OBVIOUS
    <2>2. Len(b) = 2
      BY <1>2
    <2>3. /\ n - 1 \in 1..Len(y) + 2 /\ n \in 1..Len(y) + 2
          /\ ~(n - 1 <= Len(y)) /\ (n - 1) - Len(y) = 1
          /\ ~(n <= Len(y)) /\ n - Len(y) = 2
      BY <1>4, <1>10, <1>11, <2>1
    <2>4. s[n - 1] = b[1] /\ s[n] = b[2]
      BY <1>9, <2>2, <2>3
    <2> QED
      BY <1>2, <2>1, <2>4
  <1> QED
    BY <1>9, <1>11, <1>13, <1>14, <1>15, <1>16 DEF Parts

\* The open tag ends where Wrap put its ">".
LEMMA TagEnds ==
    ASSUME NEW T, NEW s \in Seq(T), NEW g \in 1..Len(s), s[g] = "gt",
           \A i \in 1..g - 1 : s[i] \notin {"gt", "close"}
    PROVE  TagEnd(s) = g
  <1> DEFINE P == {i \in DOMAIN s : s[i] \in {"gt", "close"}} \cup {Len(s) + 1}
  <1>1. DOMAIN s = 1..Len(s) /\ Len(s) \in Nat
    BY LenProperties
  <1>2. g \in P /\ \A j \in P : g <= j
    BY <1>1
  <1>3. P \subseteq Nat
    BY <1>1
  <1> HIDE DEF P
  <1>4. \A i \in P : (\A j \in P : i <= j) => i = g
    BY <1>2, <1>3
  <1>5. First(P) = g
    BY <1>2, <1>4 DEF First
  <1> QED
    BY <1>5 DEF TagEnd, P

\* What follows the first token of a text.
LEMMA TailOf ==
    ASSUME NEW T, NEW p \in Seq(T), NEW n \in Nat, n >= 1, n <= Len(p),
           NEW r, r = SubSeq(p, 2, n)
    PROVE  /\ r \in Seq(T) /\ Len(r) = n - 1
           /\ \A i \in 1..n - 1 : r[i] = p[i + 1]
  <1>1. \A i \in 2..n : p[i] \in T
    <2>1. \A i \in 2..n : i \in 1..Len(p)
      BY LenProperties
    <2> QED
      BY <2>1, ElementOfSeq
  <1>2. /\ r \in Seq(T) /\ Len(r) = IF 2 <= n THEN n - 2 + 1 ELSE 0
        /\ \A i \in 1..n - 2 + 1 : r[i] = p[2 + i - 1]
    <2>1. 2 \in Int /\ n \in Int
      OBVIOUS
    <2> QED
      BY <1>1, <2>1, SubSeqProperties
  <1>3. ASSUME NEW i \in 1..n - 1 PROVE r[i] = p[i + 1]
    <2>1. i \in 1..n - 2 + 1 /\ 2 + i - 1 = i + 1
      OBVIOUS
    <2> QED
      BY <1>2, <2>1
  <1> QED
    BY <1>2, <1>3

\* It is the same in two texts that begin alike.
LEMMA SameTail ==
    ASSUME NEW T, NEW p \in Seq(T), NEW s \in Seq(T), NEW n \in Nat, n >= 1,
           n <= Len(p), n <= Len(s), \A i \in 1..n : s[i] = p[i]
    PROVE  SubSeq(s, 2, n) = SubSeq(p, 2, n)
  <1>1. PICK q, r : q = SubSeq(s, 2, n) /\ r = SubSeq(p, 2, n)
    OBVIOUS
  <1>2. /\ q \in Seq(T) /\ Len(q) = n - 1
        /\ \A i \in 1..n - 1 : q[i] = s[i + 1]
    BY <1>1, TailOf
  <1>3. /\ r \in Seq(T) /\ Len(r) = n - 1
        /\ \A i \in 1..n - 1 : r[i] = p[i + 1]
    BY <1>1, TailOf
  <1>4. ASSUME NEW i \in 1..n - 1 PROVE q[i] = r[i]
    <2>1. i + 1 \in 1..n
      OBVIOUS
    <2> QED
      BY <1>2, <1>3, <2>1
  <1> QED
    BY <1>1, <1>2, <1>3, <1>4, SeqEqual

\* What Unwrap should make of an element.
Reading(p, text) ==
    LET a == Attributes(SubSeq(p, 2, Len(p)))
    IN [cs |-> [from |-> a["from="], name |-> a["from-name="],
                mode |-> a["from-mode="]], body |-> text, ok |-> TRUE]

\* What Unwrap makes of an element, and of one with a token before or after it.
LEMMA ElementReads ==
    ASSUME NEW T, Marks \subseteq T, NEW p, Tag(T, p), NEW text \in Seq(T),
           NEW s, s = Element(p, text)
    PROVE  /\ Unwrap(s) = Reading(p, text)
           /\ \A w \in T \ {"open"} : ~Unwrap(<<w>> \o s).ok
           /\ \A w \in T \ {"close"} : ~Unwrap(s \o <<w>>).ok
  <1>1. p \in Seq(T) /\ Len(p) \in Nat /\ Len(text) \in Nat /\ Len(p) >= 1
    <2>1. p \in Seq(T) /\ Len(p) >= 1
      BY DEF Tag, Clean
    <2> QED
      BY <2>1, LenProperties
  <1>2. /\ s \in Seq(T) /\ Len(s) = Len(p) + Len(text) + 4
        /\ \A i \in 1..Len(p) : s[i] = p[i]
        /\ s[Len(p) + 1] = "gt" /\ s[Len(p) + 2] = "nl"
        /\ \A i \in 1..Len(text) : s[Len(p) + 2 + i] = text[i]
        /\ s[Len(s) - 1] = "nl" /\ s[Len(s)] = "close"
    <2>1. p \in Seq(T)
      BY <1>1
    <2>2. Parts(T, s, p, text)
      BY <2>1, ElementParts
    <2> QED
      BY <2>2 DEF Parts
  <1>3. TagEnd(s) = Len(p) + 1
    <2>1. \A i \in 1..Len(p) : s[i] \notin {"gt", "close"}
      BY <1>2 DEF Tag, Clean
    <2>2. PICK g : g = Len(p) + 1
      OBVIOUS
    <2>3. /\ g \in 1..Len(s) /\ s[g] = "gt" /\ s \in Seq(T)
          /\ \A i \in 1..g - 1 : s[i] \notin {"gt", "close"}
      BY <1>1, <1>2, <2>1, <2>2
    <2> QED
      BY <2>2, <2>3, TagEnds
  <1>4. s[1] = "open" /\ s[2] \in {"sp", "gt"}
    <2>1. s[1] = p[1] /\ p[1] = "open"
      BY <1>1, <1>2 DEF Tag
    <2>2. CASE Len(p) >= 2
      <3>1. s[2] = p[2]
        BY <1>1, <1>2, <2>2
      <3>2. p[2] = "sp"
        BY <2>2 DEF Tag
      <3> QED
        BY <2>1, <3>1, <3>2
    <2>3. CASE Len(p) = 1
      <3>1. Len(p) + 1 = 2
        BY <2>3
      <3>2. s[2] = "gt"
        BY <1>2, <3>1
      <3> QED
        BY <2>1, <3>2
    <2>4. Len(p) >= 2 \/ Len(p) = 1
      <3>1. PICK n : n = Len(p)
        OBVIOUS
      <3>2. n \in Nat /\ n >= 1
        BY <1>1, <3>1
      <3>3. n >= 2 \/ n = 1
        BY <3>2
      <3> QED
        BY <3>1, <3>3
    <2> QED
      BY <2>2, <2>3, <2>4
  <1>5. Matches(s)
    <2>1. Len(s) >= (Len(p) + 1) + 3 /\ s[(Len(p) + 1) + 1] = "nl"
      BY <1>1, <1>2
    <2> QED
      BY <1>2, <1>3, <1>4, <2>1 DEF Matches, Breaks
  <1>6. SubSeq(s, TagEnd(s) + 2, Len(s) - 2) = text
    <2>1. PICK m, n : m = TagEnd(s) + 2 /\ n = Len(s) - 2
      OBVIOUS
    <2>2. /\ m = Len(p) + 3 /\ n = Len(p) + Len(text) + 2
          /\ m \in Int /\ n \in Int
      BY <1>1, <1>2, <1>3, <2>1
    <2>3. \A i \in m..n : s[i] \in T
      BY <1>1, <1>2, <2>2
    <2>4. PICK r : r = SubSeq(s, m, n)
      OBVIOUS
    <2>5. /\ r \in Seq(T) /\ Len(r) = IF m <= n THEN n - m + 1 ELSE 0
          /\ \A i \in 1..n - m + 1 : r[i] = s[m + i - 1]
      <3>1. m \in Int /\ n \in Int
        BY <2>2
      <3> QED
        BY <2>3, <2>4, <3>1, SubSeqProperties
    <2>6. Len(r) = Len(text)
      BY <1>1, <2>2, <2>5
    <2>7. \A i \in 1..Len(text) : r[i] = text[i]
      <3> SUFFICES ASSUME NEW i \in 1..Len(text) PROVE r[i] = text[i]
        OBVIOUS
      <3>1. i \in 1..n - m + 1 /\ m + i - 1 = Len(p) + 2 + i
        BY <1>1, <2>2
      <3>2. r[i] = s[m + i - 1]
        BY <2>5, <3>1
      <3>3. s[Len(p) + 2 + i] = text[i]
        BY <1>2
      <3> QED
        BY <3>1, <3>2, <3>3
    <2>8. r \in Seq(T)
      BY <2>5
    <2> QED
      BY <2>1, <2>4, <2>6, <2>7, <2>8, SeqEqual
  <1>7. Unwrap(s) = Reading(p, text)
    <2>1. TagEnd(s) - 1 = Len(p)
      BY <1>1, <1>3
    <2>2. PICK n : n = Len(p)
      OBVIOUS
    <2>3. n \in Nat /\ n >= 1 /\ n <= Len(s) /\ \A i \in 1..n : s[i] = p[i]
      BY <1>1, <1>2, <2>2
    <2>4. SubSeq(s, 2, n) = SubSeq(p, 2, n)
      BY <1>1, <1>2, <2>2, <2>3, SameTail
    <2> QED
      BY <1>5, <1>6, <2>1, <2>2, <2>4 DEF Unwrap, Reading
  <1>8. ASSUME NEW w \in T \ {"open"} PROVE ~Unwrap(<<w>> \o s).ok
    <2>1. PICK q : q = <<w>>
      OBVIOUS
    <2>2. q \in Seq(T) /\ Len(q) = 1 /\ q[1] = w
      BY <2>1
    <2>3. (q \o s)[1] = w
      <3>1. q \in Seq(T) /\ s \in Seq(T)
        BY <1>2, <2>2
      <3>2. \A i \in 1..Len(q) + Len(s) :
              (q \o s)[i] = IF i <= Len(q) THEN q[i] ELSE s[i - Len(q)]
        BY <3>1, ConcatProperties
      <3>3. 1 \in 1..Len(q) + Len(s) /\ 1 <= Len(q)
        BY <1>1, <1>2, <2>2
      <3> QED
        BY <2>2, <3>2, <3>3
    <2>4. ~Matches(q \o s)
      BY <2>3 DEF Matches
    <2> QED
      BY <2>1, <2>4 DEF Unwrap
  <1>9. ASSUME NEW w \in T \ {"close"} PROVE ~Unwrap(s \o <<w>>).ok
    <2>1. PICK q : q = <<w>>
      OBVIOUS
    <2>2. q \in Seq(T) /\ Len(q) = 1 /\ q[1] = w
      BY <2>1
    <2>3. Len(s \o q) = Len(s) + 1 /\ (s \o q)[Len(s) + 1] = w
      <3>1. q \in Seq(T) /\ s \in Seq(T)
        BY <1>2, <2>2
      <3>2. /\ Len(s \o q) = Len(s) + Len(q)
            /\ \A i \in 1..Len(s) + Len(q) :
                 (s \o q)[i] = IF i <= Len(s) THEN s[i] ELSE q[i - Len(s)]
        BY <3>1, ConcatProperties
      <3>3. PICK n : n = Len(s) + 1
        OBVIOUS
      <3>4. n \in 1..Len(s) + Len(q) /\ ~(n <= Len(s)) /\ n - Len(s) = 1
        BY <1>1, <1>2, <2>2, <3>3
      <3>5. (s \o q)[n] = q[n - Len(s)]
        BY <3>2, <3>4
      <3> QED
        BY <2>2, <3>2, <3>3, <3>4, <3>5
    <2>4. ~Matches(s \o q)
      BY <2>3 DEF Matches
    <2> QED
      BY <2>1, <2>4 DEF Unwrap
  <1> QED
    BY <1>7, <1>8, <1>9

\* A plain value does not end the tag.
LEMMA PlainIsClean ==
    ASSUME NEW T, NEW v, Plain(T, v)
    PROVE  Clean(T, v)
  BY DEF Plain, Clean

-----------------------------------------------------------------------------
(* The tag that Wrap writes *)

\* Where the pieces of an attribute lie.
LEMMA AttrParts ==
    ASSUME NEW T, Marks \subseteq T, NEW k \in Keys, NEW v \in Seq(T), v # <<>>,
           NEW a, a = Attr(k, v)
    PROVE  /\ a \in Seq(T) /\ Len(v) \in Nat /\ Len(a) = Len(v) + 4
           /\ a[1] = "sp" /\ a[2] = k /\ a[3] = "quote"
           /\ \A j \in 1..Len(v) : a[3 + j] = v[j]
           /\ a[4 + Len(v)] = "quote"
  <1>1. PICK b, q : b = <<"sp", k, "quote">> /\ q = <<"quote">>
    OBVIOUS
  <1>2. k \in T /\ "sp" \in T /\ "quote" \in T
    BY DEF Marks
  <1>3. /\ b \in Seq(T) /\ Len(b) = 3
        /\ b[1] = "sp" /\ b[2] = k /\ b[3] = "quote"
        /\ q \in Seq(T) /\ Len(q) = 1 /\ q[1] = "quote"
    BY <1>1, <1>2
  <1>4. Len(v) \in Nat
    BY LenProperties
  <1>5. PICK c : c = b \o v
    OBVIOUS
  <1>6. /\ c \in Seq(T) /\ Len(c) = Len(b) + Len(v)
        /\ \A i \in 1..Len(b) + Len(v) :
             c[i] = IF i <= Len(b) THEN b[i] ELSE v[i - Len(b)]
    <2>1. b \in Seq(T)
      BY <1>3
    <2> QED
      BY <1>5, <2>1, ConcatProperties
  <1>7. a = c \o q
    BY <1>1, <1>5 DEF Attr
  <1>8. /\ a \in Seq(T) /\ Len(a) = Len(c) + Len(q)
        /\ \A i \in 1..Len(c) + Len(q) :
             a[i] = IF i <= Len(c) THEN c[i] ELSE q[i - Len(c)]
    <2>1. c \in Seq(T) /\ q \in Seq(T)
      BY <1>3, <1>6
    <2> QED
      BY <1>7, <2>1, ConcatProperties
  <1>9. PICK n : n = Len(v)
    OBVIOUS
  <1>10. n \in Nat /\ Len(b) = 3 /\ Len(q) = 1 /\ Len(c) = 3 + n
    BY <1>3, <1>4, <1>6, <1>9
  <1>11. \A i \in 1..3 + n : a[i] = c[i]
    BY <1>8, <1>10
  <1>12. a[1] = "sp" /\ a[2] = k /\ a[3] = "quote"
    <2>1. c[1] = b[1] /\ c[2] = b[2] /\ c[3] = b[3]
      BY <1>6, <1>9, <1>10
    <2> QED
      BY <1>3, <1>10, <1>11, <2>1
  <1>13. ASSUME NEW j \in 1..n PROVE a[3 + j] = v[j]
    <2>1. PICK i : i = 3 + j
      OBVIOUS
    <2>2. i \in 1..3 + n /\ ~(i <= 3) /\ i - 3 = j
      BY <1>10, <2>1
    <2>3. c[i] = v[j]
      BY <1>6, <1>9, <1>10, <2>2
    <2> QED
      BY <1>11, <2>1, <2>2, <2>3
  <1>14. a[4 + n] = "quote"
    <2>1. PICK i : i = 4 + n
      OBVIOUS
    <2>2. i \in 1..(3 + n) + 1 /\ ~(i <= 3 + n) /\ i - (3 + n) = 1
      BY <1>10, <2>1
    <2>3. a[i] = q[1]
      BY <1>8, <1>10, <2>2
    <2> QED
      BY <1>3, <2>1, <2>3
  <1>15. Len(a) = n + 4
    BY <1>8, <1>10
  <1> QED
    BY <1>8, <1>9, <1>10, <1>12, <1>13, <1>14, <1>15

\* r is p with one more attribute behind it.
Grown(T, p, r, k, v) ==
    /\ r \in Seq(T) /\ Len(p) \in Nat /\ Size(v) \in Nat
    /\ Len(r) = Len(p) + Size(v)
    /\ \A i \in 1..Len(p) : r[i] = p[i]
    /\ Field(r, Len(p), k, v)

\* So is a text that Wrap extends.
LEMMA FieldAdded ==
    ASSUME NEW T, Marks \subseteq T, NEW p \in Seq(T), NEW k \in Keys, NEW v,
           Plain(T, v), NEW r, r = p \o Attr(k, v)
    PROVE  Grown(T, p, r, k, v)
  <1>1. v \in Seq(T) /\ Len(p) \in Nat
    BY LenProperties DEF Plain
  <1>2. CASE v = <<>>
    <2>1. Attr(k, v) = <<>> /\ Size(v) = 0
      BY <1>2 DEF Attr, Size
    <2>2. r = p
      BY <2>1, ConcatEmptySeq
    <2>3. Field(r, Len(p), k, v)
      BY <1>2 DEF Field
    <2>4. Len(p) = Len(p) + 0
      BY <1>1
    <2> QED
      BY <1>1, <2>1, <2>2, <2>3, <2>4 DEF Grown
  <1>3. CASE v # <<>>
    <2>1. PICK a, n, o : a = Attr(k, v) /\ n = Len(v) /\ o = Len(p)
      OBVIOUS
    <2>2. /\ a \in Seq(T) /\ n \in Nat /\ Len(a) = n + 4
          /\ a[1] = "sp" /\ a[2] = k /\ a[3] = "quote"
          /\ \A j \in 1..n : a[3 + j] = v[j]
          /\ a[4 + n] = "quote"
      BY <1>1, <1>3, <2>1, AttrParts
    <2>3. /\ r \in Seq(T) /\ Len(r) = Len(p) + Len(a)
          /\ \A i \in 1..Len(p) + Len(a) :
               r[i] = IF i <= Len(p) THEN p[i] ELSE a[i - Len(p)]
      <3>1. r = p \o a /\ a \in Seq(T)
        BY <2>1, <2>2
      <3> QED
        BY <3>1, ConcatProperties
    <2>4. o \in Nat /\ Len(p) + Len(a) = o + n + 4
      BY <1>1, <2>1, <2>2
    <2>5. ASSUME NEW j \in 1..n + 4 PROVE r[o + j] = a[j]
      <3>1. PICK i : i = o + j
        OBVIOUS
      <3>2. i \in 1..o + n + 4 /\ ~(i <= o) /\ i - o = j
        BY <2>2, <2>4, <3>1
      <3>3. r[i] = a[j]
        BY <2>1, <2>3, <2>4, <3>2
      <3> QED
        BY <3>1, <3>3
    <2>6. /\ 1 \in 1..n + 4 /\ 2 \in 1..n + 4 /\ 3 \in 1..n + 4
          /\ 4 + n \in 1..n + 4 /\ \A j \in 1..n : 3 + j \in 1..n + 4
      BY <2>2
    <2>7. r[o + 1] = "sp" /\ r[o + 2] = k /\ r[o + 3] = "quote"
      BY <2>2, <2>5, <2>6
    <2>8. \A j \in 1..n : r[o + 3 + j] = v[j]
      <3> SUFFICES ASSUME NEW j \in 1..n PROVE r[o + 3 + j] = v[j]
        OBVIOUS
      <3>1. o + (3 + j) = o + 3 + j
        BY <2>2, <2>4
      <3>2. r[o + (3 + j)] = a[3 + j]
        BY <2>5, <2>6
      <3> QED
        BY <2>2, <3>1, <3>2
    <2>9. r[o + 4 + n] = "quote"
      <3>1. o + (4 + n) = o + 4 + n
        BY <2>2, <2>4
      <3>2. r[o + (4 + n)] = a[4 + n]
        BY <2>5, <2>6
      <3> QED
        BY <2>2, <3>1, <3>2
    <2>10. Field(r, o, k, v)
      BY <2>1, <2>7, <2>8, <2>9 DEF Field
    <2>11. Size(v) = n + 4
      BY <1>3, <2>1 DEF Size
    <2>12. \A i \in 1..o : r[i] = p[i]
      BY <2>1, <2>2, <2>3, <2>4
    <2>13. Len(r) = o + (n + 4)
      BY <2>1, <2>2, <2>3
    <2> QED
      BY <2>1, <2>2, <2>3, <2>4, <2>10, <2>11, <2>12, <2>13 DEF Grown
  <1> QED
    BY <1>2, <1>3

\* An attribute is the same in a text that agrees with another where it lies.
LEMMA FieldMoves ==
    ASSUME NEW T, NEW q, NEW r, NEW o \in Nat, NEW d \in Nat, NEW k, NEW v,
           v \in Seq(T), Field(q, o + d, k, v),
           \A i \in o + 1..o + Size(v) : r[i] = q[i + d]
    PROVE  Field(r, o, k, v)
  <1> SUFFICES ASSUME v # <<>> PROVE Field(r, o, k, v)
    BY DEF Field
  <1>1. PICK n : n = Len(v)
    OBVIOUS
  <1>2. n \in Nat /\ Size(v) = n + 4
    BY <1>1, LenProperties DEF Size
  <1>3. /\ q[o + d + 1] = "sp" /\ q[o + d + 2] = k /\ q[o + d + 3] = "quote"
        /\ \A j \in 1..n : q[o + d + 3 + j] = v[j]
        /\ q[o + d + 4 + n] = "quote"
    BY <1>1 DEF Field
  <1>4. ASSUME NEW j \in 1..n + 4 PROVE r[o + j] = q[o + d + j]
    <2>1. PICK i : i = o + j
      OBVIOUS
    <2>2. i \in o + 1..o + (n + 4) /\ i + d = o + d + j
      BY <1>2, <2>1
    <2>3. r[i] = q[i + d]
      BY <1>2, <2>2
    <2> QED
      BY <2>1, <2>2, <2>3
  <1>5. /\ 1 \in 1..n + 4 /\ 2 \in 1..n + 4 /\ 3 \in 1..n + 4
        /\ 4 + n \in 1..n + 4 /\ \A j \in 1..n : 3 + j \in 1..n + 4
    BY <1>2
  <1>6. r[o + 1] = "sp" /\ r[o + 2] = k /\ r[o + 3] = "quote"
    BY <1>3, <1>4, <1>5
  <1>7. ASSUME NEW j \in 1..n PROVE r[o + 3 + j] = v[j]
    <2>1. o + (3 + j) = o + 3 + j /\ o + d + (3 + j) = o + d + 3 + j
      BY <1>2
    <2>2. r[o + (3 + j)] = q[o + d + (3 + j)]
      BY <1>4, <1>5
    <2> QED
      BY <1>3, <2>1, <2>2
  <1>8. r[o + 4 + n] = "quote"
    <2>1. o + (4 + n) = o + 4 + n /\ o + d + (4 + n) = o + d + 4 + n
      BY <1>2
    <2>2. r[o + (4 + n)] = q[o + d + (4 + n)]
      BY <1>4, <1>5
    <2> QED
      BY <1>3, <2>1, <2>2
  <1> QED
    BY <1>1, <1>6, <1>7, <1>8 DEF Field

\* Three attributes that follow each other after one token.
LEMMA TagLayout ==
    ASSUME NEW T, NEW u, NEW v, NEW w,
           Plain(T, u), Plain(T, v), Plain(T, w),
           NEW p0, Len(p0) = 1, NEW p1, Grown(T, p0, p1, "from=", u),
           NEW p2, Grown(T, p1, p2, "from-name=", v),
           NEW p, Grown(T, p2, p, "from-mode=", w)
    PROVE  \E O : Layout(T, SubSeq(p, 2, Len(p)), <<u, v, w>>, O)
  <1>1. PICK a, b, c : a = Size(u) /\ b = Size(v) /\ c = Size(w)
    OBVIOUS
  <1>2. /\ p1 \in Seq(T) /\ a \in Nat /\ Len(p1) = 1 + a
        /\ Field(p1, 1, "from=", u)
    BY <1>1 DEF Grown
  <1>3. /\ p2 \in Seq(T) /\ b \in Nat /\ Len(p2) = 1 + a + b
        /\ \A i \in 1..1 + a : p2[i] = p1[i]
        /\ Field(p2, 1 + a, "from-name=", v)
    BY <1>1, <1>2 DEF Grown
  <1>4. /\ p \in Seq(T) /\ c \in Nat /\ Len(p) = 1 + a + b + c
        /\ \A i \in 1..1 + a + b : p[i] = p2[i]
        /\ Field(p, 1 + a + b, "from-mode=", w)
    BY <1>1, <1>3 DEF Grown
  <1>5. PICK n : n = Len(p)
    OBVIOUS
  <1>6. /\ a \in Nat /\ b \in Nat /\ c \in Nat
        /\ n \in Nat /\ n = 1 + a + b + c /\ n >= 1 /\ n <= n
    BY <1>2, <1>3, <1>4, <1>5
  <1>7. PICK tag : tag = SubSeq(p, 2, n)
    OBVIOUS
  <1>8. /\ tag \in Seq(T) /\ Len(tag) = n - 1
        /\ \A i \in 1..n - 1 : tag[i] = p[i + 1]
    <2>1. p \in Seq(T) /\ n <= Len(p)
      BY <1>4, <1>5, <1>6
    <2> QED
      BY <1>6, <1>7, <2>1, TailOf
  <1>9. u \in Seq(T) /\ v \in Seq(T) /\ w \in Seq(T)
    BY DEF Plain
  <1>10. Field(tag, 0, "from=", u)
    <2>1. ASSUME NEW i \in 0 + 1..0 + a PROVE tag[i] = p1[i + 1]
      <3>1. PICK h : h = i + 1
        OBVIOUS
      <3>2. i \in 1..n - 1 /\ h \in 1..1 + a + b /\ h \in 1..1 + a
        BY <1>6, <3>1
      <3>3. tag[i] = p[h] /\ p[h] = p2[h] /\ p2[h] = p1[h]
        BY <1>3, <1>4, <1>8, <3>1, <3>2
      <3> QED
        BY <3>1, <3>3
    <2>2. Field(p1, 0 + 1, "from=", u)
      BY <1>2
    <2> QED
      BY <1>1, <1>9, <2>1, <2>2, FieldMoves
  <1>11. Field(tag, a, "from-name=", v)
    <2>1. ASSUME NEW i \in a + 1..a + b PROVE tag[i] = p2[i + 1]
      <3>1. PICK h : h = i + 1
        OBVIOUS
      <3>2. i \in 1..n - 1 /\ h \in 1..1 + a + b
        BY <1>6, <3>1
      <3>3. tag[i] = p[h] /\ p[h] = p2[h]
        BY <1>4, <1>8, <3>1, <3>2
      <3> QED
        BY <3>1, <3>3
    <2>2. 1 + a = a + 1
      BY <1>2
    <2>3. Field(p2, a + 1, "from-name=", v)
      BY <1>3, <2>2
    <2> QED
      BY <1>1, <1>2, <1>9, <2>1, <2>3, FieldMoves
  <1>12. Field(tag, a + b, "from-mode=", w)
    <2>1. PICK o : o = a + b
      OBVIOUS
    <2>2. o \in Nat /\ 1 + a + b = o + 1
      BY <1>2, <1>3, <2>1
    <2>3. ASSUME NEW i \in o + 1..o + c PROVE tag[i] = p[i + 1]
      <3>1. i \in 1..n - 1
        BY <1>6, <2>1
      <3> QED
        BY <1>8, <3>1
    <2>4. Field(p, o + 1, "from-mode=", w)
      BY <1>4, <2>2
    <2>5. Field(tag, o, "from-mode=", w)
      BY <1>1, <1>9, <2>2, <2>3, <2>4, FieldMoves
    <2> QED
      BY <2>1, <2>5
  <1>13. PICK O : O = <<0, a, a + b, a + b + c>>
    OBVIOUS
  <1>14. PICK V : V = <<u, v, w>>
    OBVIOUS
  <1>15. /\ O \in [1..4 -> Nat]
         /\ O[1] = 0 /\ O[2] = a /\ O[3] = a + b /\ O[4] = a + b + c
    BY <1>2, <1>3, <1>4, <1>13
  <1>16. V[1] = u /\ V[2] = v /\ V[3] = w
    BY <1>14
  <1>17. /\ Order[1] = "from=" /\ Order[2] = "from-name="
         /\ Order[3] = "from-mode="
    BY DEF Order
  <1>18. O[4] = Len(tag)
    BY <1>2, <1>3, <1>4, <1>6, <1>8, <1>15
  <1>19. ASSUME NEW x \in 1..3
         PROVE  /\ Plain(T, V[x]) /\ Field(tag, O[x], Order[x], V[x])
                /\ O[x + 1] = O[x] + Size(V[x])
    <2>1. CASE x = 1
      <3>1. V[x] = u /\ Order[x] = "from=" /\ O[x] = 0 /\ O[x + 1] = 0 + a
        BY <1>2, <1>15, <1>16, <1>17, <2>1
      <3> QED
        BY <1>1, <1>10, <3>1
    <2>2. CASE x = 2
      <3>1. V[x] = v /\ Order[x] = "from-name=" /\ O[x] = a /\ O[x + 1] = a + b
        BY <1>15, <1>16, <1>17, <2>2
      <3> QED
        BY <1>1, <1>11, <3>1
    <2>3. CASE x = 3
      <3>1. /\ V[x] = w /\ Order[x] = "from-mode=" /\ O[x] = a + b
            /\ O[x + 1] = a + b + c
        BY <1>15, <1>16, <1>17, <2>3
      <3> QED
        BY <1>1, <1>12, <3>1
    <2> QED
      BY <2>1, <2>2, <2>3
  <1>20. Layout(T, tag, V, O)
    BY <1>8, <1>15, <1>18, <1>19 DEF Layout
  <1> QED
    BY <1>5, <1>7, <1>14, <1>20

\* The tag that Wrap writes.
LEMMA WrapTag ==
    ASSUME NEW T, Marks \subseteq T, NEW u, NEW v, NEW w,
           Plain(T, u), Plain(T, v), Plain(T, w),
           NEW p0, p0 = <<"open">>, NEW p1, p1 = p0 \o Attr("from=", u),
           NEW p2, p2 = p1 \o Attr("from-name=", v),
           NEW p, p = p2 \o Attr("from-mode=", w)
    PROVE  /\ Tag(T, p)
           /\ \E O : Layout(T, SubSeq(p, 2, Len(p)), <<u, v, w>>, O)
  <1>1. "from=" \in Keys /\ "from-name=" \in Keys /\ "from-mode=" \in Keys
    BY DEF Keys
  <1>2. p0 \in Seq(T) /\ Len(p0) = 1 /\ p0[1] = "open"
    <2>1. "open" \in T
      BY DEF Marks
    <2> QED
      BY <2>1
  <1>3. Tag(T, p)
    <2>1. Tag(T, p0)
      BY <1>2 DEF Tag, Clean
    <2>2. Clean(T, u) /\ Clean(T, v) /\ Clean(T, w)
      BY PlainIsClean
    <2>3. Tag(T, p1)
      BY <1>1, <2>1, <2>2, TagGrows
    <2>4. Tag(T, p2)
      BY <1>1, <2>2, <2>3, TagGrows
    <2> QED
      BY <1>1, <2>2, <2>4, TagGrows
  <1>4. Grown(T, p0, p1, "from=", u)
    BY <1>1, <1>2, FieldAdded
  <1>5. Grown(T, p1, p2, "from-name=", v)
    <2>1. p1 \in Seq(T)
      BY <1>4 DEF Grown
    <2> QED
      BY <1>1, <2>1, FieldAdded
  <1>6. Grown(T, p2, p, "from-mode=", w)
    <2>1. p2 \in Seq(T)
      BY <1>5 DEF Grown
    <2> QED
      BY <1>1, <2>1, FieldAdded
  <1>7. \E O : Layout(T, SubSeq(p, 2, Len(p)), <<u, v, w>>, O)
    <2>1. Len(p0) = 1
      BY <1>2
    <2> QED
      BY <1>4, <1>5, <1>6, <2>1, TagLayout
  <1> QED
    BY <1>3, <1>7

\* What a session may learn of the sender.
Kept(cs) == [from |-> UsableFrom(cs.from), name |-> scrubName(cs.name),
             mode |-> UsableMode(cs.mode)]

\* An address, a scrubbed name and a mode stay inside their attributes.
LEMMA KeptPlain ==
    ASSUME NEW T, Marks \subseteq T, NEW cs, cs.name \in Seq(T \ {"close"})
    PROVE  /\ Plain(T, UsableFrom(cs.from)) /\ Plain(T, scrubName(cs.name))
           /\ Plain(T, UsableMode(cs.mode))
  <1>1. ASSUME NEW w \in T, w \notin {"quote", "gt", "close"}
        PROVE  Plain(T, <<w>>)
    <2>1. <<w>> \in Seq(T) /\ Len(<<w>>) = 1 /\ <<w>>[1] = w
      OBVIOUS
    <2> QED
      BY <1>1, <2>1 DEF Plain
  <1>2. Plain(T, <<>>)
    BY DEF Plain
  <1>3. "uds:addr" \in T /\ "prompting" \in T
    BY DEF Marks
  <1>4. Plain(T, UsableFrom(cs.from)) /\ Plain(T, UsableMode(cs.mode))
    BY <1>1, <1>2, <1>3 DEF UsableFrom, UsableMode
  <1>5. Plain(T, scrubName(cs.name))
    <2>1. PICK S : S = T \ {"close"}
      OBVIOUS
    <2>2. PICK name : name = cs.name
      OBVIOUS
    <2>3. PICK r : r = scrubName(name)
      OBVIOUS
    <2>4. PICK U : U = S \ {"quote", "lt", "gt", "nl", "cc"}
      OBVIOUS
    <2>5. r \in Seq(U)
      <3>1. name \in Seq(S)
        BY <2>1, <2>2
      <3> QED
        BY <2>3, <2>4, <3>1, NameIsScrubbed
    <2>6. U \subseteq T /\ \A x \in U : x \notin {"quote", "gt", "close"}
      BY <2>1, <2>4
    <2>7. r \in Seq(T)
      BY <2>5, <2>6, SeqMonotonic
    <2>8. \A i \in 1..Len(r) : r[i] \in U
      BY <2>5, ElementOfSeq
    <2> QED
      BY <2>2, <2>3, <2>6, <2>7, <2>8 DEF Plain
  <1> QED
    BY <1>4, <1>5

\* What Wrap wraps, Unwrap returns, whatever the text quotes and whatever the
\* name holds: the text token by token, the address and the mode as given or
\* none, and the name as scrubName left it.  With a token before or after it the
\* element is no longer read as one.  The only limit is that a name does not
\* hold the closing tag as one token: its characters are scrubbed one by one.
THEOREM EnvelopeSurvives ==
    ASSUME NEW T, Marks \subseteq T, NEW cs, cs.name \in Seq(T \ {"close"}),
           NEW text \in Seq(T)
    PROVE  /\ Unwrap(Wrap(cs, text))
                = [cs |-> Kept(cs), body |-> text, ok |-> TRUE]
           /\ \A w \in T \ {"open"} : ~Unwrap(<<w>> \o Wrap(cs, text)).ok
           /\ \A w \in T \ {"close"} : ~Unwrap(Wrap(cs, text) \o <<w>>).ok
  <1>1. PICK u : u = UsableFrom(cs.from)
    OBVIOUS
  <1>2. PICK v : v = scrubName(cs.name)
    OBVIOUS
  <1>3. PICK w : w = UsableMode(cs.mode)
    OBVIOUS
  <1>4. PICK p0 : p0 = <<"open">>
    OBVIOUS
  <1>5. PICK p1 : p1 = p0 \o Attr("from=", u)
    OBVIOUS
  <1>6. PICK p2 : p2 = p1 \o Attr("from-name=", v)
    OBVIOUS
  <1>7. PICK p : p = p2 \o Attr("from-mode=", w)
    OBVIOUS
  <1>8. Plain(T, u) /\ Plain(T, v) /\ Plain(T, w)
    BY <1>1, <1>2, <1>3, KeptPlain
  <1>9. /\ Tag(T, p)
        /\ \E O : Layout(T, SubSeq(p, 2, Len(p)), <<u, v, w>>, O)
    BY <1>4, <1>5, <1>6, <1>7, <1>8, WrapTag
  <1>10. PICK s : s = Wrap(cs, text)
    OBVIOUS
  <1>11. s = Element(p, text)
    BY <1>1, <1>2, <1>3, <1>4, <1>5, <1>6, <1>7, <1>10 DEF Wrap, Element
  <1>12. /\ Unwrap(s) = Reading(p, text)
         /\ \A x \in T \ {"open"} : ~Unwrap(<<x>> \o s).ok
         /\ \A x \in T \ {"close"} : ~Unwrap(s \o <<x>>).ok
    BY <1>9, <1>11, ElementReads
  <1>13. PICK tag : tag = SubSeq(p, 2, Len(p))
    OBVIOUS
  <1>14. PICK a : a = Attributes(tag)
    OBVIOUS
  <1>15. a["from="] = u /\ a["from-name="] = v /\ a["from-mode="] = w
    <2>1. PICK V : V = <<u, v, w>>
      OBVIOUS
    <2>2. PICK O : Layout(T, tag, V, O)
      BY <1>9, <1>13, <2>1
    <2>3. ASSUME NEW x \in 1..3 PROVE a[Order[x]] = V[x]
      BY <1>14, <2>2, FieldsRead
    <2>4. /\ Order[1] = "from=" /\ Order[2] = "from-name="
          /\ Order[3] = "from-mode="
      BY DEF Order
    <2>5. V[1] = u /\ V[2] = v /\ V[3] = w
      BY <2>1
    <2> QED
      BY <2>3, <2>4, <2>5
  <1>16. Reading(p, text) = [cs |-> Kept(cs), body |-> text, ok |-> TRUE]
    BY <1>1, <1>2, <1>3, <1>13, <1>14, <1>15 DEF Reading, Kept
  <1> QED
    BY <1>10, <1>12, <1>16

-----------------------------------------------------------------------------
(* The trailer *)

\* The tokens that open a trailer.
Brackets == {"[cursor:", "[no cursor"}

\* A text that begins with such a token and holds no other.
Bracketed(T, s) ==
    /\ s \in Seq(T) /\ Len(s) >= 1 /\ s[1] \in Brackets
    /\ \A i \in 2..Len(s) : s[i] \notin Brackets

\* One more token keeps it so.
LEMMA BracketedGrows ==
    ASSUME NEW T, NEW s, Bracketed(T, s), NEW w \in T \ Brackets
    PROVE  Bracketed(T, s \o <<w>>)
  <1>1. PICK q, r : q = <<w>> /\ r = s \o q
    OBVIOUS
  <1>2. q \in Seq(T) /\ Len(q) = 1 /\ q[1] = w
    BY <1>1
  <1>3. /\ s \in Seq(T) /\ Len(s) >= 1 /\ s[1] \in Brackets
        /\ \A i \in 2..Len(s) : s[i] \notin Brackets
    BY DEF Bracketed
  <1>4. PICK n : n = Len(s)
    OBVIOUS
  <1>5. n \in Nat /\ n >= 1
    BY <1>3, <1>4, LenProperties
  <1>6. /\ r \in Seq(T) /\ Len(r) = n + Len(q)
        /\ \A i \in 1..n + Len(q) :
             r[i] = IF i <= n THEN s[i] ELSE q[i - n]
    <2>1. s \in Seq(T) /\ q \in Seq(T)
      BY <1>2, <1>3
    <2> QED
      BY <1>1, <1>4, <2>1, ConcatProperties
  <1>7. Len(r) = n + 1 /\ Len(r) >= 1 /\ r[1] = s[1]
    BY <1>2, <1>5, <1>6
  <1>8. ASSUME NEW i \in 2..n + 1 PROVE r[i] \notin Brackets
    <2>1. CASE i <= n
      <3>1. r[i] = s[i] /\ i \in 2..Len(s)
        BY <1>2, <1>4, <1>5, <1>6, <2>1
      <3> QED
        BY <1>3, <3>1
    <2>2. CASE i = n + 1
      <3>1. i \in 1..n + Len(q) /\ ~(i <= n) /\ i - n = 1
        BY <1>2, <1>5, <2>2
      <3>2. r[i] = w
        BY <1>2, <1>6, <3>1
      <3> QED
        BY <3>2
    <2> QED
      BY <1>5, <2>1, <2>2
  <1> QED
    BY <1>1, <1>3, <1>6, <1>7, <1>8 DEF Bracketed

\* Two tokens.
LEMMA PairOf ==
    ASSUME NEW b, NEW c
    PROVE  <<b>> \o <<c>> = <<b, c>>
  <1>1. PICK T : T = {b, c}
    OBVIOUS
  <1>2. PICK x, y, z : x = <<b>> /\ y = <<c>> /\ z = <<b, c>>
    OBVIOUS
  <1>3. x \in Seq(T) /\ Len(x) = 1 /\ x[1] = b
    BY <1>1, <1>2
  <1>4. y \in Seq(T) /\ Len(y) = 1 /\ y[1] = c
    BY <1>1, <1>2
  <1>5. z \in Seq(T) /\ Len(z) = 2 /\ z[1] = b /\ z[2] = c
    BY <1>1, <1>2
  <1>6. PICK r : r = x \o y
    OBVIOUS
  <1>7. r \in Seq(T) /\ Len(r) = 2 /\ r[1] = b /\ r[2] = c
    <2>1. x \in Seq(T) /\ y \in Seq(T)
      BY <1>3, <1>4
    <2>2. /\ r \in Seq(T) /\ Len(r) = Len(x) + Len(y)
          /\ \A i \in 1..Len(x) + Len(y) :
               r[i] = IF i <= Len(x) THEN x[i] ELSE y[i - Len(x)]
      BY <1>6, <2>1, ConcatProperties
    <2>3. \A i \in 1..2 : r[i] = IF i <= 1 THEN x[i] ELSE y[i - 1]
      BY <1>3, <1>4, <2>2
    <2>4. r[1] = x[1] /\ r[2] = y[1]
      BY <2>3
    <2> QED
      BY <1>3, <1>4, <2>2, <2>4
  <1>8. r = z
    <2>1. \A i \in 1..2 : r[i] = z[i]
      BY <1>5, <1>7
    <2> QED
      BY <1>5, <1>7, <2>1, SeqEqual
  <1> QED
    BY <1>2, <1>6, <1>8

\* One such token alone is a text like that.
LEMMA BracketAlone ==
    ASSUME NEW T, NEW b \in T, b \in Brackets
    PROVE  Bracketed(T, <<b>>)
  <1>1. PICK h : h = <<b>>
    OBVIOUS
  <1>2. h \in Seq(T) /\ Len(h) = 1 /\ h[1] = b
    BY <1>1
  <1>3. Bracketed(T, h)
    BY <1>2 DEF Bracketed
  <1> QED
    BY <1>1, <1>3

\* A trailer opens once.
LEMMA TrailerBracketed ==
    ASSUME NEW T, Brackets \cup {"more", "]"} \subseteq T, NEW d,
           d.cursor \in (T \cup {""}) \ Brackets
    PROVE  Bracketed(T, Trailer(d))
  <1>1. /\ "[cursor:" \in T /\ "[no cursor" \in T
        /\ "more" \in T \ Brackets /\ "]" \in T \ Brackets
    BY DEF Brackets
  <1>2. PICK c : c = d.cursor
    OBVIOUS
  <1>3. PICK h : h = IF c # "" THEN <<"[cursor:", c>> ELSE <<"[no cursor">>
    OBVIOUS
  <1>4. Bracketed(T, h)
    <2>1. CASE c # ""
      <3>1. Bracketed(T, <<"[cursor:">>)
        BY <1>1, BracketAlone DEF Brackets
      <3>2. Bracketed(T, <<"[cursor:">> \o <<c>>)
        BY <1>2, <2>1, <3>1, BracketedGrows
      <3>3. <<"[cursor:">> \o <<c>> = <<"[cursor:", c>>
        BY PairOf
      <3> QED
        BY <1>3, <2>1, <3>2, <3>3
    <2>2. CASE c = ""
      <3>1. Bracketed(T, <<"[no cursor">>)
        BY <1>1, BracketAlone DEF Brackets
      <3> QED
        BY <1>3, <2>2, <3>1
    <2> QED
      BY <2>1, <2>2
  <1>5. PICK m : m = h \o (IF d.more THEN <<"more">> ELSE <<>>)
    OBVIOUS
  <1>6. Bracketed(T, m)
    <2>1. CASE d.more
      BY <1>1, <1>4, <1>5, <2>1, BracketedGrows
    <2>2. CASE ~d.more
      <3>1. h \in Seq(T)
        BY <1>4 DEF Bracketed
      <3>2. m = h
        BY <1>5, <2>2, <3>1, ConcatEmptySeq
      <3> QED
        BY <1>4, <3>2
    <2> QED
      BY <2>1, <2>2
  <1>7. Trailer(d) = m \o <<"]">>
    BY <1>2, <1>3, <1>5 DEF Trailer
  <1>8. Bracketed(T, m \o <<"]">>)
    <2>1. "]" \in T \ Brackets
      BY <1>1
    <2> QED
      BY <1>6, <2>1, BracketedGrows
  <1> QED
    BY <1>7, <1>8

\* t stands behind the first m tokens of s.
Behind(T, s, m, t) ==
    /\ s \in Seq(T) /\ t \in Seq(T) /\ m \in Nat /\ Len(t) \in Nat
    /\ Len(s) = m + Len(t) /\ \A j \in 1..Len(t) : s[m + j] = t[j]

\* Then t is what is left of s without them.
LEMMA TextBehind ==
    ASSUME NEW T, NEW s, NEW m, NEW t, Behind(T, s, m, t), Len(t) >= 1
    PROVE  SubSeq(s, m + 1, Len(s)) = t
  <1>1. PICK k, l, n : k = m + 1 /\ l = Len(s) /\ n = Len(t)
    OBVIOUS
  <1>2. /\ s \in Seq(T) /\ t \in Seq(T) /\ m \in Nat /\ n \in Nat /\ n >= 1
        /\ l = m + n /\ \A j \in 1..n : s[m + j] = t[j]
    BY <1>1 DEF Behind
  <1>3. PICK r : r = SubSeq(s, k, l)
    OBVIOUS
  <1>4. k \in Int /\ l \in Int /\ l - k + 1 = n /\ k <= l
    BY <1>1, <1>2
  <1>5. \A i \in k..l : s[i] \in T
    <2>1. \A i \in k..l : i \in 1..Len(s)
      BY <1>1, <1>2
    <2> QED
      BY <1>2, <2>1, ElementOfSeq
  <1>6. /\ r \in Seq(T) /\ Len(r) = IF k <= l THEN l - k + 1 ELSE 0
        /\ \A i \in 1..l - k + 1 : r[i] = s[k + i - 1]
    <2>1. k \in Int /\ l \in Int
      BY <1>4
    <2> QED
      BY <1>3, <1>5, <2>1, SubSeqProperties
  <1>7. Len(r) = n /\ \A i \in 1..n : r[i] = s[k + i - 1]
    BY <1>4, <1>6
  <1>8. ASSUME NEW i \in 1..n PROVE r[i] = t[i]
    <2>1. k + i - 1 = m + i
      BY <1>1, <1>2
    <2> QED
      BY <1>2, <1>7, <2>1
  <1> QED
    BY <1>1, <1>2, <1>3, <1>6, <1>7, <1>8, SeqEqual

\* From the last opening bracket on a text with a trailer behind it is that
\* trailer.
LEMMA LastIsTrailer ==
    ASSUME NEW T, NEW x \in Seq(T), NEW t, Bracketed(T, t), NEW s, s = x \o t
    PROVE  LastTrailer(s) = t
  <1>1. /\ t \in Seq(T) /\ Len(t) >= 1 /\ t[1] \in Brackets
        /\ \A i \in 2..Len(t) : t[i] \notin Brackets
    BY DEF Bracketed
  <1>2. PICK m, n : m = Len(x) /\ n = Len(t)
    OBVIOUS
  <1>3. m \in Nat /\ n \in Nat /\ n >= 1
    BY <1>1, <1>2, LenProperties
  <1>4. /\ s \in Seq(T) /\ Len(s) = m + n
        /\ \A i \in 1..m + n : s[i] = IF i <= m THEN x[i] ELSE t[i - m]
    <2>1. t \in Seq(T)
      BY <1>1
    <2> QED
      BY <1>2, <2>1, ConcatProperties
  <1>5. ASSUME NEW j \in 1..n PROVE s[m + j] = t[j]
    <2>1. PICK i : i = m + j
      OBVIOUS
    <2>2. i \in 1..m + n /\ ~(i <= m) /\ i - m = j
      BY <1>3, <2>1
    <2> QED
      BY <1>4, <2>1, <2>2
  <1>6. DOMAIN s = 1..m + n
    BY <1>4, LenProperties
  <1>7. PICK P : P = {i \in DOMAIN s : s[i] \in Brackets}
    OBVIOUS
  <1>8. PICK k : k = m + 1
    OBVIOUS
  <1>9. k \in P
    <2>1. k \in 1..m + n /\ 1 \in 1..n
      BY <1>3, <1>8
    <2>2. s[k] = t[1]
      BY <1>5, <1>8, <2>1
    <2> QED
      BY <1>1, <1>6, <1>7, <2>1, <2>2
  <1>10. ASSUME NEW j \in P PROVE k >= j
    <2>1. j \in 1..m + n /\ s[j] \in Brackets
      BY <1>6, <1>7
    <2> SUFFICES ASSUME ~(k >= j) PROVE FALSE
      OBVIOUS
    <2>2. j - m \in 2..n /\ m + (j - m) = j /\ j - m \in 1..n
      BY <1>3, <1>8, <2>1
    <2>3. s[j] = t[j - m]
      BY <1>5, <2>2
    <2> QED
      BY <1>1, <1>2, <2>1, <2>2, <2>3
  <1>11. P \subseteq Nat
    BY <1>3, <1>6, <1>7
  <1>12. \A i \in P : (\A j \in P : i >= j) => i = k
    BY <1>9, <1>10, <1>11
  <1>13. Last(P) = k
    BY <1>9, <1>10, <1>12 DEF Last
  <1>14. LastTrailer(s) = SubSeq(s, m + 1, Len(s))
    BY <1>7, <1>8, <1>13 DEF LastTrailer, Brackets
  <1>15. SubSeq(s, m + 1, Len(s)) = t
    <2>1. Behind(T, s, m, t)
      BY <1>1, <1>2, <1>3, <1>4, <1>5 DEF Behind
    <2> QED
      BY <1>1, <2>1, TextBehind
  <1> QED
    BY <1>14, <1>15

\* Texts of two tokens and of none.
LEMMA PairIn ==
    ASSUME NEW T, NEW b \in T, NEW c \in T
    PROVE  <<b, c>> \in Seq(T) /\ <<>> \in Seq(T)
  OBVIOUS

\* A text ends with the trailer of its own delivery, whatever trailers its body
\* quotes.
THEOREM TrailerSurvives ==
    ASSUME NEW T, Brackets \cup {"more", "]", "nl"} \subseteq T, NEW d,
           d.body \in Seq(T), d.cursor \in (T \cup {""}) \ Brackets
    PROVE  compose(d) \in Seq(T) /\ LastTrailer(compose(d)) = Trailer(d)
  <1>1. PICK b, t : b = d.body /\ t = Trailer(d)
    OBVIOUS
  <1>2. Bracketed(T, t) /\ t \in Seq(T)
    <2>1. Bracketed(T, t)
      BY <1>1, TrailerBracketed
    <2> QED
      BY <2>1 DEF Bracketed
  <1>3. PICK g : g = IF b # <<>> THEN <<"nl", "nl">> ELSE <<>>
    OBVIOUS
  <1>4. g \in Seq(T)
    <2>1. "nl" \in T
      OBVIOUS
    <2>2. <<"nl", "nl">> \in Seq(T) /\ <<>> \in Seq(T)
      BY <2>1, PairIn
    <2> QED
      BY <1>3, <2>2
  <1>5. PICK x : x = b \o g
    OBVIOUS
  <1>6. x \in Seq(T)
    <2>1. b \in Seq(T)
      BY <1>1
    <2> QED
      BY <1>4, <1>5, <2>1, ConcatProperties
  <1>7. compose(d) = x \o t
    BY <1>1, <1>3, <1>5 DEF compose
  <1>8. x \o t \in Seq(T)
    BY <1>2, <1>6, ConcatProperties
  <1>9. LastTrailer(x \o t) = t
    BY <1>2, <1>6, LastIsTrailer
  <1> QED
    BY <1>1, <1>7, <1>8, <1>9

-----------------------------------------------------------------------------
(* The round trip *)

\* The tokens that names, bodies and trailers of the round trip are made of.
NameTokens == {"w", "sp", "quote", "lt", "gt", "nl", "from="}
Tokens == Marks \cup NameTokens \cup Brackets \cup {"more", "]", "c1", "c2"}

\* What SeqUpTo enumerates are texts.
LEMMA UpToAreSeqs ==
    ASSUME NEW S, NEW n \in Nat, NEW s \in SeqUpTo(S, n)
    PROVE  s \in Seq(S)
  <1>1. PICK k \in 0..n : s \in [1..k -> S]
    BY DEF SeqUpTo
  <1>2. k \in Nat
    BY <1>1
  <1> QED
    BY <1>1, <1>2

\* The bodies of the round trip are made of its tokens, its names of theirs.
LEMMA BodiesAreTexts ==
    ASSUME NEW b \in Bodies
    PROVE  b \in Seq(Tokens)
  <1>1. /\ "w" \in Tokens /\ "nl" \in Tokens /\ "open" \in Tokens
        /\ "gt" \in Tokens /\ "close" \in Tokens /\ "]" \in Tokens
        /\ "[cursor:" \in Tokens /\ "c2" \in Tokens /\ "sp" \in Tokens
        /\ "from=" \in Tokens /\ "quote" \in Tokens
    BY DEF Tokens, Marks, NameTokens, Brackets
  <1>2. CASE b \in SeqUpTo({"w", "nl", "open", "gt", "close", "]"}, 2)
    <2>1. PICK S : S = {"w", "nl", "open", "gt", "close", "]"}
      OBVIOUS
    <2>2. b \in Seq(S)
      BY <1>2, <2>1, UpToAreSeqs
    <2>3. S \subseteq Tokens
      BY <1>1, <2>1
    <2> QED
      BY <2>2, <2>3, SeqMonotonic
  <1>3. CASE b = <<"[cursor:", "c2", "]">>
    BY <1>1, <1>3
  <1>4. CASE b = <<"open", "gt", "nl", "w">>
    BY <1>1, <1>4
  <1>5. CASE b = <<"w", "nl", "close">>
    BY <1>1, <1>5
  <1>6. CASE b = <<"open", "sp", "from=", "quote", "w", "quote", "gt", "nl">>
    BY <1>1, <1>6
  <1> QED
    BY <1>2, <1>3, <1>4, <1>5, <1>6 DEF Bodies

\* The senders of the round trip have such names.
LEMMA SenderNames ==
    ASSUME NEW cs \in Senders
    PROVE  cs.name \in Seq(NameTokens)
  <1>1. <<"w">> \in Seq(NameTokens)
    BY DEF NameTokens
  <1>2. \A s \in Names : s \in Seq(NameTokens)
    BY UpToAreSeqs DEF Names, NameTokens
  <1>3. cs.name = <<"w">> \/ cs.name \in Names
    BY DEF Senders
  <1> QED
    BY <1>1, <1>2, <1>3

\* Of the tokens of a name, those that stay are those that scrubName does not
\* remove.
LEMMA CleanIsKept ==
    ASSUME NEW name \in Seq(NameTokens)
    PROVE  Trim(Pick(name, {i \in DOMAIN name :
                              name[i] \in {"w", "sp", "from="}}))
             = scrubName(name)
  <1>1. \A i \in DOMAIN name : name[i] \in NameTokens
    BY LenProperties, ElementOfSeq
  <1>2. \A x \in NameTokens : x \in {"w", "sp", "from="}
                                <=> x \notin {"quote", "lt", "gt", "nl", "cc"}
    BY DEF NameTokens
  <1>3. {i \in DOMAIN name : name[i] \in {"w", "sp", "from="}}
          = {i \in DOMAIN name :
               name[i] \notin {"quote", "lt", "gt", "nl", "cc"}}
    BY <1>1, <1>2
  <1> QED
    BY <1>3, Zenon DEF scrubName

\* Every delivery that the run enumerates survives the round trip.
THEOREM RoundTripHolds == RoundTrip
  <1>1. /\ Marks \subseteq Tokens /\ NameTokens \subseteq Tokens \ {"close"}
        /\ Brackets \cup {"more", "]", "nl"} \subseteq Tokens
        /\ "w" \in Tokens /\ "c1" \in Tokens \ Brackets /\ "" \notin Brackets
    BY DEF Tokens, Marks, NameTokens, Brackets
  <1>2. SUFFICES ASSUME NEW cs \in Senders, NEW d \in Deliveries
        PROVE  LET sent == Wrap(cs, compose(d))
                   seen == Unwrap(sent)
               IN /\ seen =
                       [cs |-> [from |-> UsableFrom(cs.from),
                                mode |-> UsableMode(cs.mode),
                                name |-> Trim(Pick(cs.name,
                                           {i \in DOMAIN cs.name : cs.name[i]
                                              \in {"w", "sp", "from="}}))],
                        body |-> compose(d), ok |-> TRUE]
                  /\ LastTrailer(seen.body) = Trailer(d)
                  /\ ~Unwrap(<<"w">> \o sent).ok /\ ~Unwrap(sent \o <<"w">>).ok
    BY Zenon DEF RoundTrip
  <1>3. PICK name : name = cs.name
    OBVIOUS
  <1>4. name \in Seq(NameTokens)
    BY <1>3, SenderNames
  <1>5. name \in Seq(Tokens \ {"close"})
    BY <1>1, <1>4, SeqMonotonic
  <1>6. compose(d) \in Seq(Tokens) /\ LastTrailer(compose(d)) = Trailer(d)
    <2>1. d.body \in Bodies /\ d.cursor \in {"", "c1"}
      BY DEF Deliveries
    <2>2. d.body \in Seq(Tokens)
      BY <2>1, BodiesAreTexts
    <2>3. d.cursor \in (Tokens \cup {""}) \ Brackets
      BY <1>1, <2>1
    <2> QED
      BY <1>1, <2>2, <2>3, TrailerSurvives
  <1>7. PICK text : text = compose(d)
    OBVIOUS
  <1>8. PICK sent : sent = Wrap(cs, text)
    OBVIOUS
  <1>9. /\ Unwrap(sent) = [cs |-> Kept(cs), body |-> text, ok |-> TRUE]
        /\ \A w \in Tokens \ {"open"} : ~Unwrap(<<w>> \o sent).ok
        /\ \A w \in Tokens \ {"close"} : ~Unwrap(sent \o <<w>>).ok
    BY <1>1, <1>3, <1>5, <1>6, <1>7, <1>8, EnvelopeSurvives
  <1>10. ~Unwrap(<<"w">> \o sent).ok /\ ~Unwrap(sent \o <<"w">>).ok
    BY <1>1, <1>9
  <1>11. PICK v : v = Trim(Pick(name, {i \in DOMAIN name :
                                         name[i] \in {"w", "sp", "from="}}))
    OBVIOUS
  <1>12. v = scrubName(name)
    BY <1>4, <1>11, CleanIsKept
  <1>13. Unwrap(sent) = [cs |-> [from |-> UsableFrom(cs.from),
                                 mode |-> UsableMode(cs.mode), name |-> v],
                         body |-> text, ok |-> TRUE]
    BY <1>3, <1>9, <1>12 DEF Kept
  <1>14. LastTrailer(Unwrap(sent).body) = Trailer(d)
    BY <1>6, <1>7, <1>9
  <1> QED
    BY <1>3, <1>7, <1>8, <1>10, <1>11, <1>13, <1>14, Zenon

-----------------------------------------------------------------------------
(***************************************************************************)
(* The sessions and the invocations                                        *)
(***************************************************************************)

\* A pid belongs to a process that has started and is not gone.
RunsLive ==
    \A n \in Pids : runs[n] # None => phase[runs[n]] \notin {"unborn", "gone"}

\* A session that has bound its socket and not exited has the pid in the
\* socket's name, and a socket file is at the path where its owner bound it.
Homes ==
    /\ \A p \in Procs : phase[p] \in {"bound", "open", "closed"} =>
         home[p] \in Paths /\ runs[home[p][2]] = p
    /\ \A f \in Paths : sock[f] # None =>
         home[sock[f]] = f /\ phase[sock[f]] \notin {"unborn", "started"}

\* What was gone when an invocation began is gone for good.
GoneStays == \A x \in Clients : goneBefore[x] \subseteq Gone

\* Where an invocation has got to is what its target, its connection and its
\* fate say: it has a path once it has begun, a connection once it writes, and
\* has been handled only when it is over.
Places ==
    \A x \in Clients :
       /\ at[x] \in {"procStart", "key", "keyOnly", "check", "dial", "connect",
                     "write", "sent"} => path[x] \in Paths
       /\ at[x] \in {"write", "sent"} => link[x] \in Procs
       /\ link[x] # None => at[x] \in {"write", "sent", "over"}
       /\ reached[x] # None => at[x] = "over"

\* Of an invocation that has passed Dial's test: the process it has tested was
\* not gone then; until it connects, that process still has the pid, and after
\* that the connection, unless it has gone in the meantime.
Passed(x) ==
    /\ start[x] \notin goneBefore[x] \cup goneTested[x]
    /\ at[x] = "connect" =>
         runs[path[x][2]] = start[x] \/ phase[start[x]] = "gone"
    /\ link[x] # None => link[x] = start[x] \/ phase[start[x]] = "gone"
Tested ==
    \A x \in Clients :
       /\ at[x] \in {"connect", "write", "sent"} \/ link[x] # None
       /\ start[x] # None
       => Passed(x)

\* The inductive invariant.
IInv == TypeOK /\ RunsLive /\ Homes /\ GoneStays /\ Places /\ Tested

USE SessionsKnown, PathsKnown, ClientsApart, NoneApart

\* The invariant holds when our parent has spawned us.
LEMMA Start == Init => IInv
  <1> SUFFICES ASSUME Init PROVE IInv
    OBVIOUS
  <1> USE DEF Init, NoProcess, Proc
  <1>1. EnvPath[2] \in Pids /\ EnvPath \in Paths
    BY DEF Paths
  <1>2. TypeOK
    BY <1>1 DEF TypeOK
  <1>3. RunsLive
    BY DEF RunsLive
  <1>4. Homes
    BY <1>1 DEF Homes
  <1>5. GoneStays /\ Places /\ Tested
    BY DEF GoneStays, Places, Tested, Clients
  <1> QED
    BY <1>2, <1>3, <1>4, <1>5 DEF IInv

\* What a step of a session leaves alone.
LEMMA ClientsStay ==
  ASSUME IInv, UNCHANGED client, TypeOK', RunsLive', Homes',
         \A p \in Procs : phase[p] = "gone" => phase'[p] = "gone",
         \A n \in Pids : runs[n] \in Procs =>
            runs'[n] = runs[n] \/ phase'[runs[n]] = "gone"
  PROVE  IInv'
  <1> USE DEF client, target, history
  <1>1. GoneStays'
    BY DEF IInv, GoneStays, Gone
  <1>2. Places'
    BY DEF IInv, Places
  <1>3. Tested'
    <2> SUFFICES ASSUME NEW x \in Clients, start[x] # None,
                        at[x] \in {"connect", "write", "sent"} \/ link[x] # None
                 PROVE  Passed(x)'
      BY DEF Tested
    <2>1. Passed(x) /\ start[x] \in Procs
      BY DEF IInv, Tested, TypeOK, Proc
    <2>2. at[x] = "connect" => path[x][2] \in Pids
      BY DEF IInv, Places, Paths
    <2> QED
      BY <2>1, <2>2 DEF Passed
  <1> QED
    BY <1>1, <1>2, <1>3 DEF IInv

\* Every step of a session preserves the invariant.
LEMMA SessionStep ==
  ASSUME IInv, NEW p \in Procs,
         \/ SessionStarts(p) \/ SessionBinds(p) \/ SessionPublishes(p)
         \/ SessionCloses(p) \/ SessionExits(p) \/ SessionDies(p)
  PROVE  IInv'
  <1> USE DEF TypeOK, RunsLive, Homes, Proc
  <1>0. TypeOK /\ RunsLive /\ Homes
    BY DEF IInv
  <1>p. \A f \in Paths : f[2] \in Pids
    BY DEF Paths
  <1>1. CASE SessionStarts(p)
    <2>1. PICK n \in Pids : runs[n] = None /\ runs' = [runs EXCEPT ![n] = p]
      BY <1>1 DEF SessionStarts
    <2>2. TypeOK' /\ RunsLive'
      BY <1>0, <1>1, <2>1 DEF SessionStarts, client, target, history
    <2>3. Homes'
      BY <1>0, <1>p, <1>1, <2>1 DEF SessionStarts
    <2> QED
      BY <1>0, <1>1, <2>1, <2>2, <2>3, ClientsStay DEF SessionStarts
  <1>2. CASE SessionBinds(p)
    <2>1. PICK d \in Dirs, n \in Pids :
             /\ runs[n] = p
             /\ sock' = [sock EXCEPT ![<<d, n>>] = p]
             /\ home' = [home EXCEPT ![p] = <<d, n>>]
      BY <1>2 DEF SessionBinds
    <2>2. <<d, n>> \in Paths /\ <<d, n>>[2] = n
      BY DEF Paths
    <2>3. /\ phase[p] = "started" /\ phase' = [phase EXCEPT ![p] = "bound"]
          /\ UNCHANGED <<runs, key, keyStart>> /\ UNCHANGED client
      BY <1>2 DEF SessionBinds
    <2>4. TypeOK'
      BY <1>0, <2>1, <2>2, <2>3 DEF client, target, history
    <2>5. RunsLive'
      BY <1>0, <2>3
    <2>6. Homes'
      BY <1>0, <2>1, <2>2, <2>3
    <2> QED
      BY <1>0, <2>3, <2>4, <2>5, <2>6, ClientsStay
  <1>3. CASE SessionPublishes(p)
    <2>1. PICK ps \in {p, None} : keyStart' = [keyStart EXCEPT ![home[p]] = ps]
      BY <1>3 DEF SessionPublishes
    <2>2. TypeOK'
      BY <1>0, <1>3, <2>1 DEF SessionPublishes, client, target, history
    <2>3. RunsLive' /\ Homes'
      BY <1>0, <1>3 DEF SessionPublishes
    <2> QED
      BY <1>0, <1>3, <2>2, <2>3, ClientsStay DEF SessionPublishes
  <1>4. CASE SessionCloses(p)
    <2>1. TypeOK'
      BY <1>0, <1>4 DEF SessionCloses, client, target, history
    <2>2. RunsLive' /\ Homes'
      BY <1>0, <1>4 DEF SessionCloses
    <2> QED
      BY <1>0, <1>4, <2>1, <2>2, ClientsStay DEF SessionCloses
  <1>5. CASE SessionExits(p) \/ SessionDies(p)
    <2>1. Exits(p) /\ phase[p] \notin {"unborn", "gone"}
      BY <1>5 DEF SessionExits, SessionDies
    <2>2. key' \in [Paths -> Proc] /\ keyStart' \in [Paths -> Proc]
      BY <1>0, <1>5 DEF SessionExits, SessionDies
    <2>3. TypeOK'
      BY <1>0, <2>1, <2>2 DEF Exits, client, target, history
    <2>4. RunsLive'
      BY <1>0, <2>1 DEF Exits
    <2>5. Homes'
      BY <1>0, <1>p, <2>1 DEF Exits
    <2>6. \A n \in Pids : runs[n] \in Procs =>
             runs'[n] = runs[n] \/ phase'[runs[n]] = "gone"
      BY <1>0, <2>1 DEF Exits
    <2> QED
      BY <1>0, <2>1, <2>3, <2>4, <2>5, <2>6, ClientsStay DEF Exits
  <1> QED
    BY <1>1, <1>2, <1>3, <1>4, <1>5

\* findSocket finds a path, or nothing.
LEMMA FindsPath ==
  ASSUME NEW n \in Pids
  PROVE  findSocket(n) \in Paths \cup {None}
  <1> DEFINE D == {d \in Dirs : sock[<<d, n>>] # None}
  <1>1. CASE D = {}
    BY <1>1 DEF findSocket
  <1>2. CASE D # {}
    <2>1. First(D) \in Dirs
      BY <1>2, ProbeOrder DEF First
    <2> QED
      BY <1>2, <2>1 DEF findSocket, Paths
  <1> QED
    BY <1>1, <1>2

\* A step of an invocation leaves the sessions alone.
LEMMA SessionsStay ==
  ASSUME IInv, UNCHANGED session
  PROVE  /\ RunsLive' /\ Homes' /\ Gone' = Gone
         /\ runs' \in [Pids -> Proc] /\ home' \in [Procs -> Paths \cup {None}]
         /\ phase' \in [Procs -> {"unborn", "started", "bound", "open",
                                  "closed", "gone"}]
         /\ sock' \in [Paths -> Proc] /\ key' \in [Paths -> Proc]
         /\ keyStart' \in [Paths -> Proc]
  BY DEF IInv, TypeOK, RunsLive, Homes, Gone, session

\* The steps of Deliver up to Dial preserve the invariant.
LEMMA DeliverStep ==
  ASSUME IInv, NEW x \in Delivers, DeliverChecks(x) \/ DeliverReadsStart(x)
  PROVE  IInv'
  <1> USE DEF Clients, Proc
  <1>1. CASE DeliverChecks(x)
    <2>1. /\ UNCHANGED session /\ UNCHANGED <<start, noAuth, link, reached, goneTested>>
          /\ at' = [at EXCEPT ![x] = "procStart"]
             \/ at' = [at EXCEPT ![x] = "over"]
          /\ result' = result \/ result' = [result EXCEPT ![x] = "error"]
          /\ goneBefore' = [goneBefore EXCEPT ![x] = Gone]
          /\ path' = [path EXCEPT ![x] = EnvPath]
          /\ token' = [token EXCEPT ![x] = Parent]
          /\ at[x] = "begin"
      BY <1>1 DEF DeliverChecks, Goes, Fails
    <2>2. TypeOK'
      BY <2>1, SessionsStay DEF IInv, TypeOK, Gone, history
    <2>3. GoneStays' /\ Places' /\ Tested'
      BY <2>1, SessionsStay
         DEF IInv, TypeOK, GoneStays, Places, Tested, Passed,
         session, history
    <2> QED
      BY <2>1, <2>2, <2>3, SessionsStay DEF IInv
  <1>2. CASE DeliverReadsStart(x)
    <2>1. /\ UNCHANGED session
          /\ UNCHANGED <<path, token, noAuth, history>>
          /\ UNCHANGED <<link, result, reached>>
          /\ at[x] = "procStart" /\ at' = [at EXCEPT ![x] = "dial"]
      BY <1>2 DEF DeliverReadsStart, Goes
    <2>2. path[x] \in Paths /\ path[x][2] \in Pids
      BY <2>1 DEF IInv, Places, Paths
    <2>3. PICK ps \in ProcStart(path[x][2]) : start' = [start EXCEPT ![x] = ps]
      BY <1>2 DEF DeliverReadsStart
    <2>4. ps \in Proc
      BY <2>2 DEF ProcStart, IInv, TypeOK
    <2>5. TypeOK'
      BY <2>1, <2>3, <2>4, SessionsStay DEF IInv, TypeOK, history
    <2>6. GoneStays' /\ Places' /\ Tested'
      BY <2>1, <2>3, SessionsStay
         DEF IInv, TypeOK, GoneStays, Places, Tested, Passed,
         session, history
    <2> QED
      BY <2>1, <2>5, <2>6, SessionsStay DEF IInv
  <1> QED
    BY <1>1, <1>2

\* The steps of claude-send up to Dial preserve the invariant.
LEMMA SendStep ==
  ASSUME IInv, NEW x \in Sends,
         SendBegins(x) \/ SendReadsKey(x) \/ SendChecks(x)
  PROVE  IInv'
  <1> USE DEF Clients, Proc
  <1>1. CASE SendBegins(x)
    <2>1. /\ UNCHANGED session
          /\ UNCHANGED <<token, start, link, reached, goneTested>>
          /\ at[x] = "begin"
          /\ goneBefore' = [goneBefore EXCEPT ![x] = Gone]
          /\ result' = result \/ result' = [result EXCEPT ![x] = "error"]
      BY <1>1 DEF SendBegins, SendFinds, SendTakes, Goes, Fails
    <2>2. PICK no \in BOOLEAN : noAuth' = [noAuth EXCEPT ![x] = no]
      BY <1>1 DEF SendBegins
    <2>3. \E f \in Paths \cup {None}, place \in {"key", "keyOnly", "over"} :
             /\ path' = [path EXCEPT ![x] = f]
             /\ at' = [at EXCEPT ![x] = place]
             /\ f = None => place = "over"
      <3>1. CASE SendFinds(x)
        BY <3>1, FindsPath DEF SendFinds, Goes, Fails
      <3>2. CASE SendTakes(x)
        BY <3>2 DEF SendTakes, Goes
      <3> QED
        BY <1>1, <3>1, <3>2 DEF SendBegins
    <2>4. PICK f \in Paths \cup {None}, place \in {"key", "keyOnly", "over"} :
             /\ path' = [path EXCEPT ![x] = f]
             /\ at' = [at EXCEPT ![x] = place]
             /\ f = None => place = "over"
      BY <2>3
    <2>5. TypeOK'
      BY <2>1, <2>2, <2>4, SessionsStay DEF IInv, TypeOK, Gone, history
    <2>6. GoneStays' /\ Places' /\ Tested'
      BY <2>1, <2>4, SessionsStay
         DEF IInv, TypeOK, GoneStays, Places, Tested, Passed,
         session, history
    <2> QED
      BY <2>1, <2>5, <2>6, SessionsStay DEF IInv
  <1>2. CASE SendReadsKey(x)
    <2>1. /\ UNCHANGED session
          /\ UNCHANGED <<path, noAuth, history, link, reached>>
          /\ at[x] \in {"key", "keyOnly"}
          /\ at' = [at EXCEPT ![x] = "check"] \/ at' = [at EXCEPT ![x] = "over"]
          /\ result' = result \/ result' = [result EXCEPT ![x] = "error"]
      BY <1>2 DEF SendReadsKey, Goes, Fails
    <2>2. path[x] \in Paths
      BY <2>1 DEF IInv, Places
    <2>3. keyStart[path[x]] \in Proc /\ TokenFor(x) \in Proc
      BY <2>2 DEF IInv, TypeOK, TokenFor
    <2>4. \E s, t \in Proc : /\ start' = [start EXCEPT ![x] = s]
                             /\ token' = [token EXCEPT ![x] = t]
      <3>1. CASE /\ start' = [start EXCEPT ![x] = keyStart[path[x]]]
                 /\ token' = [token EXCEPT ![x] = TokenFor(x)]
        BY <2>3, <3>1
      <3>2. CASE UNCHANGED <<start, token>>
        <4>1. start[x] \in Proc /\ token[x] \in Proc
          BY DEF IInv, TypeOK
        <4>2. /\ start' = [start EXCEPT ![x] = start[x]]
              /\ token' = [token EXCEPT ![x] = token[x]]
          BY <3>2 DEF IInv, TypeOK
        <4> QED
          BY <4>1, <4>2
      <3> QED
        BY <1>2, <3>1, <3>2 DEF SendReadsKey
    <2>5. TypeOK'
      BY <2>1, <2>4, SessionsStay DEF IInv, TypeOK, history
    <2>6. GoneStays' /\ Places' /\ Tested'
      BY <2>1, <2>4, SessionsStay
         DEF IInv, TypeOK, GoneStays, Places, Tested, Passed,
         session, history
    <2> QED
      BY <2>1, <2>5, <2>6, SessionsStay DEF IInv
  <1>3. CASE SendChecks(x)
    <2>1. /\ UNCHANGED session
          /\ UNCHANGED <<target, history, link, reached>>
          /\ at[x] = "check"
          /\ at' = [at EXCEPT ![x] = "dial"] \/ at' = [at EXCEPT ![x] = "over"]
          /\ result' = result \/ result' = [result EXCEPT ![x] = "error"]
      BY <1>3 DEF SendChecks, Goes, Fails
    <2>2. TypeOK'
      BY <2>1, SessionsStay DEF IInv, TypeOK, target, history
    <2>3. GoneStays' /\ Places' /\ Tested'
      BY <2>1, SessionsStay
         DEF IInv, TypeOK, GoneStays, Places, Tested, Passed,
         session, history, target
    <2> QED
      BY <2>1, <2>2, <2>3, SessionsStay DEF IInv
  <1> QED
    BY <1>1, <1>2, <1>3

\* Dial's test of the start time: it is that of a process which is not gone.
LEMMA TestPasses ==
  ASSUME IInv, NEW x \in Clients, at[x] = "dial",
         StartMatches(path[x][2], start[x]), start[x] # None
  PROVE  /\ runs[path[x][2]] = start[x]
         /\ start[x] \notin goneBefore[x] \cup Gone
  <1>1. path[x][2] \in Pids
    BY DEF IInv, Places, Paths
  <1>2. runs[path[x][2]] = start[x]
    BY DEF StartMatches, ProcStart
  <1>3. phase[start[x]] # "gone"
    BY <1>1, <1>2 DEF IInv, RunsLive
  <1> QED
    BY <1>2, <1>3 DEF IInv, GoneStays, Gone

\* A step of one invocation does not concern what another has tested.
LEMMA OthersTested ==
  ASSUME IInv, NEW x \in Clients, UNCHANGED session,
         \A y \in Clients \ {x} :
            /\ at'[y] = at[y] /\ path'[y] = path[y] /\ start'[y] = start[y]
            /\ link'[y] = link[y] /\ goneBefore'[y] = goneBefore[y]
            /\ goneTested'[y] = goneTested[y],
         /\ at'[x] \in {"connect", "write", "sent"} \/ link'[x] # None
         /\ start'[x] # None
         => Passed(x)'
  PROVE  Tested'
  <1> SUFFICES ASSUME NEW y \in Clients, y # x, start'[y] # None,
                      \/ at'[y] \in {"connect", "write", "sent"}
                      \/ link'[y] # None
               PROVE  Passed(y)'
    BY DEF Tested
  <1>1. Passed(y)
    BY DEF IInv, Tested
  <1> QED
    BY <1>1 DEF Passed, session

\* Dial, SendUser and what the session does with the message preserve the
\* invariant.
LEMMA DialStep ==
  ASSUME IInv, NEW x \in Clients,
         DialTests(x) \/ DialConnects(x) \/ SendUser(x) \/ SessionReads(x)
  PROVE  IInv'
  <1> USE DEF Proc
  <1>1. CASE DialTests(x)
    <2>1. /\ UNCHANGED session
          /\ UNCHANGED <<target, goneBefore, link, reached>>
          /\ goneTested' = [goneTested EXCEPT ![x] = Gone]
          /\ at[x] = "dial"
          /\ \/ at' = [at EXCEPT ![x] = "connect"]
                /\ StartMatches(path[x][2], start[x])
             \/ at' = [at EXCEPT ![x] = "over"]
          /\ result' = result \/ result' = [result EXCEPT ![x] = "error"]
      BY <1>1 DEF DialTests, Goes, Fails
    <2>2. TypeOK'
      BY <2>1, SessionsStay DEF IInv, TypeOK, target, Gone
    <2>3. Tested'
      <3>1. link[x] = None
        BY <2>1 DEF IInv, Places
      <3>2. ASSUME at'[x] = "connect", start[x] # None PROVE Passed(x)'
        BY <2>1, <3>1, <3>2, TestPasses
           DEF IInv, TypeOK, Passed, session, target
      <3> QED
        BY <2>1, <3>1, <3>2, OthersTested DEF IInv, TypeOK, target, history
    <2>4. GoneStays' /\ Places'
      BY <2>1, SessionsStay DEF IInv, TypeOK, GoneStays, Places, target
    <2> QED
      BY <2>1, <2>2, <2>3, <2>4, SessionsStay DEF IInv
  <1>2. CASE DialConnects(x)
    <2>1. /\ UNCHANGED session /\ UNCHANGED <<target, history, reached>>
          /\ at[x] = "connect"
          /\ \/ /\ at' = [at EXCEPT ![x] = "write"]
                /\ sock[path[x]] # None /\ Listens(sock[path[x]])
                /\ link' = [link EXCEPT ![x] = sock[path[x]]]
             \/ at' = [at EXCEPT ![x] = "over"] /\ link' = link
          /\ result' = result \/ result' = [result EXCEPT ![x] = "error"]
      BY <1>2 DEF DialConnects, Fails
    <2>2. sock[path[x]] \in Proc
      BY <2>1 DEF IInv, TypeOK, Places
    <2>3. TypeOK'
      BY <2>1, <2>2, SessionsStay DEF IInv, TypeOK, target, history
    <2>4. GoneStays' /\ Places'
      BY <2>1, <2>2, SessionsStay DEF IInv, TypeOK, GoneStays, Places,
         target, history
    <2>5. Tested'
      <3>1. link[x] = None /\ path[x] \in Paths
        BY <2>1 DEF IInv, Places
      <3>2. ASSUME link'[x] # None, start[x] # None PROVE Passed(x)'
        <4>1. Passed(x)
          BY <2>1, <3>2 DEF IInv, Tested
        <4>2. link'[x] = sock[path[x]] /\ at'[x] = "write"
          BY <2>1, <3>1, <3>2 DEF IInv, TypeOK
        <4>3. runs[path[x][2]] = sock[path[x]]
          BY <2>1, <2>2, <3>1, <3>2, <4>2 DEF IInv, Homes, Listens
        <4> QED
          BY <2>1, <4>1, <4>2, <4>3 DEF Passed, session, target, history
      <3>3. at'[x] \in {"connect", "write", "sent"} => link'[x] # None
        BY <2>1 DEF IInv, TypeOK
      <3> QED
        BY <2>1, <3>2, <3>3, OthersTested DEF IInv, TypeOK, target, history
    <2> QED
      BY <2>1, <2>3, <2>4, <2>5, SessionsStay DEF IInv
  <1>3. CASE SendUser(x)
    <2>1. /\ UNCHANGED session
          /\ UNCHANGED <<target, history, link, reached>>
          /\ at[x] = "write"
          /\ at' = [at EXCEPT ![x] = "sent"] \/ at' = [at EXCEPT ![x] = "over"]
          /\ \E r \in {"written", "error"} :
               result' = [result EXCEPT ![x] = r]
      BY <1>3 DEF SendUser, Fails
    <2>2. TypeOK'
      BY <2>1, SessionsStay DEF IInv, TypeOK, target, history
    <2>3. GoneStays' /\ Places' /\ Tested'
      BY <2>1, SessionsStay DEF IInv, TypeOK, GoneStays, Places, Tested,
         Passed, session, target, history
    <2> QED
      BY <2>1, <2>2, <2>3, SessionsStay DEF IInv
  <1>4. CASE SessionReads(x)
    <2>1. /\ UNCHANGED session /\ UNCHANGED <<target, history, link, result>>
          /\ at[x] = "sent" /\ at' = [at EXCEPT ![x] = "over"]
          /\ reached' = [reached EXCEPT ![x] =
                           IF Admits(link[x], token[x]) THEN link[x] ELSE None]
      BY <1>4 DEF SessionReads
    <2>2. TypeOK'
      BY <2>1, SessionsStay DEF IInv, TypeOK, target, history
    <2>3. GoneStays' /\ Places' /\ Tested'
      BY <2>1, SessionsStay DEF IInv, TypeOK, GoneStays, Places, Tested,
         Passed, session, target, history
    <2> QED
      BY <2>1, <2>2, <2>3, SessionsStay DEF IInv
  <1> QED
    BY <1>1, <1>2, <1>3, <1>4

\* The invariant holds in every reachable state: pids belong to live
\* processes, invocations stand where their targets and connections say, and
\* Dial lets nothing through to a process that had gone before.
THEOREM Invariance == Spec => []IInv
  <1>1. Init => IInv
    BY Start
  <1>2. IInv /\ [Next]_vars => IInv'
    <2> SUFFICES ASSUME IInv, [Next]_vars PROVE IInv'
      OBVIOUS
    <2>1. CASE UNCHANGED vars
      BY <2>1 DEF vars, session, target, IInv, TypeOK, RunsLive, GoneStays,
         Gone, Homes, Places, Tested, Passed, history
    <2>2. CASE Next
      BY <2>2, SessionStep, DeliverStep, SendStep, DialStep DEF Next
    <2> QED
      BY <2>1, <2>2
  <1> QED
    BY <1>1, <1>2, PTL DEF Spec

\* Every variable of ClaudeDeliver keeps its type.
THEOREM TypeCorrect == Spec => []TypeOK
  <1>1. IInv => TypeOK
    BY DEF IInv
  <1> QED
    BY <1>1, Invariance, PTL

\* Whoever is connected to another process than the one whose start time Dial
\* has tested was misled by the exit of that process after the test, and by
\* nothing else: not by files left behind, nor by a pid that changed hands
\* before.
THEOREM OnlyExitsMislead == Spec => []MisledOnlyByExit
  <1>1. IInv => MisledOnlyByExit
    BY DEF IInv, TypeOK, Proc, Tested, Passed, MisledOnlyByExit, Gone
  <1> QED
    BY <1>1, Invariance, PTL

\* claude-send connects to nobody on the strength of a key file whose
\* publisher had gone before claude-send began.
THEOREM StaleKeysRefused == Spec => []StaleKeyRefused
  <1>1. IInv => StaleKeyRefused
    BY DEF IInv, Tested, Passed, StaleKeyRefused, Clients
  <1> QED
    BY <1>1, Invariance, PTL

-----------------------------------------------------------------------------
(***************************************************************************)
(* The size limits                                                         *)
(***************************************************************************)

Texts == [one : Nat, two : Nat, six : Nat]
AnyDelivery == [body : Texts, cursor : Nat, more : BOOLEAN]
AnySender == [from : Nat, name : Nat, mode : BOOLEAN]

\* The line around the text: frame, element and what the sender adds to both.
Reserved(cs) == LineSize([one |-> 0, two |-> 0, six |-> 0], cs, cs.mode)

\* What a division leaves, multiplied again, is no more than there was.
LEMMA DivFloor ==
    ASSUME NEW n \in Nat, NEW k \in Nat, k >= 6, NEW b \in Nat, b <= n \div k
    PROVE  6 * b <= n
  <1>1. n \div k \in Nat /\ 6 * (n \div k) <= n
    OBVIOUS
  <1> QED
    BY <1>1

\* The floor holds for every delivery and every sender that keeps within what
\* is reserved: what Deliver does not refuse is within the cap as a line,
\* whatever its bytes are, so encodeFrame takes it and Fits agrees.
THEOREM FloorForAll ==
    \A d \in AnyDelivery, cs \in AnySender :
       Reserved(cs) <= claudeOverhead /\ ~DeliverRefuses(d) =>
         ~EncodeRefuses(d, cs) /\ Fits(d, cs)
  <1> SUFFICES ASSUME NEW d \in AnyDelivery, NEW cs \in AnySender,
                      Reserved(cs) <= claudeOverhead, ~DeliverRefuses(d)
               PROVE  ~EncodeRefuses(d, cs) /\ Fits(d, cs)
    OBVIOUS
  <1> DEFINE t == ComposedText(d)
             room == MaxLineBytes - claudeOverhead
             extra == (IF cs.from > 0 THEN 2 * (10 + cs.from) ELSE 0)
                      + (IF cs.name > 0 THEN 15 + cs.name ELSE 0)
                      + (IF cs.mode THEN 24 ELSE 0)
             own == IF cs.mode THEN 24 ELSE 0
  <1>1. t \in Texts
    BY DEF ComposedText, AnyDelivery, Texts, Bytes
  <1>2. t.one \in Nat /\ t.two \in Nat /\ t.six \in Nat
    BY <1>1 DEF Texts
  <1>3. room \in Nat /\ Bytes(t) \in Nat /\ extra \in Nat /\ own \in Nat
    BY <1>2, CapsSensible DEF Bytes, AnySender
  <1>4. Bytes(t) <= room \div worstCaseEscape
    BY <1>3, CapsSensible DEF DeliverRefuses, MaxIntactBytes
  <1>5. 6 * Bytes(t) <= room
    BY <1>3, <1>4, CapsSensible, DivFloor
  <1>6. Encoded(t) <= room /\ Encoded(t) \in Nat
    BY <1>2, <1>3, <1>5 DEF Encoded, Bytes
  <1>7. 201 + extra + own <= claudeOverhead
    BY DEF LineSize, Reserved, Encoded, AnySender
  <1>8. 201 + Encoded(t) + extra + own <= MaxLineBytes
    BY <1>3, <1>6, <1>7, CapsSensible
  <1>9. ~EncodeRefuses(d, cs)
    BY <1>6, <1>8, CapsSensible DEF EncodeRefuses, LineSize, AnySender
  <1>10. Fits(d, cs)
    BY <1>6, <1>8, CapsSensible DEF Fits, LineSize, AnySender
  <1> QED
    BY <1>9, <1>10

\* In particular every message that a Deliver has let pass keeps within the
\* cap, at the edges the run enumerates.
THEOREM FloorStands == Spec => []FloorHolds
  <1>1. Floor
    <2> SUFFICES ASSUME NEW d \in EdgeDeliveries, NEW cs \in EdgeSenders,
                        ~DeliverRefuses(d)
                 PROVE  ~EncodeRefuses(d, cs) /\ Fits(d, cs)
      BY DEF Floor
    <2>1. Around \subseteq Nat
      BY DEF Around
    <2>2. EdgeBodies \subseteq Texts
      BY <2>1 DEF EdgeBodies, Texts
    <2>3. d \in AnyDelivery
      BY <2>2 DEF EdgeDeliveries, AnyDelivery
    <2>4. cs \in AnySender /\ Reserved(cs) <= claudeOverhead
      BY CapsSensible DEF EdgeSenders, AnySender, Reserved, LineSize, Encoded
    <2> QED
      BY <2>3, <2>4, FloorForAll
  <1>2. FloorHolds
    BY <1>1 DEF FloorHolds
  <1> QED
    BY <1>2, PTL

\* When an invocation is about to write its line, a session will read from it
\* what was delivered: the text with its own trailer, and of the sender only
\* what Wrap lets through.  This is EnvelopeSurvives and TrailerSurvives for the
\* senders and deliveries that the run enumerates.
THEOREM EnvelopeStands == Spec => []EnvelopeRoundTrip
  <1>1. EnvelopeRoundTrip
    BY RoundTripHolds DEF EnvelopeRoundTrip
  <1> QED
    BY <1>1, PTL
=============================================================================
