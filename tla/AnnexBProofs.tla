---------------------------- MODULE AnnexBProofs ----------------------------
(***************************************************************************)
(* Proofs about the readers and writers, for every input of bytes: the     *)
(* type invariant, that the calls of ReadNAL return the NAL units of the   *)
(* input, that what is written of them splits into the same ones, and that *)
(* the length-prefixed stream, cut anywhere, yields those that are whole.  *)
(***************************************************************************)
EXTENDS AnnexB, SequenceTheorems, FiniteSetTheorems, WellFoundedInduction, TLAPS

-----------------------------------------------------------------------------
(* Sequences of bytes.                                                     *)

(* A bounded sequence is a sequence.                                       *)
LEMMA BoundedIsSeq ==
    ASSUME NEW S, NEW n \in Nat, NEW s \in BoundedSeq(S, n)
    PROVE  s \in Seq(S)
<1>1. PICK m \in 0 .. n : s \in [1 .. m -> S]
      BY DEF BoundedSeq, SeqOf
<1> QED BY <1>1

(* What a piece of a sequence is.                                          *)
LEMMA Piece ==
    ASSUME NEW S, NEW s \in Seq(S), NEW m \in 1 .. Len(s) + 1, NEW n \in m - 1 .. Len(s)
    PROVE  /\ SubSeq(s, m, n) \in Seq(S) /\ Len(SubSeq(s, m, n)) = n - m + 1
           /\ \A i \in 1 .. n - m + 1 : SubSeq(s, m, n)[i] = s[m + i - 1]
<1>1. Len(s) \in Nat /\ \A i \in 1 .. Len(s) : s[i] \in S
      BY LenProperties, ElementOfSeq
<1>2. m \in Int /\ n \in Int /\ \A i \in m .. n : i \in 1 .. Len(s)
      BY <1>1
<1>3. \A i \in m .. n : s[i] \in S
      BY <1>1, <1>2
<1>4. /\ SubSeq(s, m, n) \in Seq(S)
      /\ Len(SubSeq(s, m, n)) = IF m <= n THEN n - m + 1 ELSE 0
      /\ \A i \in 1 .. n - m + 1 : SubSeq(s, m, n)[i] = s[m + i - 1]
      BY <1>2, <1>3, SubSeqProperties
<1>5. (IF m <= n THEN n - m + 1 ELSE 0) = n - m + 1
      BY <1>1, <1>2
<1> QED BY <1>4, <1>5

(* A sequence begins with another if it does element by element.           *)
LEMMA PrefixIs ==
    ASSUME NEW S, NEW s \in Seq(S), NEW t \in Seq(S)
    PROVE  IsPrefix(s, t) <=> Len(s) <= Len(t) /\ \A i \in 1 .. Len(s) : s[i] = t[i]
<1>1. Len(s) \in Nat /\ Len(t) \in Nat
      BY LenProperties
<1>2. CASE ~(Len(s) <= Len(t))
      BY <1>2 DEF IsPrefix
<1>3. CASE Len(s) <= Len(t)
  <2> DEFINE p == SubSeq(s, 1, Len(s))
             q == SubSeq(t, 1, Len(s))
  <2>1. /\ p \in Seq(S) /\ Len(p) = Len(s) /\ q \in Seq(S) /\ Len(q) = Len(s)
        /\ \A i \in 1 .. Len(s) : p[i] = s[i] /\ q[i] = t[i]
    <3>1. 1 \in 1 .. Len(s) + 1 /\ 1 \in 1 .. Len(t) + 1 /\ Len(s) \in 0 .. Len(t)
          BY <1>1, <1>3
    <3>2. /\ p \in Seq(S) /\ Len(p) = Len(s) - 1 + 1
          /\ \A i \in 1 .. Len(s) - 1 + 1 : p[i] = s[1 + i - 1]
          BY <1>1, <3>1, Piece
    <3>3. /\ q \in Seq(S) /\ Len(q) = Len(s) - 1 + 1
          /\ \A i \in 1 .. Len(s) - 1 + 1 : q[i] = t[1 + i - 1]
          BY <1>1, <3>1, Piece
    <3> HIDE DEF p, q
    <3>4. Len(s) - 1 + 1 = Len(s) /\ \A i \in 1 .. Len(s) : 1 + i - 1 = i
          BY <1>1
    <3> QED BY <3>2, <3>3, <3>4
  <2> HIDE DEF p, q
  <2>2. p = q <=> \A i \in 1 .. Len(s) : p[i] = q[i]
        BY <2>1, SeqEqual
  <2>3. p = q <=> \A i \in 1 .. Len(s) : s[i] = t[i]
        BY <2>1, <2>2
  <2> QED BY <1>3, <2>3 DEF IsPrefix, p, q
<1> QED BY <1>2, <1>3

(* What is read backwards.                                                *)
LEMMA ReverseIs ==
    ASSUME NEW S, NEW s \in Seq(S)
    PROVE  /\ Reverse(s) \in Seq(S) /\ Len(Reverse(s)) = Len(s)
           /\ \A i \in 1 .. Len(s) : Reverse(s)[i] = s[Len(s) - i + 1]
<1>1. Len(s) \in Nat /\ \A i \in 1 .. Len(s) : s[i] \in S
      BY LenProperties, ElementOfSeq
<1>2. \A i \in 1 .. Len(s) : Len(s) - i + 1 \in 1 .. Len(s)
      BY <1>1
<1>3. Reverse(s) \in [1 .. Len(s) -> S]
      BY <1>1, <1>2 DEF Reverse
<1>4. Reverse(s) \in Seq(S) /\ Len(Reverse(s)) = Len(s)
      BY <1>1, <1>3
<1>5. \A i \in 1 .. Len(s) : Reverse(s)[i] = s[Len(s) - i + 1]
      BY DEF Reverse
<1> QED BY <1>4, <1>5

(* A sequence ends with another if it does element by element.             *)
LEMMA SuffixIs ==
    ASSUME NEW S, NEW s \in Seq(S), NEW t \in Seq(S)
    PROVE  IsSuffix(s, t) <=>
               Len(s) <= Len(t) /\ \A i \in 0 .. Len(s) - 1 : s[Len(s) - i] = t[Len(t) - i]
<1>1. Len(s) \in Nat /\ Len(t) \in Nat
      BY LenProperties
<1>2. /\ Reverse(s) \in Seq(S) /\ Len(Reverse(s)) = Len(s)
      /\ Reverse(t) \in Seq(S) /\ Len(Reverse(t)) = Len(t)
      /\ \A i \in 1 .. Len(s) : Reverse(s)[i] = s[Len(s) - i + 1]
      /\ \A i \in 1 .. Len(t) : Reverse(t)[i] = t[Len(t) - i + 1]
      BY ReverseIs
<1>3. IsSuffix(s, t) <=>
          Len(s) <= Len(t) /\ \A i \in 1 .. Len(s) : Reverse(s)[i] = Reverse(t)[i]
      BY <1>2, PrefixIs DEF IsSuffix
<1>4. ASSUME Len(s) <= Len(t)
      PROVE  (\A i \in 1 .. Len(s) : Reverse(s)[i] = Reverse(t)[i]) <=>
                 \A i \in 0 .. Len(s) - 1 : s[Len(s) - i] = t[Len(t) - i]
  <2>1. \A i \in 1 .. Len(s) : i \in 1 .. Len(t)
        BY <1>1, <1>4
  <2>2. (\A i \in 1 .. Len(s) : Reverse(s)[i] = Reverse(t)[i]) <=>
            \A i \in 1 .. Len(s) : s[Len(s) - i + 1] = t[Len(t) - i + 1]
        BY <1>2, <2>1
  <2>3. ASSUME \A i \in 1 .. Len(s) : s[Len(s) - i + 1] = t[Len(t) - i + 1],
               NEW i \in 0 .. Len(s) - 1
        PROVE  s[Len(s) - i] = t[Len(t) - i]
    <3>1. /\ i + 1 \in 1 .. Len(s)
          /\ Len(s) - (i + 1) + 1 = Len(s) - i /\ Len(t) - (i + 1) + 1 = Len(t) - i
          BY <1>1
    <3>2. s[Len(s) - (i + 1) + 1] = t[Len(t) - (i + 1) + 1]
          BY <2>3, <3>1
    <3> QED BY <3>1, <3>2
  <2>4. ASSUME \A i \in 0 .. Len(s) - 1 : s[Len(s) - i] = t[Len(t) - i],
               NEW i \in 1 .. Len(s)
        PROVE  s[Len(s) - i + 1] = t[Len(t) - i + 1]
    <3>1. /\ i - 1 \in 0 .. Len(s) - 1
          /\ Len(s) - (i - 1) = Len(s) - i + 1 /\ Len(t) - (i - 1) = Len(t) - i + 1
          BY <1>1
    <3>2. s[Len(s) - (i - 1)] = t[Len(t) - (i - 1)]
          BY <2>4, <3>1
    <3> QED BY <3>1, <3>2
  <2> QED BY <2>2, <2>3, <2>4
<1> QED BY <1>3, <1>4

-----------------------------------------------------------------------------
(* Start codes.                                                            *)

Bytes == Seq(Alphabet)

(* The three-byte start code stands at i.                                  *)
CodeAt(s, i) == s[i] = 0 /\ s[i + 1] = 0 /\ s[i + 2] = 1

(* The start codes and the pieces of the input are sequences of bytes.     *)
LEMMA CodesAreBytes ==
    /\ StartCode \in Bytes /\ Len(StartCode) = 4
    /\ StartCode[1] = 0 /\ StartCode[2] = 0 /\ StartCode[3] = 0 /\ StartCode[4] = 1
    /\ StartCode3 \in Bytes /\ Len(StartCode3) = 3
    /\ StartCode3[1] = 0 /\ StartCode3[2] = 0 /\ StartCode3[3] = 1
    /\ << >> \in Bytes /\ Len(<< >>) = 0
    /\ StartCode # << >> /\ StartCode3 # << >> /\ StartCode # StartCode3
<1>1. 0 \in Alphabet /\ 1 \in Alphabet
      BY AnnexBAssumption
<1>2. StartCode \in Bytes /\ StartCode3 \in Bytes /\ << >> \in Bytes
      BY <1>1 DEF Bytes, StartCode, StartCode3
<1>3. /\ Len(StartCode) = 4 /\ Len(StartCode3) = 3 /\ Len(<< >>) = 0
      /\ StartCode[1] = 0 /\ StartCode[2] = 0 /\ StartCode[3] = 0 /\ StartCode[4] = 1
      /\ StartCode3[1] = 0 /\ StartCode3[2] = 0 /\ StartCode3[3] = 1
      BY DEF StartCode, StartCode3
<1> QED BY <1>2, <1>3

(* Only the empty sequence has no element.                                 *)
LEMMA LenOfBytes ==
    ASSUME NEW s \in Bytes
    PROVE  /\ Len(s) \in Nat
           /\ s = << >> <=> Len(s) = 0
           /\ \A i \in 1 .. Len(s) : s[i] \in Alphabet /\ s[i] \in Nat
<1>1. s \in Seq(Alphabet)
      BY DEF Bytes
<1>2. Len(s) \in Nat /\ \A i \in 1 .. Len(s) : s[i] \in Alphabet
      BY <1>1, LenProperties, ElementOfSeq
<1>3. s = << >> <=> Len(s) = 0
      BY <1>1, EmptySeq
<1>4. \A b \in Alphabet : b \in Nat
      BY AnnexBAssumption
<1> QED BY <1>2, <1>3, <1>4

(* Where start codes occur.                                                *)
LEMMA OccursIs ==
    ASSUME NEW s \in Bytes
    PROVE  /\ Occurs(s) = {i \in 1 .. Len(s) - 2 : CodeAt(s, i)}
           /\ \A i, j \in Occurs(s) : i < j => i + 3 <= j
<1>1. s \in Seq(Alphabet) /\ Len(s) \in Nat
      BY LenOfBytes DEF Bytes
<1>2. ASSUME NEW i \in 1 .. Len(s) - 2
      PROVE  SubSeq(s, i, i + 2) = StartCode3 <=> CodeAt(s, i)
  <2> DEFINE p == SubSeq(s, i, i + 2)
  <2>1. i \in 1 .. Len(s) + 1 /\ i + 2 \in i - 1 .. Len(s) /\ i + 2 - i + 1 = 3
        BY <1>1, <1>2
  <2>2. p \in Seq(Alphabet) /\ Len(p) = 3 /\ \A k \in 1 .. 3 : p[k] = s[i + k - 1]
        BY <1>1, <2>1, Piece
  <2>3. /\ StartCode3 \in Seq(Alphabet) /\ Len(StartCode3) = 3
        /\ StartCode3[1] = 0 /\ StartCode3[2] = 0 /\ StartCode3[3] = 1
        BY CodesAreBytes DEF Bytes
  <2> HIDE DEF p
  <2>4. i + 1 - 1 = i /\ i + 2 - 1 = i + 1 /\ i + 3 - 1 = i + 2
        BY <1>2, <1>1
  <2>5. p[1] = s[i] /\ p[2] = s[i + 1] /\ p[3] = s[i + 2]
        BY <2>2, <2>4
  <2>6. ASSUME CodeAt(s, i)
        PROVE  p = StartCode3
    <3>1. \A k \in 1 .. 3 : p[k] = StartCode3[k]
          BY <2>3, <2>5, <2>6 DEF CodeAt
    <3> QED BY <2>2, <2>3, <3>1, SeqEqual
  <2>7. p = StartCode3 => CodeAt(s, i)
        BY <2>3, <2>5 DEF CodeAt
  <2> QED BY <2>6, <2>7 DEF p
<1>3. Occurs(s) = {i \in 1 .. Len(s) - 2 : CodeAt(s, i)}
      BY <1>2 DEF Occurs
<1>4. ASSUME NEW i \in Occurs(s), NEW j \in Occurs(s), i < j
      PROVE  i + 3 <= j
  <2>1. i \in Int /\ j \in Int /\ CodeAt(s, i) /\ CodeAt(s, j)
        BY <1>1, <1>3
  <2>2. j # i + 1
        BY <2>1 DEF CodeAt
  <2>3. j # i + 2
        BY <2>1 DEF CodeAt
  <2> QED BY <1>4, <2>1, <2>2, <2>3
<1> QED BY <1>3, <1>4

(* What CodeAtEnd finds: the code stands at the end, with or without a     *)
(* zero before it.                                                         *)
LEMMA CodeAtEndIs ==
    ASSUME NEW s \in Bytes
    PROVE  /\ CodeAtEnd(s) \in {<< >>, StartCode, StartCode3}
           /\ CodeAtEnd(s) = << >> <=> ~(Len(s) >= 3 /\ CodeAt(s, Len(s) - 2))
           /\ CodeAtEnd(s) = StartCode <=>
                  Len(s) >= 4 /\ CodeAt(s, Len(s) - 2) /\ s[Len(s) - 3] = 0
<1> DEFINE n == Len(s)
<1>1. s \in Seq(Alphabet) /\ n \in Nat
      BY LenOfBytes DEF Bytes
<1>2. IsSuffix(StartCode3, s) <=> n >= 3 /\ CodeAt(s, n - 2)
  <2> DEFINE c == StartCode3
  <2>1. c \in Seq(Alphabet) /\ Len(c) = 3 /\ c[1] = 0 /\ c[2] = 0 /\ c[3] = 1
        BY CodesAreBytes DEF Bytes
  <2>2. IsSuffix(c, s) <=>
            Len(c) <= Len(s) /\ \A i \in 0 .. Len(c) - 1 : c[Len(c) - i] = s[Len(s) - i]
        BY <1>1, <2>1, SuffixIs
  <2> HIDE DEF c
  <2>3. (\A i \in 0 .. Len(c) - 1 : c[Len(c) - i] = s[Len(s) - i]) <=>
            c[3] = s[n] /\ c[2] = s[n - 1] /\ c[1] = s[n - 2]
        BY <1>1, <2>1
  <2>4. n - 2 + 1 = n - 1 /\ n - 2 + 2 = n
        BY <1>1
  <2>5. CodeAt(s, n - 2) <=> c[3] = s[n] /\ c[2] = s[n - 1] /\ c[1] = s[n - 2]
        BY <2>1, <2>4 DEF CodeAt
  <2> QED BY <1>1, <2>1, <2>2, <2>3, <2>5 DEF c
<1>3. IsSuffix(StartCode, s) <=> n >= 4 /\ CodeAt(s, n - 2) /\ s[n - 3] = 0
  <2> DEFINE c == StartCode
  <2>1. c \in Seq(Alphabet) /\ Len(c) = 4 /\ c[1] = 0 /\ c[2] = 0 /\ c[3] = 0 /\ c[4] = 1
        BY CodesAreBytes DEF Bytes
  <2>2. IsSuffix(c, s) <=>
            Len(c) <= Len(s) /\ \A i \in 0 .. Len(c) - 1 : c[Len(c) - i] = s[Len(s) - i]
        BY <1>1, <2>1, SuffixIs
  <2> HIDE DEF c
  <2>3. (\A i \in 0 .. Len(c) - 1 : c[Len(c) - i] = s[Len(s) - i]) <=>
            c[4] = s[n] /\ c[3] = s[n - 1] /\ c[2] = s[n - 2] /\ c[1] = s[n - 3]
        BY <1>1, <2>1
  <2>4. n - 2 + 1 = n - 1 /\ n - 2 + 2 = n
        BY <1>1
  <2>5. CodeAt(s, n - 2) /\ s[n - 3] = 0 <=>
            (c[4] = s[n] /\ c[3] = s[n - 1] /\ c[2] = s[n - 2] /\ c[1] = s[n - 3])
        BY <2>1, <2>4 DEF CodeAt
  <2> QED BY <1>1, <2>1, <2>2, <2>3, <2>5 DEF c
<1> HIDE DEF n
<1>4. CASE IsSuffix(StartCode, s)
      BY <1>1, <1>3, <1>4, CodesAreBytes DEF CodeAtEnd, n
<1>5. CASE ~IsSuffix(StartCode, s) /\ IsSuffix(StartCode3, s)
      BY <1>1, <1>2, <1>3, <1>5, CodesAreBytes DEF CodeAtEnd, n
<1>6. CASE ~IsSuffix(StartCode, s) /\ ~IsSuffix(StartCode3, s)
      BY <1>1, <1>2, <1>3, <1>6, CodesAreBytes DEF CodeAtEnd, n
<1> QED BY <1>4, <1>5, <1>6

(* A set of naturals that is not empty has a least element, and it is Min. *)
LEMMA MinIs ==
    ASSUME NEW S \in SUBSET Nat, S # {}
    PROVE  Min(S) \in S /\ \A k \in S : Min(S) <= k
<1>1. \E m \in S : \A k \in S : <<k, m>> \notin OpToRel(<, Nat)
      BY NatLessThanWellFounded, WFMin
<1>2. PICK m \in S : \A k \in S : <<k, m>> \notin OpToRel(<, Nat)
      BY <1>1
<1>3. \A k \in S : ~(k < m)
      BY <1>2 DEF OpToRel
<1>4. \A k \in S : m <= k
      BY <1>3
<1>5. \E x \in S : \A y \in S : x =< y
      BY <1>4
<1> QED BY <1>5 DEF Min

(***************************************************************************)
(* The end of what starts at i: the end of the bytes when no start code    *)
(* follows, and otherwise what is before the first that does, less a zero. *)
(***************************************************************************)
LEMMA EndIs ==
    ASSUME NEW s \in Bytes, NEW i \in Nat
    PROVE  /\ (\A k \in Occurs(s) : k < i) => End(s, i) = Len(s)
           /\ \A j \in Occurs(s) :
                 j >= i /\ (\A k \in Occurs(s) : k >= i => j <= k) =>
                     End(s, i) = IF j > i /\ s[j - 1] = 0 THEN j - 2 ELSE j - 1
           /\ \/ \A k \in Occurs(s) : k < i
              \/ \E j \in Occurs(s) : j >= i /\ \A k \in Occurs(s) : k >= i => j <= k
<1> DEFINE later == {j \in Occurs(s) : j >= i}
<1>1. Len(s) \in Nat /\ Occurs(s) \subseteq 1 .. Len(s) - 2
      BY LenOfBytes, OccursIs
<1>2. later \in SUBSET Nat
      BY <1>1
<1>3. End(s, i) = IF later = {} THEN Len(s)
                  ELSE IF Min(later) > i /\ s[Min(later) - 1] = 0
                       THEN Min(later) - 2 ELSE Min(later) - 1
      BY DEF End
<1>4. later # {} => Min(later) \in later /\ \A k \in later : Min(later) <= k
  <2> HIDE DEF later
  <2> QED BY <1>2, MinIs
<1>5. (\A k \in Occurs(s) : k < i) => later = {}
      BY <1>1
<1>6. ASSUME NEW j \in Occurs(s), j >= i, \A k \in Occurs(s) : k >= i => j <= k
      PROVE  later # {} /\ Min(later) = j
  <2>1. j \in later /\ \A k \in later : j <= k
        BY <1>6
  <2> HIDE DEF later
  <2>2. Min(later) <= j /\ j <= Min(later)
        BY <1>4, <2>1
  <2>3. Min(later) \in Nat /\ j \in Nat
        BY <1>2, <1>4, <2>1
  <2> QED BY <2>1, <2>2, <2>3
<1>7. later = {} => \A k \in Occurs(s) : k < i
      BY <1>1
<1>8. later # {} =>
          \E j \in Occurs(s) : j >= i /\ \A k \in Occurs(s) : k >= i => j <= k
      BY <1>4
<1> HIDE DEF later
<1>9. (\A k \in Occurs(s) : k < i) => End(s, i) = Len(s)
      BY <1>3, <1>5
<1>10. \A j \in Occurs(s) :
           j >= i /\ (\A k \in Occurs(s) : k >= i => j <= k) =>
               End(s, i) = IF j > i /\ s[j - 1] = 0 THEN j - 2 ELSE j - 1
       BY <1>3, <1>6
<1> QED BY <1>7, <1>8, <1>9, <1>10

(* Where NAL units start and end.                                          *)
LEMMA FullIs ==
    ASSUME NEW s \in Bytes
    PROVE  /\ Starts(s) \subseteq 1 .. Len(s) + 1
           /\ \A i \in Starts(s) : End(s, i) \in i - 1 .. Len(s)
           /\ Full(s) \subseteq 1 .. Len(s) /\ Full(s) \subseteq Starts(s)
           /\ IsFiniteSet(Full(s))
           /\ \A i \in Full(s) : SubSeq(s, i, End(s, i)) \in Bytes \ {<< >>}
<1>1. Len(s) \in Nat /\ Occurs(s) \subseteq 1 .. Len(s) - 2
      BY LenOfBytes, OccursIs
<1>2. Starts(s) \subseteq 1 .. Len(s) + 1
      BY <1>1 DEF Starts
<1>3. ASSUME NEW i \in Starts(s)
      PROVE  End(s, i) \in i - 1 .. Len(s)
  <2>1. i \in Nat /\ i <= Len(s) + 1
        BY <1>1, <1>2
  <2>2. CASE \A k \in Occurs(s) : k < i
    <3>1. End(s, i) = Len(s)
          BY <2>1, <2>2, EndIs
    <3> QED BY <1>1, <2>1, <3>1
  <2>3. CASE \E j \in Occurs(s) : j >= i /\ \A k \in Occurs(s) : k >= i => j <= k
    <3>1. PICK j \in Occurs(s) : j >= i /\ \A k \in Occurs(s) : k >= i => j <= k
          BY <2>3
    <3>2. End(s, i) = IF j > i /\ s[j - 1] = 0 THEN j - 2 ELSE j - 1
          BY <2>1, <3>1, EndIs
    <3>3. End(s, i) = j - 1 \/ (j > i /\ End(s, i) = j - 2)
          BY <3>2
    <3> QED BY <1>1, <2>1, <3>1, <3>3
  <2> QED BY <2>1, <2>2, <2>3, EndIs
<1>4. Full(s) \subseteq 1 .. Len(s) /\ Full(s) \subseteq Starts(s)
      BY <1>1, <1>2, <1>3 DEF Full
<1>5. IsFiniteSet(Full(s))
  <2>1. IsFiniteSet(1 .. Len(s))
        BY <1>1, FS_Interval
  <2> QED BY <1>4, <2>1, FS_Subset
<1>6. ASSUME NEW i \in Full(s)
      PROVE  SubSeq(s, i, End(s, i)) \in Bytes \ {<< >>}
  <2>1. i \in 1 .. Len(s) + 1 /\ End(s, i) \in i - 1 .. Len(s) /\ i <= End(s, i)
        BY <1>1, <1>2, <1>3, <1>4 DEF Full
  <2>2. /\ SubSeq(s, i, End(s, i)) \in Seq(Alphabet)
        /\ Len(SubSeq(s, i, End(s, i))) = End(s, i) - i + 1
        BY <2>1, Piece DEF Bytes
  <2>3. SubSeq(s, i, End(s, i)) \in Bytes /\ Len(SubSeq(s, i, End(s, i))) # 0
        BY <2>1, <2>2 DEF Bytes
  <2> QED BY <2>3, LenOfBytes
<1> QED BY <1>2, <1>3, <1>4, <1>5, <1>6

-----------------------------------------------------------------------------
(* A list of NAL units.                                                    *)

(* The list holds the NAL units of the bytes that begin in D, in order.    *)
Lists(s, D, list) ==
    /\ Len(list) = Cardinality(D)
    /\ \A k \in 1 .. Len(list) :
          \E i \in D : Rank(s, i) = k /\ list[k] = SubSeq(s, i, End(s, i))

(* What Rank is: no two NAL units have the same.                           *)
LEMMA RankIs ==
    ASSUME NEW s \in Bytes, NEW i \in Full(s)
    PROVE  /\ Rank(s, i) \in 1 .. Cardinality(Full(s))
           /\ \A j \in Full(s) : i < j => Rank(s, i) < Rank(s, j)
<1> DEFINE Upto(j) == {k \in Full(s) : k <= j}
<1>1. IsFiniteSet(Full(s)) /\ Full(s) \subseteq Nat
  <2>1. IsFiniteSet(Full(s)) /\ Full(s) \subseteq 1 .. Len(s)
        BY FullIs
  <2> QED BY <2>1
<1>2. Cardinality(Full(s)) \in Nat
      BY <1>1, FS_CardinalityType
<1>3. ASSUME NEW j \in Full(s)
      PROVE  /\ IsFiniteSet(Upto(j)) /\ Cardinality(Upto(j)) \in Nat /\ j \in Upto(j)
             /\ Cardinality(Upto(j)) <= Cardinality(Full(s)) /\ Rank(s, j) = Cardinality(Upto(j))
  <2>1. Upto(j) \in SUBSET Full(s) /\ j \in Upto(j)
        BY <1>1
  <2>2. Rank(s, j) = Cardinality(Upto(j))
        BY DEF Rank
  <2> HIDE DEF Upto
  <2>3. IsFiniteSet(Upto(j)) /\ Cardinality(Upto(j)) <= Cardinality(Full(s))
        BY <1>1, <2>1, FS_Subset
  <2> QED BY <2>1, <2>2, <2>3, FS_CardinalityType
<1>4. Rank(s, i) \in 1 .. Cardinality(Full(s))
  <2> HIDE DEF Upto
  <2>1. Cardinality(Upto(i)) # 0
        BY <1>3, FS_EmptySet
  <2> QED BY <1>2, <1>3, <2>1
<1>5. ASSUME NEW j \in Full(s), i < j
      PROVE  Rank(s, i) < Rank(s, j)
  <2>1. Upto(i) \in SUBSET Upto(j) /\ j \notin Upto(i)
        BY <1>1, <1>5
  <2> HIDE DEF Upto
  <2>2. /\ Cardinality(Upto(i)) <= Cardinality(Upto(j))
        /\ Cardinality(Upto(j)) = Cardinality(Upto(i)) => Upto(j) = Upto(i)
        BY <1>3, <2>1, FS_Subset
  <2>3. Cardinality(Upto(i)) # Cardinality(Upto(j))
        BY <1>3, <2>1, <2>2
  <2> QED BY <1>3, <2>2, <2>3
<1> QED BY <1>4, <1>5

(* The list of them all is what the bytes split into.                      *)
LEMMA ListIsSplit ==
    ASSUME NEW s \in Bytes, NEW list \in Seq(Bytes), Lists(s, Full(s), list)
    PROVE  list = Split(s)
<1>1. Len(list) = Cardinality(Full(s)) /\ Len(list) \in Nat
      BY LenProperties DEF Lists
<1>2. ASSUME NEW k \in 1 .. Len(list)
      PROVE  list[k] = Split(s)[k]
  <2>1. PICK i \in Full(s) : Rank(s, i) = k /\ list[k] = SubSeq(s, i, End(s, i))
        BY DEF Lists
  <2>2. Full(s) \subseteq Nat
    <3>1. Full(s) \subseteq 1 .. Len(s)
          BY FullIs
    <3> QED BY <3>1
  <2>3. ASSUME NEW j \in Full(s), Rank(s, j) = k
        PROVE  j = i
    <3>1. /\ i < j => Rank(s, i) < Rank(s, j)
          /\ j < i => Rank(s, j) < Rank(s, i)
          BY RankIs
    <3>2. ~(i < j) /\ ~(j < i)
          BY <2>1, <2>3, <3>1
    <3> QED BY <2>2, <3>2
  <2>4. (CHOOSE j \in Full(s) : Rank(s, j) = k) = i
        BY <2>1, <2>3
  <2>5. Split(s)[k] = LET j == CHOOSE j \in Full(s) : Rank(s, j) = k IN SubSeq(s, j, End(s, j))
        BY <1>1 DEF Split
  <2> QED BY <2>1, <2>4, <2>5
<1>3. ASSUME NEW k \in 1 .. Len(list)
      PROVE  Split(s)[k] \in Bytes
      BY <1>2, <1>3, ElementOfSeq
<1>4. Split(s) \in [1 .. Len(list) -> Bytes]
      BY <1>1, <1>3 DEF Split
<1>5. Split(s) \in Seq(Bytes) /\ Len(Split(s)) = Len(list)
      BY <1>1, <1>4
<1> QED BY <1>2, <1>5, SeqEqual

(* One more NAL unit, the next one, is listed.                             *)
LEMMA ListsOneMore ==
    ASSUME NEW s \in Bytes, NEW b \in Full(s), NEW list \in Seq(Bytes),
           Lists(s, {i \in Full(s) : i < b}, list)
    PROVE  Lists(s, {i \in Full(s) : i <= b}, Append(list, SubSeq(s, b, End(s, b))))
<1> DEFINE D == {i \in Full(s) : i < b}
           E == {i \in Full(s) : i <= b}
           new == Append(list, SubSeq(s, b, End(s, b)))
<1>1. IsFiniteSet(Full(s)) /\ Full(s) \subseteq Nat
  <2>1. IsFiniteSet(Full(s)) /\ Full(s) \subseteq 1 .. Len(s)
        BY FullIs
  <2> QED BY <2>1
<1>2. E = D \cup {b} /\ b \notin D /\ D \in SUBSET Full(s)
      BY <1>1
<1>3. Rank(s, b) = Cardinality(E)
      BY DEF Rank
<1>4. Lists(s, D, list)
      OBVIOUS
<1> HIDE DEF D, E
<1>5. IsFiniteSet(D) /\ Cardinality(E) = Cardinality(D) + 1
      BY <1>1, <1>2, FS_Subset, FS_AddElement
<1>6. Len(list) = Cardinality(D) /\ Len(list) \in Nat
      BY <1>4, LenProperties DEF Lists
<1>7. /\ Len(new) = Len(list) + 1 /\ new[Len(list) + 1] = SubSeq(s, b, End(s, b))
      /\ \A k \in 1 .. Len(list) : new[k] = list[k]
  <2>1. SubSeq(s, b, End(s, b)) \in Bytes
        BY FullIs
  <2> QED BY <1>6, <2>1, AppendProperties
<1> HIDE DEF new
<1>8. ASSUME NEW k \in 1 .. Len(new)
      PROVE  \E i \in E : Rank(s, i) = k /\ new[k] = SubSeq(s, i, End(s, i))
  <2>1. CASE k = Len(list) + 1
        BY <1>2, <1>3, <1>5, <1>6, <1>7, <2>1
  <2>2. CASE k # Len(list) + 1
    <3>1. k \in 1 .. Len(list)
          BY <1>6, <1>7, <1>8, <2>2
    <3>2. PICK i \in D : Rank(s, i) = k /\ list[k] = SubSeq(s, i, End(s, i))
          BY <1>4, <3>1 DEF Lists
    <3> QED BY <1>2, <1>7, <3>1, <3>2
  <2> QED BY <2>1, <2>2
<1>9. Lists(s, E, new)
      BY <1>5, <1>6, <1>7, <1>8 DEF Lists
<1> QED BY <1>9 DEF E, new

-----------------------------------------------------------------------------
(* What the reader has in its buffer, of the bytes from b to t.            *)

(* Pieces of a piece.                                                      *)
LEMMA PieceOfPiece ==
    ASSUME NEW s \in Bytes, NEW b \in 1 .. Len(s) + 1, NEW t \in b - 1 .. Len(s),
           NEW e \in b - 1 .. t
    PROVE  SubSeq(SubSeq(s, b, t), 1, e - b + 1) = SubSeq(s, b, e)
<1> DEFINE p == SubSeq(s, b, t)
           q == SubSeq(p, 1, e - b + 1)
           r == SubSeq(s, b, e)
<1>1. s \in Seq(Alphabet) /\ Len(s) \in Nat
      BY LenOfBytes DEF Bytes
<1>2. b \in Nat /\ t \in Int /\ e \in Int /\ b - 1 <= e /\ e <= t /\ t <= Len(s)
      BY <1>1
<1>3. /\ p \in Seq(Alphabet) /\ Len(p) = t - b + 1
      /\ \A k \in 1 .. t - b + 1 : p[k] = s[b + k - 1]
      BY <1>1, Piece
<1>4. /\ r \in Seq(Alphabet) /\ Len(r) = e - b + 1
      /\ \A k \in 1 .. e - b + 1 : r[k] = s[b + k - 1]
  <2>1. e \in b - 1 .. Len(s)
        BY <1>1, <1>2
  <2> QED BY <1>1, <2>1, Piece
<1>5. /\ q \in Seq(Alphabet) /\ Len(q) = e - b + 1
      /\ \A k \in 1 .. e - b + 1 : q[k] = p[k]
  <2> HIDE DEF p, r
  <2>1. 1 \in 1 .. Len(p) + 1 /\ e - b + 1 \in 1 - 1 .. Len(p)
        BY <1>2, <1>3
  <2>2. /\ q \in Seq(Alphabet) /\ Len(q) = e - b + 1 - 1 + 1
        /\ \A k \in 1 .. e - b + 1 - 1 + 1 : q[k] = p[1 + k - 1]
        BY <1>3, <2>1, Piece
  <2> HIDE DEF q
  <2>3. e - b + 1 - 1 + 1 = e - b + 1 /\ \A k \in 1 .. e - b + 1 : 1 + k - 1 = k
        BY <1>2
  <2> QED BY <2>2, <2>3
<1> HIDE DEF p, q, r
<1>6. \A k \in 1 .. e - b + 1 : q[k] = r[k]
  <2>1. \A k \in 1 .. e - b + 1 : k \in 1 .. t - b + 1
        BY <1>2
  <2> QED BY <1>3, <1>4, <1>5, <2>1
<1>7. q = r
      BY <1>4, <1>5, <1>6, SeqEqual
<1> QED BY <1>7 DEF p, q, r

(* The next byte makes the piece longer.                                   *)
LEMMA PieceGrows ==
    ASSUME NEW s \in Bytes, NEW b \in 1 .. Len(s) + 1, NEW t \in b - 1 .. Len(s), t < Len(s)
    PROVE  Append(SubSeq(s, b, t), s[t + 1]) = SubSeq(s, b, t + 1)
<1> DEFINE p == SubSeq(s, b, t)
           q == Append(p, s[t + 1])
           r == SubSeq(s, b, t + 1)
<1>1. s \in Seq(Alphabet) /\ Len(s) \in Nat /\ \A k \in 1 .. Len(s) : s[k] \in Alphabet
      BY LenOfBytes DEF Bytes
<1>2. b \in Nat /\ t \in Int /\ b - 1 <= t /\ t + 1 \in 1 .. Len(s) /\ b >= 1
      BY <1>1
<1>3. /\ p \in Seq(Alphabet) /\ Len(p) = t - b + 1
      /\ \A k \in 1 .. t - b + 1 : p[k] = s[b + k - 1]
      BY <1>1, Piece
<1>4. /\ r \in Seq(Alphabet) /\ Len(r) = t + 1 - b + 1
      /\ \A k \in 1 .. t + 1 - b + 1 : r[k] = s[b + k - 1]
  <2>1. t + 1 \in b - 1 .. Len(s)
        BY <1>1, <1>2
  <2> QED BY <1>1, <2>1, Piece
<1> HIDE DEF p, r
<1>5. /\ q \in Seq(Alphabet) /\ Len(q) = Len(p) + 1 /\ q[Len(p) + 1] = s[t + 1]
      /\ \A k \in 1 .. Len(p) : q[k] = p[k]
      BY <1>1, <1>2, <1>3, AppendProperties
<1> HIDE DEF q
<1>6. \A k \in 1 .. t + 1 - b + 1 : q[k] = r[k]
  <2>1. ASSUME NEW k \in 1 .. t + 1 - b + 1
        PROVE  q[k] = r[k]
    <3>1. CASE k = t - b + 2
      <4>1. k = Len(p) + 1 /\ b + k - 1 = t + 1
            BY <1>2, <1>3, <3>1
      <4> QED BY <1>4, <1>5, <4>1
    <3>2. CASE k # t - b + 2
      <4>1. k \in 1 .. t - b + 1
            BY <1>2, <3>2
      <4> QED BY <1>3, <1>4, <1>5, <4>1
    <3> QED BY <3>1, <3>2
  <2> QED BY <2>1
<1>7. Len(q) = Len(r)
      BY <1>2, <1>3, <1>4, <1>5
<1>8. q = r
      BY <1>4, <1>5, <1>6, <1>7, SeqEqual
<1> QED BY <1>8 DEF p, q, r

(***************************************************************************)
(* The code a piece ends with is the start code of the bytes that ends     *)
(* where the piece does, and is the whole piece if it is as long.          *)
(***************************************************************************)
LEMMA CodeInPiece ==
    ASSUME NEW s \in Bytes, NEW b \in 1 .. Len(s) + 1, NEW t \in b - 1 .. Len(s)
    PROVE  LET p == SubSeq(s, b, t)
               code == CodeAtEnd(p)
           IN  /\ p \in Bytes /\ Len(p) = t - b + 1
               /\ code \in {<< >>, StartCode, StartCode3}
               /\ code = << >> <=> ~(t - 2 >= b /\ t - 2 \in Occurs(s))
               /\ code = StartCode <=> t - 3 >= b /\ t - 2 \in Occurs(s) /\ s[t - 3] = 0
               /\ Len(p) >= Len(code)
               /\ code # << >> => (p = code <=> Len(p) = Len(code))
<1> DEFINE p == SubSeq(s, b, t)
           n == Len(p)
           code == CodeAtEnd(p)
<1>1. s \in Seq(Alphabet) /\ Len(s) \in Nat
      BY LenOfBytes DEF Bytes
<1>2. b \in Nat /\ t \in Int /\ b - 1 <= t /\ t <= Len(s) /\ b >= 1
      BY <1>1
<1>3. /\ p \in Bytes /\ n = t - b + 1
      /\ \A k \in 1 .. t - b + 1 : p[k] = s[b + k - 1]
      BY <1>1, Piece DEF Bytes
<1> HIDE DEF p
<1>4. /\ code \in {<< >>, StartCode, StartCode3}
      /\ code = << >> <=> ~(n >= 3 /\ CodeAt(p, n - 2))
      /\ code = StartCode <=> n >= 4 /\ CodeAt(p, n - 2) /\ p[n - 3] = 0
      BY <1>3, CodeAtEndIs
<1> HIDE DEF n, code
<1>5. ASSUME n >= 3
      PROVE  CodeAt(p, n - 2) <=> t - 2 \in Occurs(s)
  <2>1. /\ n - 2 \in 1 .. t - b + 1 /\ n - 2 + 1 \in 1 .. t - b + 1 /\ n - 2 + 2 \in 1 .. t - b + 1
        /\ b + (n - 2) - 1 = t - 2 /\ b + (n - 2 + 1) - 1 = t - 2 + 1
        /\ b + (n - 2 + 2) - 1 = t - 2 + 2
        BY <1>2, <1>3, <1>5
  <2>2. p[n - 2] = s[t - 2] /\ p[n - 2 + 1] = s[t - 2 + 1] /\ p[n - 2 + 2] = s[t - 2 + 2]
        BY <1>3, <2>1
  <2>3. CodeAt(p, n - 2) <=> CodeAt(s, t - 2)
        BY <2>2 DEF CodeAt
  <2>4. t - 2 \in 1 .. Len(s) - 2
        BY <1>1, <1>2, <1>3, <1>5
  <2> QED BY <2>3, <2>4, OccursIs
<1>6. ASSUME n >= 4
      PROVE  p[n - 3] = s[t - 3]
  <2>1. n - 3 \in 1 .. t - b + 1 /\ b + (n - 3) - 1 = t - 3
        BY <1>2, <1>3, <1>6
  <2> QED BY <1>3, <2>1
<1>7. n >= 3 <=> t - 2 >= b
      BY <1>2, <1>3
<1>8. n >= 4 <=> t - 3 >= b
      BY <1>2, <1>3
<1>9. n \in Nat /\ (n >= 4 => n >= 3)
      BY <1>2, <1>3
<1>10. /\ code = << >> <=> ~(t - 2 >= b /\ t - 2 \in Occurs(s))
       /\ code = StartCode <=> t - 3 >= b /\ t - 2 \in Occurs(s) /\ s[t - 3] = 0
       BY <1>4, <1>5, <1>6, <1>7, <1>8, <1>9
<1>11. n >= Len(code)
  <2>1. Len(StartCode) = 4 /\ Len(StartCode3) = 3 /\ Len(<< >>) = 0
        BY CodesAreBytes
  <2>2. CASE code = << >>
        BY <1>9, <2>1, <2>2
  <2>3. CASE code = StartCode
        BY <1>4, <2>1, <2>3
  <2>4. CASE code = StartCode3
        BY <1>4, <2>1, <2>4, CodesAreBytes
  <2> QED BY <1>4, <2>2, <2>3, <2>4
<1>12. ASSUME code # << >>, n = Len(code)
       PROVE  p = code
  <2>1. p \in Seq(Alphabet)
        BY <1>3 DEF Bytes
  <2>2. CASE code = StartCode
    <3>1. n = 4 /\ CodeAt(p, n - 2) /\ p[n - 3] = 0
          BY <1>4, <1>12, <2>2, CodesAreBytes
    <3>2. CodeAt(p, 2) /\ p[1] = 0
          BY <3>1
    <3>3. p[1] = 0 /\ p[2] = 0 /\ p[3] = 0 /\ p[4] = 1
          BY <3>2 DEF CodeAt
    <3>4. /\ StartCode \in Seq(Alphabet) /\ Len(StartCode) = 4 /\ Len(p) = 4
          /\ \A k \in 1 .. 4 : p[k] = StartCode[k]
          BY <3>1, <3>3, CodesAreBytes DEF Bytes, n
    <3> QED BY <2>1, <2>2, <3>4, SeqEqual
  <2>3. CASE code = StartCode3
    <3>1. n = 3 /\ CodeAt(p, n - 2)
          BY <1>4, <1>12, <2>3, CodesAreBytes
    <3>2. CodeAt(p, 1)
          BY <3>1
    <3>3. p[1] = 0 /\ p[2] = 0 /\ p[3] = 1
          BY <3>2 DEF CodeAt
    <3>4. /\ StartCode3 \in Seq(Alphabet) /\ Len(StartCode3) = 3 /\ Len(p) = 3
          /\ \A k \in 1 .. 3 : p[k] = StartCode3[k]
          BY <3>1, <3>3, CodesAreBytes DEF Bytes, n
    <3> QED BY <2>1, <2>3, <3>4, SeqEqual
  <2> QED BY <1>4, <1>12, <2>2, <2>3
<1>13. code # << >> => (p = code <=> n = Len(code))
       BY <1>12 DEF n
<1> QED BY <1>3, <1>4, <1>10, <1>11, <1>13 DEF p, n, code

-----------------------------------------------------------------------------
(* The list grows by what the reader finds.                                *)

(***************************************************************************)
(* What starts at b ends at the next start code: it joins the list if it   *)
(* is not empty, and nothing else comes before what starts after the code. *)
(***************************************************************************)
LEMMA NextNAL ==
    ASSUME NEW s \in Bytes, NEW b \in Starts(s), NEW list \in Seq(Bytes),
           NEW j \in Occurs(s), j >= b, \A k \in Occurs(s) : k >= b => j <= k,
           Lists(s, {i \in Full(s) : i < b}, list)
    PROVE  /\ j + 3 \in Starts(s)
           /\ b \in Full(s) =>
                  Lists(s, {i \in Full(s) : i < j + 3}, Append(list, SubSeq(s, b, End(s, b))))
           /\ b \notin Full(s) => Lists(s, {i \in Full(s) : i < j + 3}, list)
<1>1. /\ Len(s) \in Nat /\ Occurs(s) \subseteq 1 .. Len(s) - 2
      /\ \A i, k \in Occurs(s) : i < k => i + 3 <= k
      BY LenOfBytes, OccursIs
<1>2. j + 3 \in Starts(s) /\ b \in Nat /\ j \in Nat
      BY <1>1 DEF Starts
<1>3. ASSUME NEW i \in Starts(s)
      PROVE  i < j + 3 <=> i <= b
  <2>1. CASE i = 1
        BY <1>1, <1>2, <2>1 DEF Starts
  <2>2. CASE i # 1
    <3>1. PICK k \in Occurs(s) : i = k + 3
          BY <2>2 DEF Starts
    <3>2. k \in Nat
          BY <1>1
    <3>3. ASSUME i < j + 3
          PROVE  i <= b
      <4>1. k < b
            BY <1>2, <3>1, <3>2, <3>3
      <4>2. CASE b = 1
            BY <1>1, <4>1, <4>2
      <4>3. CASE b # 1
        <5>1. PICK l \in Occurs(s) : b = l + 3
              BY <4>3 DEF Starts
        <5>2. l \in Nat
              BY <1>1
        <5>3. ~(l < k)
              BY <1>1, <3>2, <4>1, <5>1, <5>2
        <5> QED BY <3>1, <3>2, <5>1, <5>2, <5>3
      <4> QED BY <4>2, <4>3
    <3>4. i <= b => i < j + 3
          BY <1>2, <3>1, <3>2
    <3> QED BY <3>3, <3>4
  <2> QED BY <2>1, <2>2
<1>4. Full(s) \subseteq Starts(s) /\ \A i \in Starts(s) : i \in Nat
  <2>1. Full(s) \subseteq Starts(s) /\ Starts(s) \subseteq 1 .. Len(s) + 1
        BY FullIs
  <2> QED BY <1>1, <2>1
<1>5. {i \in Full(s) : i < j + 3} = {i \in Full(s) : i <= b}
      BY <1>3, <1>4
<1>6. ASSUME b \notin Full(s)
      PROVE  {i \in Full(s) : i <= b} = {i \in Full(s) : i < b}
  <2>1. \A i \in Full(s) : i \in Nat /\ i # b
        BY <1>4, <1>6
  <2>2. \A i \in Full(s) : i <= b <=> i < b
        BY <1>2, <2>1
  <2> QED BY <2>2
<1>7. b \in Full(s) =>
          Lists(s, {i \in Full(s) : i <= b}, Append(list, SubSeq(s, b, End(s, b))))
      BY ListsOneMore
<1> QED BY <1>2, <1>5, <1>6, <1>7

(* What starts at b and ends with the bytes is the last of the list.       *)
LEMMA LastNAL ==
    ASSUME NEW s \in Bytes, NEW b \in Starts(s), NEW list \in Seq(Bytes),
           \A k \in Occurs(s) : k < b,
           Lists(s, {i \in Full(s) : i < b}, list)
    PROVE  /\ End(s, b) = Len(s)
           /\ b \in Full(s) =>
                  Lists(s, Full(s), Append(list, SubSeq(s, b, End(s, b))))
           /\ b \notin Full(s) => Lists(s, Full(s), list)
<1>1. /\ Len(s) \in Nat /\ Occurs(s) \subseteq 1 .. Len(s) - 2
      /\ \A i, k \in Occurs(s) : i < k => i + 3 <= k
      BY LenOfBytes, OccursIs
<1>2. b \in Nat
      BY <1>1 DEF Starts
<1>3. ASSUME NEW i \in Starts(s)
      PROVE  i <= b
  <2>1. CASE i = 1
        BY <1>1, <1>2, <2>1 DEF Starts
  <2>2. CASE i # 1
    <3>1. PICK k \in Occurs(s) : i = k + 3
          BY <2>2 DEF Starts
    <3>2. k \in Nat /\ k < b
          BY <1>1
    <3>3. CASE b = 1
          BY <1>1, <3>2, <3>3
    <3>4. CASE b # 1
      <4>1. PICK l \in Occurs(s) : b = l + 3
            BY <3>4 DEF Starts
      <4>2. l \in Nat
            BY <1>1
      <4>3. ~(l < k)
            BY <1>1, <3>2, <4>1, <4>2
      <4> QED BY <3>1, <3>2, <4>1, <4>2, <4>3
    <3> QED BY <3>3, <3>4
  <2> QED BY <2>1, <2>2
<1>4. Full(s) \subseteq Starts(s) /\ \A i \in Starts(s) : i \in Nat
  <2>1. Full(s) \subseteq Starts(s) /\ Starts(s) \subseteq 1 .. Len(s) + 1
        BY FullIs
  <2> QED BY <1>1, <2>1
<1>5. Full(s) = {i \in Full(s) : i <= b}
      BY <1>3, <1>4
<1>6. ASSUME b \notin Full(s)
      PROVE  {i \in Full(s) : i <= b} = {i \in Full(s) : i < b}
  <2>1. \A i \in Full(s) : i \in Nat /\ i # b
        BY <1>4, <1>6
  <2>2. \A i \in Full(s) : i <= b <=> i < b
        BY <1>2, <2>1
  <2> QED BY <2>2
<1>7. b \in Full(s) =>
          Lists(s, {i \in Full(s) : i <= b}, Append(list, SubSeq(s, b, End(s, b))))
      BY ListsOneMore
<1>8. End(s, b) = Len(s)
      BY <1>2, EndIs
<1> QED BY <1>5, <1>6, <1>7, <1>8

(* No start code occurs in a piece that ends before the next one does.     *)
LEMMA NoCodeInside ==
    ASSUME NEW s \in Bytes, NEW b \in 1 .. Len(s) + 1, NEW e \in b - 1 .. Len(s),
           \A j \in Occurs(s) : j >= b => j + 2 > e
    PROVE  Occurs(SubSeq(s, b, e)) = {}
<1> DEFINE p == SubSeq(s, b, e)
<1>1. s \in Seq(Alphabet) /\ Len(s) \in Nat
      BY LenOfBytes DEF Bytes
<1>2. b \in Nat /\ e \in Int /\ b - 1 <= e /\ e <= Len(s) /\ b >= 1
      BY <1>1
<1>3. /\ p \in Bytes /\ Len(p) = e - b + 1
      /\ \A k \in 1 .. e - b + 1 : p[k] = s[b + k - 1]
      BY <1>1, Piece DEF Bytes
<1> HIDE DEF p
<1>4. Occurs(p) = {i \in 1 .. Len(p) - 2 : CodeAt(p, i)}
      BY <1>3, OccursIs
<1>5. ASSUME NEW i \in 1 .. Len(p) - 2, CodeAt(p, i)
      PROVE  FALSE
  <2>1. /\ i \in Nat /\ i \in 1 .. e - b + 1 /\ i + 1 \in 1 .. e - b + 1
        /\ i + 2 \in 1 .. e - b + 1
        BY <1>2, <1>3
  <2>2. /\ b + i - 1 \in 1 .. Len(s) - 2 /\ b + i - 1 >= b /\ ~(b + i - 1 + 2 > e)
        /\ b + (i + 1) - 1 = b + i - 1 + 1 /\ b + (i + 2) - 1 = b + i - 1 + 2
        BY <1>1, <1>2, <1>3, <2>1
  <2>3. p[i] = s[b + i - 1] /\ p[i + 1] = s[b + i - 1 + 1] /\ p[i + 2] = s[b + i - 1 + 2]
        BY <1>3, <2>1, <2>2
  <2>4. CodeAt(s, b + i - 1)
        BY <1>5, <2>3 DEF CodeAt
  <2>5. b + i - 1 \in Occurs(s)
        BY <2>2, <2>4, OccursIs
  <2> QED BY <2>2, <2>5
<1> QED BY <1>4, <1>5 DEF p

(***************************************************************************)
(* A byte that ends a start code: what the buffer holds before the code is *)
(* what starts at b.                                                       *)
(***************************************************************************)
LEMMA CodeEndsNAL ==
    ASSUME NEW s \in Bytes, NEW b \in Starts(s), NEW t \in b - 1 .. Len(s),
           \A j \in Occurs(s) : j >= b => j + 2 >= t,
           CodeAtEnd(SubSeq(s, b, t)) # << >>
    PROVE  LET p == SubSeq(s, b, t)
               code == CodeAtEnd(p)
           IN  /\ t - 2 \in Occurs(s) /\ t - 2 >= b
               /\ \A k \in Occurs(s) : k >= b => t - 2 <= k
               /\ b \in Full(s) <=> p # code
               /\ Chop(p, Len(code)) = SubSeq(s, b, End(s, b))
               /\ Occurs(SubSeq(s, b, End(s, b))) = {}
<1> DEFINE p == SubSeq(s, b, t)
           code == CodeAtEnd(p)
<1>1. /\ Len(s) \in Nat /\ Occurs(s) \subseteq 1 .. Len(s) - 2
      /\ Starts(s) \subseteq 1 .. Len(s) + 1 /\ End(s, b) \in b - 1 .. Len(s)
      BY LenOfBytes, OccursIs, FullIs
<1>2. b \in 1 .. Len(s) + 1 /\ b \in Nat /\ t \in Int /\ t <= Len(s)
      BY <1>1
<1>3. /\ p \in Bytes /\ Len(p) = t - b + 1
      /\ code \in {<< >>, StartCode, StartCode3}
      /\ code = << >> <=> ~(t - 2 >= b /\ t - 2 \in Occurs(s))
      /\ code = StartCode <=> t - 3 >= b /\ t - 2 \in Occurs(s) /\ s[t - 3] = 0
      /\ Len(p) >= Len(code)
      /\ code # << >> => (p = code <=> Len(p) = Len(code))
      BY <1>2, CodeInPiece
<1> HIDE DEF code
<1>4. code # << >>
      BY DEF code
<1>5. t - 2 \in Occurs(s) /\ t - 2 >= b
      BY <1>3, <1>4
<1>6. \A k \in Occurs(s) : k >= b => t - 2 <= k
      BY <1>1, <1>2
<1>7. End(s, b) = IF t - 2 > b /\ s[t - 2 - 1] = 0 THEN t - 2 - 2 ELSE t - 2 - 1
      BY <1>2, <1>5, <1>6, EndIs
<1>8. End(s, b) = t - Len(code)
  <2>1. Len(StartCode) = 4 /\ Len(StartCode3) = 3
        BY CodesAreBytes
  <2>2. t - 2 - 1 = t - 3 /\ (t - 2 > b <=> t - 3 >= b) /\ t - 2 - 2 = t - 4
        BY <1>2
  <2>3. CASE code = StartCode
        BY <1>2, <1>3, <1>7, <2>1, <2>2, <2>3
  <2>4. CASE code # StartCode
    <3>1. code = StartCode3 /\ ~(t - 2 > b /\ s[t - 2 - 1] = 0)
          BY <1>3, <1>4, <1>5, <2>2, <2>4
    <3> QED BY <1>2, <1>7, <2>1, <2>2, <3>1
  <2> QED BY <2>3, <2>4
<1>9. Len(code) \in Nat /\ Len(code) >= 3
  <2>1. Len(StartCode) = 4 /\ Len(StartCode3) = 3
        BY CodesAreBytes
  <2>2. code = StartCode \/ code = StartCode3
        BY <1>3, <1>4
  <2>3. Len(code) = 4 \/ Len(code) = 3
        BY <2>1, <2>2
  <2>4. \A n : n = 4 \/ n = 3 => n \in Nat /\ n >= 3
        OBVIOUS
  <2> QED BY <2>3, <2>4, Zenon
<1>10. b \in Full(s) <=> p # code
  <2>1. b \in Full(s) <=> b <= End(s, b)
        BY DEF Full
  <2>2. b <= End(s, b) <=> Len(p) # Len(code)
        BY <1>2, <1>3, <1>8, <1>9
  <2> QED BY <1>3, <1>4, <2>1, <2>2
<1>11. Chop(p, Len(code)) = SubSeq(s, b, End(s, b))
  <2>1. End(s, b) \in b - 1 .. t
        BY <1>1, <1>2, <1>8, <1>9
  <2>2. SubSeq(p, 1, End(s, b) - b + 1) = SubSeq(s, b, End(s, b))
        BY <1>2, <2>1, PieceOfPiece
  <2>3. Len(p) - Len(code) = End(s, b) - b + 1
        BY <1>2, <1>3, <1>8, <1>9
  <2> QED BY <2>2, <2>3 DEF Chop
<1>12. Occurs(SubSeq(s, b, End(s, b))) = {}
  <2>1. \A j \in Occurs(s) : j >= b => j + 2 > End(s, b)
        BY <1>1, <1>2, <1>8, <1>9
  <2> QED BY <1>1, <1>2, <2>1, NoCodeInside
<1> QED BY <1>5, <1>6, <1>10, <1>11, <1>12 DEF code

-----------------------------------------------------------------------------
(* What the writer appends.                                                *)

(***************************************************************************)
(* A start code and a NAL unit without one in it after the bytes: the NAL  *)
(* units they had end where they did, and this one follows.                *)
(***************************************************************************)
LEMMA WriteMore ==
    ASSUME NEW w \in Bytes, NEW d \in Bytes \ {<< >>}, Occurs(d) = {},
           NEW list \in Seq(Bytes), Lists(w, Full(w), list)
    PROVE  /\ w \o WriteNAL(d) \in Bytes
           /\ Lists(w \o WriteNAL(d), Full(w \o WriteNAL(d)), Append(list, d))
<1> DEFINE s == w \o WriteNAL(d)
           m == Len(w)
           b == m + 5
<1>1. /\ w \in Seq(Alphabet) /\ m \in Nat
      /\ d \in Seq(Alphabet) /\ Len(d) \in Nat /\ Len(d) # 0
      BY LenOfBytes DEF Bytes
<1>2. /\ s \in Bytes /\ Len(s) = m + 4 + Len(d)
      /\ \A i \in 1 .. m : s[i] = w[i]
      /\ s[m + 1] = 0 /\ s[m + 2] = 0 /\ s[m + 3] = 0 /\ s[m + 4] = 1
      /\ \A i \in 1 .. Len(d) : s[m + 4 + i] = d[i]
  <2> DEFINE e == WriteNAL(d)
  <2>1. /\ StartCode \in Seq(Alphabet) /\ Len(StartCode) = 4
        /\ StartCode[1] = 0 /\ StartCode[2] = 0 /\ StartCode[3] = 0 /\ StartCode[4] = 1
        BY CodesAreBytes DEF Bytes
  <2>2. /\ e \in Seq(Alphabet) /\ Len(e) = Len(StartCode) + Len(d)
        /\ \A i \in 1 .. Len(StartCode) + Len(d) :
               e[i] = IF i <= Len(StartCode) THEN StartCode[i] ELSE d[i - Len(StartCode)]
        BY <1>1, <2>1, ConcatProperties DEF WriteNAL
  <2> HIDE DEF e
  <2>3. /\ w \o e \in Seq(Alphabet) /\ Len(w \o e) = m + Len(e)
        /\ \A i \in 1 .. m + Len(e) : (w \o e)[i] = IF i <= m THEN w[i] ELSE e[i - m]
        BY <1>1, <2>2, ConcatProperties
  <2>4. /\ s \in Seq(Alphabet) /\ Len(s) = m + Len(e)
        /\ \A i \in 1 .. m + Len(e) : s[i] = IF i <= m THEN w[i] ELSE e[i - m]
        BY <2>3 DEF e
  <2> HIDE DEF s, m
  <2>5. Len(e) = 4 + Len(d)
        BY <2>1, <2>2
  <2>6. e[1] = 0 /\ e[2] = 0 /\ e[3] = 0 /\ e[4] = 1
        BY <1>1, <2>1, <2>2
  <2>7. \A i \in 1 .. Len(d) : e[4 + i] = d[i]
    <3>1. ASSUME NEW i \in 1 .. Len(d)
          PROVE  e[4 + i] = d[i]
      <4>1. 4 + i \in 1 .. 4 + Len(d) /\ ~(4 + i <= 4) /\ 4 + i - 4 = i
            BY <1>1
      <4> QED BY <2>1, <2>2, <4>1
    <3> QED BY <3>1
  <2>8. \A i \in 1 .. m : s[i] = w[i]
        BY <1>1, <2>4, <2>5
  <2>9. \A i \in 1 .. 4 + Len(d) : s[m + i] = e[i]
    <3>1. ASSUME NEW i \in 1 .. 4 + Len(d)
          PROVE  s[m + i] = e[i]
      <4>1. PICK k : k = m + i
            OBVIOUS
      <4>2. k \in 1 .. m + Len(e) /\ ~(k <= m) /\ k - m = i
            BY <1>1, <2>5, <4>1
      <4>3. s[k] = e[k - m]
            BY <2>4, <4>2
      <4> QED BY <4>1, <4>2, <4>3
    <3> QED BY <3>1
  <2>10. s[m + 1] = 0 /\ s[m + 2] = 0 /\ s[m + 3] = 0 /\ s[m + 4] = 1
    <3>1. 1 \in 1 .. 4 + Len(d) /\ 2 \in 1 .. 4 + Len(d) /\ 3 \in 1 .. 4 + Len(d)
          BY <1>1
    <3>2. 4 \in 1 .. 4 + Len(d)
          BY <1>1
    <3>3. s[m + 1] = e[1] /\ s[m + 2] = e[2] /\ s[m + 3] = e[3] /\ s[m + 4] = e[4]
          BY <2>9, <3>1, <3>2
    <3> QED BY <2>6, <3>3
  <2>11. \A i \in 1 .. Len(d) : s[m + 4 + i] = d[i]
    <3>1. ASSUME NEW i \in 1 .. Len(d)
          PROVE  s[m + 4 + i] = d[i]
      <4>1. 4 + i \in 1 .. 4 + Len(d) /\ m + (4 + i) = m + 4 + i
            BY <1>1
      <4> QED BY <2>7, <2>9, <4>1
    <3> QED BY <3>1
  <2>12. Len(s) = m + 4 + Len(d)
         BY <1>1, <2>4, <2>5
  <2> QED BY <2>4, <2>8, <2>10, <2>11, <2>12 DEF Bytes
<1> HIDE DEF s, m
<1>3. Occurs(s) = Occurs(w) \cup {m + 2}
  <2>1. /\ Occurs(s) = {i \in 1 .. Len(s) - 2 : CodeAt(s, i)}
        /\ Occurs(w) = {i \in 1 .. m - 2 : CodeAt(w, i)}
        /\ Occurs(d) = {i \in 1 .. Len(d) - 2 : CodeAt(d, i)}
        BY <1>2, OccursIs DEF m
  <2>2. ASSUME NEW i \in 1 .. m - 2
        PROVE  i \in 1 .. Len(s) - 2 /\ (CodeAt(s, i) <=> CodeAt(w, i))
    <3>1. i \in 1 .. m /\ i + 1 \in 1 .. m /\ i + 2 \in 1 .. m /\ i \in 1 .. Len(s) - 2
          BY <1>1, <1>2
    <3>2. s[i] = w[i] /\ s[i + 1] = w[i + 1] /\ s[i + 2] = w[i + 2]
          BY <1>2, <3>1
    <3> QED BY <3>1, <3>2 DEF CodeAt
  <2>3. m + 2 \in 1 .. Len(s) - 2 /\ CodeAt(s, m + 2)
    <3>1. m + 2 + 1 = m + 3 /\ m + 2 + 2 = m + 4 /\ m + 2 \in 1 .. Len(s) - 2
          BY <1>1, <1>2
    <3> QED BY <1>2, <3>1 DEF CodeAt
  <2>4. ASSUME NEW i \in 1 .. Len(s) - 2, CodeAt(s, i), i > m - 2
        PROVE  i = m + 2
    <3>1. i \in Int /\ s[i] = 0 /\ s[i + 1] = 0 /\ s[i + 2] = 1
          BY <1>1, <1>2, <2>4 DEF CodeAt
    <3>2. i # m - 1
      <4>1. i = m - 1 => i + 2 = m + 1
            BY <1>1
      <4> QED BY <1>2, <3>1, <4>1
    <3>3. i # m
          BY <1>2, <3>1
    <3>4. i # m + 1
      <4>1. i = m + 1 => i + 2 = m + 3
            BY <1>1
      <4> QED BY <1>2, <3>1, <4>1
    <3>5. i # m + 3
      <4>1. i = m + 3 => i + 1 = m + 4
            BY <1>1
      <4> QED BY <1>2, <3>1, <4>1
    <3>6. i # m + 4
          BY <1>2, <3>1
    <3>7. ~(i > m + 4)
      <4>1. SUFFICES ASSUME i > m + 4
                     PROVE  FALSE
            OBVIOUS
      <4> DEFINE k == i - m - 4
      <4>2. /\ k \in 1 .. Len(d) - 2
            /\ k \in 1 .. Len(d) /\ k + 1 \in 1 .. Len(d) /\ k + 2 \in 1 .. Len(d)
            /\ m + 4 + k = i /\ m + 4 + (k + 1) = i + 1 /\ m + 4 + (k + 2) = i + 2
            BY <1>1, <1>2, <3>1, <4>1
      <4> HIDE DEF k
      <4>3. s[i] = d[k] /\ s[i + 1] = d[k + 1] /\ s[i + 2] = d[k + 2]
            BY <1>2, <4>2
      <4>4. CodeAt(d, k)
            BY <3>1, <4>3 DEF CodeAt
      <4> QED BY <2>1, <4>2, <4>4
    <3> QED BY <1>1, <2>4, <3>1, <3>2, <3>3, <3>4, <3>5, <3>6, <3>7
  <2>5. \A i \in 1 .. Len(s) - 2 : ~(i > m - 2) => i \in 1 .. m - 2
        BY <1>1, <1>2
  <2> QED BY <2>1, <2>2, <2>3, <2>4, <2>5
<1>4. Starts(s) = Starts(w) \cup {b}
  <2>1. m + 2 + 3 = b
        BY <1>1
  <2> QED BY <1>3, <2>1 DEF Starts
<1>5. /\ Occurs(w) \subseteq 1 .. m - 2 /\ Starts(w) \subseteq 1 .. m + 1
      /\ \A i \in Starts(w) : End(w, i) \in i - 1 .. m
      /\ Full(w) \subseteq 1 .. m /\ Full(w) \subseteq Starts(w)
      BY OccursIs, FullIs DEF m
<1>6. ASSUME NEW i \in 1 .. m
      PROVE  End(s, i) = End(w, i)
  <2>1. i \in Nat /\ i <= m
        BY <1>1
  <2>2. CASE \A k \in Occurs(w) : k < i
    <3>1. End(w, i) = m
          BY <2>1, <2>2, EndIs DEF m
    <3>2. /\ m + 2 \in Occurs(s) /\ m + 2 >= i /\ m + 2 > i
          /\ \A k \in Occurs(s) : k >= i => m + 2 <= k
          BY <1>1, <1>3, <1>5, <2>1, <2>2
    <3>3. End(s, i) = m
      <4>1. PICK j : j = m + 2
            OBVIOUS
      <4>2. /\ j \in Occurs(s) /\ j >= i
            /\ \A k \in Occurs(s) : k >= i => j <= k
            BY <3>2, <4>1
      <4>3. End(s, i) = IF j > i /\ s[j - 1] = 0 THEN j - 2 ELSE j - 1
            BY <1>2, <2>1, <4>2, EndIs
      <4>4. j - 1 = m + 1 /\ j - 2 = m /\ j > i
            BY <1>1, <2>1, <4>1
      <4>5. s[j - 1] = 0
            BY <1>2, <4>4
      <4> QED BY <4>3, <4>4, <4>5
    <3> QED BY <3>1, <3>3
  <2>3. CASE \E j \in Occurs(w) : j >= i /\ \A k \in Occurs(w) : k >= i => j <= k
    <3>1. PICK j \in Occurs(w) : j >= i /\ \A k \in Occurs(w) : k >= i => j <= k
          BY <2>3
    <3>2. j \in Nat /\ j <= m - 2
          BY <1>1, <1>5
    <3>3. End(w, i) = IF j > i /\ w[j - 1] = 0 THEN j - 2 ELSE j - 1
          BY <2>1, <3>1, EndIs
    <3>4. j \in Occurs(s) /\ j <= m + 2
          BY <1>1, <1>3, <3>2
    <3>5. \A k \in Occurs(s) : k >= i => j <= k
          BY <1>3, <3>1, <3>4
    <3>6. End(s, i) = IF j > i /\ s[j - 1] = 0 THEN j - 2 ELSE j - 1
          BY <1>2, <2>1, <3>1, <3>4, <3>5, EndIs
    <3>7. j > i => s[j - 1] = w[j - 1]
      <4>1. j > i => j - 1 \in 1 .. m
            BY <1>1, <2>1, <3>2
      <4> QED BY <1>2, <4>1
    <3> QED BY <3>3, <3>6, <3>7
  <2> QED BY <2>1, <2>2, <2>3, EndIs
<1>7. End(s, b) = Len(s) /\ b \in Full(s) /\ b \in Nat
  <2>1. \A k \in Occurs(s) : k < b
        BY <1>1, <1>3, <1>5
  <2>2. b \in Nat
        BY <1>1
  <2>3. End(s, b) = Len(s)
        BY <1>2, <2>1, <2>2, EndIs
  <2> QED BY <1>1, <1>2, <1>4, <2>2, <2>3 DEF Full
<1>8. Full(w) = {i \in Full(s) : i < b}
  <2>1. ASSUME NEW i \in Full(w)
        PROVE  i \in Full(s) /\ i < b
    <3>1. i \in 1 .. m /\ i \in Starts(w) /\ i <= End(w, i)
          BY <1>5 DEF Full
    <3> QED BY <1>1, <1>4, <1>6, <3>1 DEF Full
  <2>2. ASSUME NEW i \in Full(s), i < b
        PROVE  i \in Full(w)
    <3>1. i \in Starts(w) /\ i <= End(s, i)
          BY <1>4, <1>7, <2>2 DEF Full
    <3>2. i \in 1 .. m + 1
          BY <1>5, <3>1
    <3>3. i # m + 1
      <4>1. SUFFICES ASSUME i = m + 1
                     PROVE  FALSE
            OBVIOUS
      <4>2. /\ m + 2 \in Occurs(s) /\ m + 2 >= i /\ m + 2 > i
            /\ \A k \in Occurs(s) : k >= i => m + 2 <= k
            BY <1>1, <1>3, <1>5, <4>1
      <4>3. End(s, i) = m
        <5>1. i \in Nat
              BY <1>1, <4>1
        <5>2. PICK j : j = m + 2
              OBVIOUS
        <5>3. /\ j \in Occurs(s) /\ j >= i
              /\ \A k \in Occurs(s) : k >= i => j <= k
              BY <4>2, <5>2
        <5>4. End(s, i) = IF j > i /\ s[j - 1] = 0 THEN j - 2 ELSE j - 1
              BY <1>2, <5>1, <5>3, EndIs
        <5>5. j - 1 = m + 1 /\ j - 2 = m /\ j > i
              BY <1>1, <4>1, <5>2
        <5>6. s[j - 1] = 0
              BY <1>2, <5>5
        <5> QED BY <5>4, <5>5, <5>6
      <4> QED BY <1>1, <3>1, <4>1, <4>3
    <3>4. i \in 1 .. m
          BY <1>1, <3>2, <3>3
    <3> QED BY <1>6, <3>1, <3>4 DEF Full
  <2>3. Full(s) \subseteq Full(s)
        OBVIOUS
  <2> QED BY <2>1, <2>2
<1>9. Lists(s, Full(w), list)
  <2>1. ASSUME NEW i \in Full(w)
        PROVE  Rank(s, i) = Rank(w, i) /\ SubSeq(s, i, End(s, i)) = SubSeq(w, i, End(w, i))
    <3>1. i \in 1 .. m /\ i < b /\ i <= End(w, i) /\ End(w, i) \in i - 1 .. m
          BY <1>5, <1>8 DEF Full
    <3>2. \A j \in Full(s) : j <= i => j < b
      <4>1. Full(s) \subseteq 1 .. Len(s)
            BY <1>2, FullIs
      <4>2. \A j \in Full(s) : j \in Int
            BY <1>1, <1>2, <4>1
      <4> QED BY <1>1, <1>7, <3>1, <4>2
    <3>3. {j \in Full(s) : j <= i} = {j \in Full(w) : j <= i}
          BY <1>8, <3>2
    <3>4. Rank(s, i) = Rank(w, i)
          BY <3>3 DEF Rank
    <3>5. SubSeq(s, i, End(w, i)) = SubSeq(w, i, End(w, i))
      <4> DEFINE e == End(w, i)
                 p == SubSeq(s, i, e)
                 q == SubSeq(w, i, e)
      <4>1. /\ i \in 1 .. Len(s) + 1 /\ e \in i - 1 .. Len(s)
            /\ i \in 1 .. m + 1 /\ e \in i - 1 .. m
            BY <1>1, <1>2, <3>1
      <4> HIDE DEF e
      <4>2. /\ p \in Seq(Alphabet) /\ Len(p) = e - i + 1
            /\ \A k \in 1 .. e - i + 1 : p[k] = s[i + k - 1]
            BY <1>2, <4>1, Piece DEF Bytes
      <4>3. /\ q \in Seq(Alphabet) /\ Len(q) = e - i + 1
            /\ \A k \in 1 .. e - i + 1 : q[k] = w[i + k - 1]
            BY <1>1, <4>1, Piece DEF m
      <4> HIDE DEF p, q
      <4>4. \A k \in 1 .. e - i + 1 : i + k - 1 \in 1 .. m
            BY <1>1, <3>1, <4>1
      <4>5. \A k \in 1 .. e - i + 1 : p[k] = q[k]
            BY <1>2, <4>2, <4>3, <4>4
      <4>6. p = q
            BY <4>2, <4>3, <4>5, SeqEqual
      <4> QED BY <4>6 DEF p, q, e
    <3> QED BY <1>6, <3>1, <3>4, <3>5
  <2> QED BY <2>1 DEF Lists
<1>10. Lists(s, {i \in Full(s) : i <= b}, Append(list, SubSeq(s, b, End(s, b))))
       BY <1>2, <1>7, <1>8, <1>9, ListsOneMore
<1>11. SubSeq(s, b, Len(s)) = d
  <2> DEFINE p == SubSeq(s, b, Len(s))
  <2>1. b \in 1 .. Len(s) + 1 /\ Len(s) \in b - 1 .. Len(s) /\ Len(s) - b + 1 = Len(d)
        BY <1>1, <1>2
  <2>2. /\ p \in Seq(Alphabet) /\ Len(p) = Len(d)
        /\ \A k \in 1 .. Len(d) : p[k] = s[b + k - 1]
        BY <1>2, <2>1, Piece DEF Bytes
  <2> HIDE DEF p
  <2>3. \A k \in 1 .. Len(d) : b + k - 1 = m + 4 + k
        BY <1>1
  <2>4. \A k \in 1 .. Len(d) : p[k] = d[k]
        BY <1>2, <2>2, <2>3
  <2>5. p = d
        BY <1>1, <2>2, <2>4, SeqEqual
  <2> QED BY <2>5 DEF p
<1>12. Full(s) = {i \in Full(s) : i <= b}
  <2>1. \A i \in Full(s) : i \in Starts(w) \cup {b}
        BY <1>2, <1>4, FullIs
  <2>2. \A i \in Starts(w) \cup {b} : i <= b
        BY <1>1, <1>5
  <2> QED BY <2>1, <2>2
<1> QED BY <1>2, <1>7, <1>10, <1>11, <1>12 DEF s

-----------------------------------------------------------------------------
(* The length-prefixed format.                                             *)

Stream == Seq(Byte)

(* Where the k-th NAL unit begins in the stream, e being where they end.   *)
From(e, k) == IF k = 1 THEN 0 ELSE e[k - 1]

(* The stream f is the NAL units of the list, one after the other.         *)
Framed(f, e, list) ==
    /\ Len(e) = Len(list)
    /\ From(e, Len(list) + 1) = Len(f)
    /\ \A k \in 1 .. Len(list) :
          /\ e[k] = From(e, k) + 4 + Len(list[k])
          /\ From(e, k) \in Nat /\ e[k] <= Len(f)
          /\ \A i \in 1 .. 4 : f[From(e, k) + i] = Uint32(Len(list[k]))[i]
          /\ \A i \in 1 .. Len(list[k]) : f[From(e, k) + 4 + i] = list[k][i]
          /\ \A j \in 1 .. k : e[j] <= e[k]

(* The NAL unit d lies in the stream f at p.                               *)
NALAt(f, p, d) ==
    /\ p + 4 + Len(d) <= Len(f)
    /\ \A i \in 1 .. 4 : f[p + i] = Uint32(Len(d))[i]
    /\ \A i \in 1 .. Len(d) : f[p + 4 + i] = d[i]

(* The lengths of the NAL units of the list fit in four bytes.             *)
Fit(list) == \A k \in 1 .. Len(list) : Shift(Shift(Shift(Len(list[k])))) < 256

(* A length is four bytes...                                               *)
LEMMA Uint32Is ==
    ASSUME NEW n \in Nat
    PROVE  Uint32(n) \in Stream /\ Len(Uint32(n)) = 4
<1>1. \A m \in Nat : m % 256 \in Byte /\ Shift(m) \in Nat
      BY DEF Byte, Shift
<1>2. Shift(n) \in Nat /\ Shift(Shift(n)) \in Nat /\ Shift(Shift(Shift(n))) \in Nat
      BY <1>1
<1> QED BY <1>1, <1>2 DEF Uint32, Stream

(* ... and is read back if it fits in them.                                *)
LEMMA NumberIs ==
    ASSUME NEW n \in Nat, Shift(Shift(Shift(n))) < 256,
           NEW b, \A i \in 1 .. 4 : b[i] = Uint32(n)[i]
    PROVE  Number(b) = n
<1>1. /\ b[1] = Shift(Shift(Shift(n))) % 256 /\ b[2] = Shift(Shift(n)) % 256
      /\ b[3] = Shift(n) % 256 /\ b[4] = n % 256
      BY DEF Uint32
<1>2. \A m \in Nat : Shift(m) \in Nat /\ Shift(m) * 256 + (m % 256) = m
      BY DEF Shift
<1>3. \A m \in Nat : m < 256 => m % 256 = m
      OBVIOUS
<1>a. PICK x \in Nat : x = Shift(n)
      BY <1>2
<1>b. PICK y \in Nat : y = Shift(x)
      BY <1>2
<1>c. PICK z \in Nat : z = Shift(y)
      BY <1>2
<1>4. x = Shift(n) /\ y = Shift(x) /\ z = Shift(y)
      BY <1>a, <1>b, <1>c
<1>5. /\ x * 256 + (n % 256) = n /\ y * 256 + (x % 256) = x /\ z * 256 + (y % 256) = y
      /\ z % 256 = z
      BY <1>2, <1>3, <1>4
<1>6. b[1] = z % 256 /\ b[2] = y % 256 /\ b[3] = x % 256 /\ b[4] = n % 256
      BY <1>1, <1>4
<1>7. b[1] * 256 + b[2] = y
      BY <1>5, <1>6
<1>8. y * 256 + b[3] = x
      BY <1>5, <1>6
<1>9. x * 256 + b[4] = n
      BY <1>5, <1>6
<1> QED BY <1>7, <1>8, <1>9 DEF Number

(* A byte string is a piece of a stream.                                   *)
LEMMA BytesInStream == Bytes \subseteq Stream
<1>1. ASSUME NEW s \in Bytes
      PROVE  s \in Stream
  <2>1. s \in Seq(Alphabet) /\ Alphabet \subseteq Byte
        BY AnnexBAssumption DEF Bytes, Byte
  <2> QED BY <2>1, SeqMonotonic DEF Stream
<1> QED BY <1>1

(* What the writer appends for a NAL unit.                                 *)
LEMMA FrameIs ==
    ASSUME NEW f \in Stream, NEW d \in Bytes
    PROVE  LET g == f \o WriteLengthPrefixed(d)
           IN  /\ g \in Stream /\ Len(g) = Len(f) + 4 + Len(d)
               /\ \A i \in 1 .. Len(f) : g[i] = f[i]
               /\ \A i \in 1 .. 4 : g[Len(f) + i] = Uint32(Len(d))[i]
               /\ \A i \in 1 .. Len(d) : g[Len(f) + 4 + i] = d[i]
<1> DEFINE u == Uint32(Len(d))
           w == WriteLengthPrefixed(d)
           g == f \o w
           n == Len(f)
           m == Len(d)
<1>1. /\ f \in Seq(Byte) /\ d \in Seq(Byte) /\ n \in Nat /\ m \in Nat
      BY BytesInStream, LenProperties DEF Stream
<1>2. u \in Seq(Byte) /\ Len(u) = 4
      BY <1>1, Uint32Is DEF Stream
<1> HIDE DEF u
<1>3. /\ w \in Seq(Byte) /\ Len(w) = 4 + m
      /\ \A i \in 1 .. 4 + m : w[i] = IF i <= 4 THEN u[i] ELSE d[i - 4]
  <2>1. /\ u \o d \in Seq(Byte) /\ Len(u \o d) = Len(u) + m
        /\ \A i \in 1 .. Len(u) + m : (u \o d)[i] = IF i <= Len(u) THEN u[i] ELSE d[i - Len(u)]
        BY <1>1, <1>2, ConcatProperties
  <2> QED BY <1>2, <2>1 DEF WriteLengthPrefixed, u
<1> HIDE DEF w
<1>4. /\ g \in Seq(Byte) /\ Len(g) = n + Len(w)
      /\ \A i \in 1 .. n + Len(w) : g[i] = IF i <= n THEN f[i] ELSE w[i - n]
      BY <1>1, <1>3, ConcatProperties
<1> HIDE DEF g, n, m
<1>5. \A i \in 1 .. n : g[i] = f[i]
      BY <1>1, <1>3, <1>4
<1>6. ASSUME NEW i \in 1 .. 4 + m
      PROVE  g[n + i] = w[i]
  <2>1. PICK k : k = n + i
        OBVIOUS
  <2>2. k \in 1 .. n + Len(w) /\ ~(k <= n) /\ k - n = i
        BY <1>1, <1>3, <2>1
  <2>3. g[k] = w[k - n]
        BY <1>4, <2>2
  <2> QED BY <2>1, <2>2, <2>3
<1>7. ASSUME NEW i \in 1 .. 4
      PROVE  g[n + i] = u[i]
  <2>1. i \in 1 .. 4 + m /\ i <= 4
        BY <1>1
  <2> QED BY <1>3, <1>6, <2>1
<1>8. ASSUME NEW i \in 1 .. m
      PROVE  g[n + 4 + i] = d[i]
  <2>1. PICK k : k = 4 + i
        OBVIOUS
  <2>2. k \in 1 .. 4 + m /\ ~(k <= 4) /\ k - 4 = i /\ n + k = n + 4 + i
        BY <1>1, <2>1
  <2>3. g[n + k] = w[k] /\ w[k] = d[k - 4]
        BY <1>3, <1>6, <2>2
  <2> QED BY <2>2, <2>3
<1>9. Len(g) = n + 4 + m
      BY <1>1, <1>3, <1>4
<1> QED BY <1>4, <1>5, <1>7, <1>8, <1>9 DEF Stream, g, w, u, n, m

(* One more NAL unit in the stream.                                        *)
LEMMA FramedOneMore ==
    ASSUME NEW f \in Stream, NEW e \in Seq(Nat), NEW list \in Seq(Bytes), NEW d \in Bytes,
           Framed(f, e, list)
    PROVE  LET g == f \o WriteLengthPrefixed(d)
           IN  Framed(g, Append(e, Len(g)), Append(list, d))
<1> DEFINE g == f \o WriteLengthPrefixed(d)
           h == Append(e, Len(g))
           new == Append(list, d)
           n == Len(f)
           m == Len(list)
<1>1. /\ n \in Nat /\ m \in Nat /\ Len(d) \in Nat /\ Len(e) = m
      BY LenProperties, LenOfBytes DEF Stream, Framed
<1>2. /\ g \in Stream /\ Len(g) = n + 4 + Len(d)
      /\ \A i \in 1 .. n : g[i] = f[i]
      /\ \A i \in 1 .. 4 : g[n + i] = Uint32(Len(d))[i]
      /\ \A i \in 1 .. Len(d) : g[n + 4 + i] = d[i]
      BY FrameIs
<1> HIDE DEF g, n
<1>3. Len(g) \in Nat
      BY <1>1, <1>2
<1>4. /\ Len(h) = m + 1 /\ h[m + 1] = Len(g) /\ \A k \in 1 .. m : h[k] = e[k]
      BY <1>1, <1>3, AppendProperties
<1>5. /\ Len(new) = m + 1 /\ new[m + 1] = d /\ \A k \in 1 .. m : new[k] = list[k]
      BY <1>1, AppendProperties
<1>6. \A k \in 1 .. m : Len(list[k]) \in Nat
      BY LenOfBytes, ElementOfSeq
<1>7. /\ From(e, m + 1) = n
      /\ \A k \in 1 .. m :
            /\ e[k] = From(e, k) + 4 + Len(list[k])
            /\ From(e, k) \in Nat /\ e[k] <= n
            /\ \A i \in 1 .. 4 : f[From(e, k) + i] = Uint32(Len(list[k]))[i]
            /\ \A i \in 1 .. Len(list[k]) : f[From(e, k) + 4 + i] = list[k][i]
            /\ \A j \in 1 .. k : e[j] <= e[k]
      BY DEF Framed, n
<1> HIDE DEF h, new, m
<1>8. \A k \in 1 .. m + 1 : From(h, k) = From(e, k)
  <2>1. ASSUME NEW k \in 1 .. m + 1
        PROVE  From(h, k) = From(e, k)
    <3>1. k # 1 => k - 1 \in 1 .. m
          BY <1>1
    <3> QED BY <1>4, <3>1 DEF From
  <2> QED BY <2>1
<1>9. From(h, m + 1 + 1) = Len(g)
  <2>1. m + 1 + 1 # 1 /\ m + 1 + 1 - 1 = m + 1
        BY <1>1
  <2> QED BY <1>4, <2>1 DEF From
<1>10. ASSUME NEW k \in 1 .. m + 1
       PROVE  /\ h[k] = From(h, k) + 4 + Len(new[k])
              /\ From(h, k) \in Nat /\ h[k] <= Len(g)
              /\ \A i \in 1 .. 4 : g[From(h, k) + i] = Uint32(Len(new[k]))[i]
              /\ \A i \in 1 .. Len(new[k]) : g[From(h, k) + 4 + i] = new[k][i]
              /\ \A j \in 1 .. k : h[j] <= h[k]
  <2>1. CASE k = m + 1
    <3>1. From(h, k) = n /\ new[k] = d /\ h[k] = Len(g)
          BY <1>4, <1>5, <1>7, <1>8, <2>1
    <3>2. ASSUME NEW j \in 1 .. k
          PROVE  h[j] <= h[k]
      <4>1. CASE j = k
            BY <1>3, <3>1, <4>1
      <4>2. CASE j # k
        <5>1. j \in 1 .. m
              BY <1>1, <2>1, <4>2
        <5>2. h[j] = e[j] /\ e[j] <= n /\ e[j] \in Nat
              BY <1>1, <1>4, <1>7, <5>1, ElementOfSeq
        <5> QED BY <1>1, <1>2, <3>1, <5>2
      <4> QED BY <4>1, <4>2
    <3>3. h[k] = n + 4 + Len(d) /\ h[k] <= Len(g) /\ n \in Nat
          BY <1>1, <1>2, <1>3, <3>1
    <3>4. /\ \A i \in 1 .. 4 : g[From(h, k) + i] = Uint32(Len(new[k]))[i]
          /\ \A i \in 1 .. Len(new[k]) : g[From(h, k) + 4 + i] = new[k][i]
          BY <1>2, <3>1
    <3> QED BY <3>1, <3>2, <3>3, <3>4
  <2>2. CASE k # m + 1
    <3>1. k \in 1 .. m /\ k \in Nat
          BY <1>1, <2>2
    <3>2. From(h, k) = From(e, k) /\ new[k] = list[k] /\ h[k] = e[k]
          BY <1>4, <1>5, <1>8, <3>1
    <3>3. /\ e[k] = From(e, k) + 4 + Len(list[k]) /\ Len(list[k]) \in Nat
          /\ From(e, k) \in Nat /\ e[k] <= n
          BY <1>6, <1>7, <3>1
    <3>4. PICK p \in Nat, len \in Nat : p = From(e, k) /\ len = Len(list[k])
          BY <3>3
    <3>5. /\ e[k] = p + 4 + len /\ p + 4 + len <= n
          /\ \A i \in 1 .. 4 : f[p + i] = Uint32(len)[i]
          /\ \A i \in 1 .. len : f[p + 4 + i] = list[k][i]
          BY <1>7, <3>1, <3>3, <3>4
    <3>a. p + 4 + len <= n
          BY <3>5
    <3>6. \A i \in 1 .. 4 : g[p + i] = Uint32(len)[i]
      <4>1. ASSUME NEW i \in 1 .. 4
            PROVE  g[p + i] = Uint32(len)[i]
        <5>1. p + i \in 1 .. n
              BY <1>1, <3>a
        <5> QED BY <1>2, <3>5, <5>1
      <4> QED BY <4>1
    <3>7. \A i \in 1 .. len : g[p + 4 + i] = list[k][i]
      <4>1. ASSUME NEW i \in 1 .. len
            PROVE  g[p + 4 + i] = list[k][i]
        <5>1. p + 4 + i \in 1 .. n
              BY <1>1, <3>a
        <5> QED BY <1>2, <3>5, <5>1
      <4> QED BY <4>1
    <3>8. h[k] <= Len(g)
          BY <1>1, <1>2, <3>2, <3>5
    <3>9. ASSUME NEW j \in 1 .. k
          PROVE  h[j] <= h[k]
      <4>1. j \in 1 .. m
            BY <1>1, <3>1
      <4> QED BY <1>4, <1>7, <3>1, <3>2, <4>1
    <3>10. From(h, k) = p /\ Len(new[k]) = len /\ new[k] = list[k] /\ h[k] = p + 4 + len
           BY <3>2, <3>4, <3>5
    <3> QED BY <3>6, <3>7, <3>8, <3>9, <3>10
  <2> QED BY <2>1, <2>2
<1>11. Framed(g, h, new)
       BY <1>4, <1>5, <1>9, <1>10 DEF Framed
<1> QED BY <1>11 DEF g, h, new

(* What a call of the reader returns is bytes of the stream.               *)
LEMMA ReadIsBytes ==
    ASSUME NEW s \in Stream, NEW p \in Nat
    PROVE  ReadLengthPrefixed(s, p) \in Stream
<1> DEFINE q == SubSeq(s, p + 1, p + 4)
           n == Number(q)
<1>1. s \in Seq(Byte) /\ Len(s) \in Nat
      BY LenProperties DEF Stream
<1>2. << >> \in Stream
      BY EmptySeq DEF Stream
<1>3. ASSUME p + 4 <= Len(s)
      PROVE  n \in Nat
  <2>1. p + 1 \in 1 .. Len(s) + 1 /\ p + 4 \in p + 1 - 1 .. Len(s) /\ p + 4 - (p + 1) + 1 = 4
        BY <1>1, <1>3
  <2>2. q \in Seq(Byte) /\ Len(q) = 4
        BY <1>1, <2>1, Piece
  <2> HIDE DEF q
  <2>3. ASSUME NEW i \in 1 .. 4
        PROVE  q[i] \in Nat
    <3>1. i \in 1 .. Len(q)
          BY <2>2
    <3>2. q[i] \in Byte
          BY <2>2, <3>1, ElementOfSeq
    <3> QED BY <3>2 DEF Byte
  <2>4. q[1] \in Nat /\ q[2] \in Nat /\ q[3] \in Nat /\ q[4] \in Nat
        BY <2>3
  <2> QED BY <2>4 DEF Number
<1> HIDE DEF q, n
<1>4. ASSUME p + 4 <= Len(s), p + 4 + n <= Len(s)
      PROVE  SubSeq(s, p + 5, p + 4 + n) \in Stream
  <2>1. p + 5 \in 1 .. Len(s) + 1 /\ p + 4 + n \in p + 5 - 1 .. Len(s)
        BY <1>1, <1>3, <1>4
  <2> QED BY <1>1, <2>1, Piece DEF Stream
<1>5. p + 4 \in Nat /\ (p + 4 <= Len(s) => p + 4 + n \in Nat)
      BY <1>3
<1>6. ReadLengthPrefixed(s, p) =
          IF p + 4 > Len(s) THEN << >>
          ELSE IF p + 4 + n > Len(s) THEN << >> ELSE SubSeq(s, p + 5, p + 4 + n)
      BY DEF ReadLengthPrefixed, NoNAL, n, q
<1> QED BY <1>1, <1>2, <1>4, <1>5, <1>6

(***************************************************************************)
(* A NAL unit in the stream at p, of which c bytes arrive: it is returned  *)
(* if it is whole, and nothing is otherwise.                               *)
(***************************************************************************)
LEMMA ReadWhole ==
    ASSUME NEW f \in Stream, NEW c \in 0 .. Len(f), NEW p \in Nat, NEW d \in Bytes,
           NALAt(f, p, d), Shift(Shift(Shift(Len(d)))) < 256
    PROVE  ReadLengthPrefixed(SubSeq(f, 1, c), p) =
               IF p + 4 + Len(d) <= c THEN d ELSE << >>
<1>a. PICK n \in Nat : n = Len(f)
      BY LenProperties DEF Stream
<1>b. PICK len \in Nat : len = Len(d)
      BY LenOfBytes
<1>c. /\ c \in 0 .. n /\ p + 4 + len <= n
      /\ \A i \in 1 .. 4 : f[p + i] = Uint32(len)[i]
      /\ \A i \in 1 .. len : f[p + 4 + i] = d[i]
      /\ Shift(Shift(Shift(len))) < 256
      BY <1>a, <1>b DEF NALAt
<1> DEFINE s == SubSeq(f, 1, c)
<1>1. f \in Seq(Byte) /\ d \in Seq(Byte)
      BY BytesInStream DEF Stream
<1>2. s \in Seq(Byte) /\ Len(s) = c /\ \A i \in 1 .. c : s[i] = f[i]
  <2>1. 1 \in 1 .. Len(f) + 1 /\ c \in 1 - 1 .. Len(f) /\ c - 1 + 1 = c
        BY <1>a, <1>c
  <2>2. \A i \in 1 .. c : 1 + i - 1 = i
        BY <1>c
  <2>3. /\ s \in Seq(Byte) /\ Len(s) = c
        /\ \A i \in 1 .. c : s[i] = f[1 + i - 1]
        BY <1>1, <2>1, Piece
  <2> HIDE DEF s
  <2> QED BY <2>2, <2>3
<1> HIDE DEF s
<1>3. ASSUME p + 4 <= c
      PROVE  Number(SubSeq(s, p + 1, p + 4)) = len
  <2> DEFINE q == SubSeq(s, p + 1, p + 4)
  <2>1. /\ p + 1 \in 1 .. Len(s) + 1 /\ p + 4 \in p + 1 - 1 .. Len(s)
        /\ p + 4 - (p + 1) + 1 = 4
        BY <1>2, <1>3, <1>c
  <2>2. /\ q \in Seq(Byte) /\ Len(q) = 4
        /\ \A i \in 1 .. 4 : q[i] = s[p + 1 + i - 1]
        BY <1>2, <2>1, Piece
  <2> HIDE DEF q
  <2>3. \A i \in 1 .. 4 : p + 1 + i - 1 = p + i /\ p + i \in 1 .. c
        BY <1>3, <1>c
  <2>4. \A i \in 1 .. 4 : q[i] = Uint32(len)[i]
        BY <1>2, <1>c, <2>2, <2>3
  <2>5. Number(q) = len
        BY <1>c, <2>4, NumberIs
  <2> QED BY <2>5 DEF q
<1>4. ASSUME p + 4 + len <= c
      PROVE  SubSeq(s, p + 5, p + 4 + len) = d
  <2> DEFINE r == SubSeq(s, p + 5, p + 4 + len)
  <2>1. /\ p + 5 \in 1 .. Len(s) + 1 /\ p + 4 + len \in p + 5 - 1 .. Len(s)
        /\ p + 4 + len - (p + 5) + 1 = len
        BY <1>2, <1>4, <1>c
  <2>2. /\ r \in Seq(Byte) /\ Len(r) = len
        /\ \A i \in 1 .. len : r[i] = s[p + 5 + i - 1]
        BY <1>2, <2>1, Piece
  <2> HIDE DEF r
  <2>3. \A i \in 1 .. len : p + 5 + i - 1 = p + 4 + i /\ p + 4 + i \in 1 .. c
        BY <1>4, <1>c
  <2>4. ASSUME NEW i \in 1 .. len
        PROVE  r[i] = d[i]
    <3>1. PICK k \in 1 .. c : k = p + 4 + i /\ k = p + 5 + i - 1
          BY <2>3
    <3>2. r[i] = s[k] /\ s[k] = f[k] /\ f[k] = d[i]
          BY <1>2, <1>c, <2>2, <3>1
    <3> QED BY <3>2
  <2>5. r = d
        BY <1>1, <1>b, <2>2, <2>4, SeqEqual
  <2> QED BY <2>5 DEF r
<1> DEFINE num == Number(SubSeq(s, p + 1, p + 4))
<1>5. ReadLengthPrefixed(s, p) =
          IF p + 4 > Len(s) THEN << >>
          ELSE IF p + 4 + num > Len(s) THEN << >> ELSE SubSeq(s, p + 5, p + 4 + num)
      BY DEF ReadLengthPrefixed, NoNAL
<1> HIDE DEF num
<1>6. CASE p + 4 + len <= c
  <2>1. ~(p + 4 > Len(s)) /\ num = len /\ ~(p + 4 + len > Len(s))
        BY <1>2, <1>3, <1>6, <1>c DEF num
  <2>2. ReadLengthPrefixed(s, p) = SubSeq(s, p + 5, p + 4 + len)
        BY <1>5, <2>1
  <2> QED BY <1>4, <1>6, <1>b, <2>2 DEF s
<1>7. CASE ~(p + 4 + len <= c)
  <2>1. p + 4 > Len(s) \/ (num = len /\ p + 4 + len > Len(s))
        BY <1>2, <1>3, <1>7, <1>c DEF num
  <2>2. ReadLengthPrefixed(s, p) = << >>
        BY <1>5, <2>1
  <2> QED BY <1>7, <1>b, <2>2 DEF s
<1> QED BY <1>6, <1>7

(***************************************************************************)
(* A call of the reader between two NAL units of a stream cut at c, the    *)
(* m-th of the list the last it returned: it returns the next one if that  *)
(* is whole, and nothing otherwise.                                        *)
(***************************************************************************)
NextOrNone(e, list, c, m, data) ==
    \/ data = << >> /\ (m < Len(list) => c < e[m + 1])
    \/ /\ data # << >> /\ m < Len(list) /\ data = list[m + 1]
       /\ e[m + 1] = From(e, m + 1) + 4 + Len(data) /\ e[m + 1] <= c

(* The reader does so.                                                     *)
LEMMA ReadIs ==
    ASSUME NEW f \in Stream, NEW e \in Seq(Nat), NEW list \in Seq(Bytes \ {<< >>}),
           Framed(f, e, list), NEW c \in 0 .. Len(f), NEW m \in 0 .. Len(list),
           From(e, m + 1) \in Nat, From(e, m + 1) <= c, Fit(list)
    PROVE  NextOrNone(e, list, c, m, ReadLengthPrefixed(SubSeq(f, 1, c), From(e, m + 1)))
<1>a. PICK p \in Nat : p = From(e, m + 1)
      OBVIOUS
<1> DEFINE data == ReadLengthPrefixed(SubSeq(f, 1, c), p)
<1> SUFFICES NextOrNone(e, list, c, m, data)
    BY <1>a
<1>1. /\ f \in Seq(Byte) /\ Len(f) \in Nat /\ Len(list) \in Nat /\ c \in Nat /\ m \in Nat
      BY LenProperties DEF Stream
<1>2. CASE m = Len(list)
  <2>1. p = Len(f)
        BY <1>a, <1>2 DEF Framed
  <2>2. SubSeq(f, 1, c) = f
    <3>1. c = Len(f)
          BY <1>a, <1>1, <2>1
    <3> QED BY <1>1, <3>1, SubSeqFull
  <2>3. p + 4 > Len(f)
        BY <2>1
  <2>4. data = << >>
        BY <2>2, <2>3 DEF ReadLengthPrefixed, NoNAL
  <2> QED BY <1>1, <1>2, <2>4 DEF NextOrNone
<1>3. CASE m # Len(list)
  <2>1. m + 1 \in 1 .. Len(list) /\ m < Len(list)
        BY <1>1, <1>3
  <2>2. PICK d : d = list[m + 1]
        OBVIOUS
  <2>3. d \in Bytes \ {<< >>} /\ Len(d) \in Nat /\ Len(d) # 0
    <3>1. d \in Bytes \ {<< >>}
          BY <2>1, <2>2, ElementOfSeq
    <3> QED BY <3>1, LenOfBytes
  <2>4. /\ e[m + 1] = p + 4 + Len(d) /\ e[m + 1] <= Len(f)
        /\ \A i \in 1 .. 4 : f[p + i] = Uint32(Len(d))[i]
        /\ \A i \in 1 .. Len(d) : f[p + 4 + i] = d[i]
        /\ Shift(Shift(Shift(Len(d)))) < 256
        BY <1>a, <2>1, <2>2 DEF Framed, Fit
  <2>5. p + 4 + Len(d) <= Len(f)
        BY <2>4
  <2>6. data = IF p + 4 + Len(d) <= c THEN d ELSE << >>
    <3>1. NALAt(f, p, d)
          BY <2>4, <2>5 DEF NALAt
    <3> QED BY <2>3, <2>4, <3>1, ReadWhole
  <2> HIDE DEF data
  <2>7. CASE p + 4 + Len(d) <= c
    <3>1. data = d
          BY <2>6, <2>7
    <3>2. e[m + 1] <= c
          BY <2>4, <2>7
    <3> QED BY <2>1, <2>2, <2>3, <2>4, <3>1, <3>2, <1>a DEF data, NextOrNone
  <2>8. CASE ~(p + 4 + Len(d) <= c)
    <3>1. data = << >>
          BY <2>6, <2>8
    <3>2. c < e[m + 1]
          BY <1>1, <2>3, <2>4, <2>8
    <3> QED BY <3>1, <3>2 DEF data, NextOrNone
  <2> QED BY <2>7, <2>8
<1> QED BY <1>2, <1>3

-----------------------------------------------------------------------------
(* The inductive invariant.                                                *)

(* Where the NAL unit that is being read, or is to be read next, starts.   *)
Here == IF call = "in" THEN taken - Len(buf) + 1 ELSE taken + 1

(***************************************************************************)
(* Between the calls the buffer holds the code that ended the last one and *)
(* during a call what was read of the NAL unit, with no start code in it;  *)
(* after the end of the input it is empty.                                 *)
(***************************************************************************)
BufferInv ==
    /\ hasEOF => taken = Len(input) /\ buf = << >> /\ call # "in"
    /\ call = "eof" => hasEOF
    /\ call = "in" => /\ Here \in Starts(input)
                      /\ buf = SubSeq(input, Here, taken)
                      /\ \A j \in Occurs(input) : j >= Here => j + 2 > taken
    /\ call = "out" /\ ~hasEOF => /\ Here \in Starts(input)
                                  /\ buf \in {<< >>, StartCode, StartCode3}

(* The NAL units returned are those of the input that begin before Here... *)
ReadInv == Lists(input, {i \in Full(input) : i < Here}, nals)

(* ... and all those of what was written.                                  *)
WrittenInv == Lists(written, Full(written), nals)

(* The types of what AnnexBReader and AnnexBWriter use.                    *)
ReadTypes ==
    /\ input \in BoundedSeq(Alphabet, MaxInput)
    /\ taken \in 0 .. Len(input)
    /\ buf \in Seq(Alphabet)
    /\ hasEOF \in BOOLEAN
    /\ call \in {"out", "in", "eof"}
    /\ nals \in Seq(Seq(Alphabet) \ {<< >>})
    /\ written \in Seq(Alphabet)

(* AnnexBReader and AnnexBWriter.                                          *)
ReadingInv == ReadTypes /\ BufferInv /\ ReadInv /\ WrittenInv

(* LengthPrefixedWriter: its stream is the NAL units returned, framed.     *)
FramedInv ==
    /\ framed \in Stream
    /\ ends \in Seq(Nat)
    /\ Framed(framed, ends, nals)

(***************************************************************************)
(* LengthPrefixedReader stands between two NAL units, and has returned the *)
(* ones before; it fails only where the next one is not whole.             *)
(***************************************************************************)
CutInv ==
    /\ cut \in 0 .. Len(framed)
    /\ reader \in {"none", "reading", "failed"}
    /\ pos \in Nat
    /\ got \in Seq(Stream \ {<< >>})
    /\ reader = "none" => cut = 0 /\ pos = 0 /\ got = << >>
    /\ reader # "none" => call = "eof"
    /\ LengthsFit =>
          /\ Len(got) <= Len(nals)
          /\ \A k \in 1 .. Len(got) : got[k] = nals[k]
          /\ pos = From(ends, Len(got) + 1) /\ pos <= cut
          /\ reader = "failed" /\ Len(got) < Len(nals) => cut < ends[Len(got) + 1]

AllInv == ReadingInv /\ FramedInv /\ CutInv

(* A step returns one NAL unit or none.                                    *)
Outputs == UNCHANGED made \/ \E d \in Bytes : Return(d)


(* The types, in the words of the lemmas.                                  *)
LEMMA TypesAre ==
    ASSUME ReadTypes
    PROVE  /\ input \in Bytes /\ Len(input) \in Nat /\ taken \in Nat /\ taken <= Len(input)
           /\ written \in Bytes /\ nals \in Seq(Bytes)
<1>1. input \in Bytes
      BY AnnexBAssumption, BoundedIsSeq DEF ReadTypes, Bytes
<1>2. Len(input) \in Nat
      BY <1>1, LenOfBytes
<1>3. nals \in Seq(Bytes)
  <2>1. nals \in Seq(Bytes \ {<< >>})
        BY DEF ReadTypes, Bytes
  <2>2. Bytes \ {<< >>} \subseteq Bytes
        OBVIOUS
  <2> QED BY <2>1, <2>2, SeqMonotonic
<1> QED BY <1>1, <1>2, <1>3 DEF ReadTypes, Bytes

(* The empty input has no NAL unit and nothing is written at the start.    *)
LEMMA InitReading == Init => ReadingInv
<1> SUFFICES ASSUME Init
             PROVE  ReadingInv
    OBVIOUS
<1>1. ReadTypes
  <2>1. input \in Bytes
        BY AnnexBAssumption, BoundedIsSeq DEF Init, Bytes
  <2>2. 0 \in 0 .. Len(input)
        BY <2>1, LenOfBytes
  <2>3. /\ << >> \in Seq(Alphabet) /\ << >> \in Seq(Seq(Alphabet) \ {<< >>})
        BY EmptySeq
  <2> QED BY <2>2, <2>3 DEF Init, ReadTypes
<1>2. /\ input \in Bytes /\ Len(input) \in Nat /\ Here = 1 /\ call = "out" /\ hasEOF = FALSE
      /\ buf = << >> /\ nals = << >> /\ written = << >>
      BY <1>1, TypesAre DEF Init, Here
<1>3. BufferInv
  <2>1. Here \in Starts(input)
        BY <1>2 DEF Starts
  <2> QED BY <1>2, <2>1 DEF BufferInv
<1>4. ASSUME NEW s, NEW D, D = {}
      PROVE  Lists(s, D, << >>)
      BY <1>4, FS_EmptySet DEF Lists
<1>5. {i \in Full(input) : i < Here} = {}
  <2>1. Full(input) \subseteq 1 .. Len(input)
        BY <1>2, FullIs
  <2> QED BY <1>2, <2>1
<1>6. Full(written) = {}
  <2>1. Full(<< >>) \subseteq 1 .. Len(<< >>)
        BY FullIs, CodesAreBytes
  <2> QED BY <1>2, <2>1
<1> QED BY <1>1, <1>2, <1>3, <1>4, <1>5, <1>6 DEF ReadingInv, ReadInv, WrittenInv

(* The start code in the buffer is skipped.                                *)
LEMMA CodeIsSkipped ==
    ASSUME NEW s \in {<< >>, StartCode, StartCode3}
    PROVE  (CASE IsPrefix(StartCode, s)  -> Drop(s, 4)
              [] IsPrefix(StartCode3, s) -> Drop(s, 3)
              [] OTHER                   -> s) = << >>
<1>1. /\ StartCode \in Seq(Alphabet) /\ Len(StartCode) = 4 /\ StartCode[3] = 0
      /\ StartCode3 \in Seq(Alphabet) /\ Len(StartCode3) = 3 /\ StartCode3[3] = 1
      /\ Len(<< >>) = 0
      BY CodesAreBytes DEF Bytes
<1>2. /\ IsPrefix(StartCode, StartCode) /\ IsPrefix(StartCode3, StartCode3)
      /\ ~IsPrefix(StartCode, StartCode3)
  <2>1. Len(StartCode) <= Len(StartCode) /\ Len(StartCode3) <= Len(StartCode3)
        BY <1>1
  <2>2. ~(Len(StartCode) <= Len(StartCode3))
        BY <1>1
  <2>3. IsPrefix(StartCode, StartCode) /\ IsPrefix(StartCode3, StartCode3)
        BY <2>1 DEF IsPrefix
  <2> QED BY <2>2, <2>3 DEF IsPrefix
<1>3. CASE s = << >>
  <2>1. ~IsPrefix(StartCode, s) /\ ~IsPrefix(StartCode3, s)
        BY <1>1, <1>3 DEF IsPrefix
  <2> QED BY <1>3, <2>1
<1>4. CASE s = StartCode
  <2>1. IsPrefix(StartCode, s)
        BY <1>4, <1>2
  <2>2. ~IsPrefix(StartCode3, s)
    <3>1. ASSUME NEW c \in Seq(Alphabet), NEW d \in Seq(Alphabet), IsPrefix(c, d)
          PROVE  \A i \in 1 .. Len(c) : c[i] = d[i]
          BY <3>1, PrefixIs
    <3>2. 3 \in 1 .. Len(StartCode3) /\ StartCode3[3] # StartCode[3]
          BY <1>1
    <3> QED BY <1>1, <1>4, <3>1, <3>2
  <2>3. Drop(s, 4) = << >>
    <3>1. SubSeq(StartCode, 5, 4) = << >>
          BY SubSeqEmpty
    <3>2. 4 + 1 = 5
          OBVIOUS
    <3> QED BY <1>1, <1>4, <3>1, <3>2 DEF Drop
  <2> QED BY <2>1, <2>2, <2>3
<1>5. CASE s = StartCode3
  <2>1. ~IsPrefix(StartCode, s) /\ IsPrefix(StartCode3, s)
        BY <1>5, <1>2
  <2>2. Drop(s, 3) = << >>
    <3>1. SubSeq(StartCode3, 4, 3) = << >>
          BY SubSeqEmpty
    <3>2. 3 + 1 = 4
          OBVIOUS
    <3> QED BY <1>1, <1>5, <3>1, <3>2 DEF Drop
  <2> QED BY <2>1, <2>2
<1> QED BY <1>3, <1>4, <1>5

(* Entering the call keeps the invariant.                                  *)
LEMMA EnterReading ==
    ASSUME ReadingInv, Enter
    PROVE  ReadingInv'
<1>1. /\ call = "out" /\ Here = taken + 1
      /\ input' = input /\ taken' = taken /\ hasEOF' = hasEOF
      /\ nals' = nals /\ written' = written
      BY DEF Enter, Here, made
<1>2. /\ input \in Bytes /\ Len(input) \in Nat /\ taken \in Nat /\ taken <= Len(input)
      BY TypesAre DEF ReadingInv
<1>3. CASE hasEOF
  <2>1. buf = << >> /\ taken = Len(input)
        BY <1>3 DEF ReadingInv, BufferInv
  <2>2. call' = "eof" /\ buf' = buf
        BY <1>3, <2>1 DEF Enter
  <2>3. Here' = Here
        BY <1>1, <2>2 DEF Here
  <2>4. ReadTypes'
        BY <1>1, <2>2 DEF ReadingInv, ReadTypes
  <2>5. BufferInv'
        BY <1>1, <1>3, <2>1, <2>2 DEF BufferInv
  <2> QED BY <1>1, <2>3, <2>4, <2>5 DEF ReadingInv, ReadInv, WrittenInv
<1>4. CASE ~hasEOF
  <2>1. Here \in Starts(input) /\ buf \in {<< >>, StartCode, StartCode3}
        BY <1>1, <1>4 DEF ReadingInv, BufferInv
  <2>2. /\ call' = "in"
        /\ buf' = CASE IsPrefix(StartCode, buf)  -> Drop(buf, 4)
                    [] IsPrefix(StartCode3, buf) -> Drop(buf, 3)
                    [] OTHER                     -> buf
        BY <1>4 DEF Enter
  <2>3. buf' = << >>
        BY <2>1, <2>2, CodeIsSkipped
  <2>4. Here' = Here
    <3>1. Len(buf') = 0
          BY <2>3, CodesAreBytes
    <3> QED BY <1>1, <1>2, <2>2, <3>1 DEF Here
  <2>5. ReadTypes'
    <3>1. << >> \in Seq(Alphabet)
          BY EmptySeq
    <3> QED BY <1>1, <2>2, <2>3, <3>1 DEF ReadingInv, ReadTypes
  <2>6. << >> = SubSeq(input, Here, taken)
        BY <1>1, <1>2, SubSeqEmpty
  <2>7. \A j \in Occurs(input) : j >= Here => j + 2 > taken
    <3>1. Occurs(input) \subseteq 1 .. Len(input) - 2
          BY <1>2, OccursIs
    <3> QED BY <1>1, <1>2, <3>1
  <2>8. BufferInv'
        BY <1>1, <1>4, <2>1, <2>2, <2>3, <2>4, <2>6, <2>7 DEF BufferInv
  <2> QED BY <1>1, <2>4, <2>5, <2>8 DEF ReadingInv, ReadInv, WrittenInv
<1> QED BY <1>3, <1>4

(* A NAL unit with no start code in it, returned and written.              *)
LEMMA ReturnReading ==
    ASSUME ReadingInv, NEW d \in Bytes \ {<< >>}, Occurs(d) = {}, Return(d)
    PROVE  /\ nals' \in Seq(Seq(Alphabet) \ {<< >>}) /\ written' \in Seq(Alphabet)
           /\ WrittenInv' /\ nals' = Append(nals, d) /\ call' = "out"
<1>1. /\ nals' = Append(nals, d) /\ written' = written \o WriteNAL(d) /\ call' = "out"
      BY DEF Return
<1>2. nals \in Seq(Seq(Alphabet) \ {<< >>}) /\ d \in Seq(Alphabet) \ {<< >>}
      BY DEF ReadingInv, ReadTypes, Bytes
<1>3. Append(nals, d) \in Seq(Seq(Alphabet) \ {<< >>})
      BY <1>2, AppendProperties
<1>4. written \in Bytes /\ nals \in Seq(Bytes) /\ Lists(written, Full(written), nals)
      BY TypesAre DEF ReadingInv, WrittenInv
<1>5. /\ written \o WriteNAL(d) \in Bytes
      /\ Lists(written \o WriteNAL(d), Full(written \o WriteNAL(d)), Append(nals, d))
      BY <1>4, WriteMore
<1>6. WrittenInv'
      BY <1>1, <1>5 DEF WrittenInv
<1> QED BY <1>1, <1>3, <1>5, <1>6 DEF Bytes

(* Reading a byte keeps the invariant.                                     *)
LEMMA ReadByteReading ==
    ASSUME ReadingInv, ReadByte
    PROVE  ReadingInv' /\ Outputs
<1> DEFINE b == Here
           t == taken + 1
           p == SubSeq(input, b, t)
           code == CodeAtEnd(p)
           nal == SubSeq(input, b, End(input, b))
<1>1. /\ call = "in" /\ hasEOF = FALSE /\ taken < Len(input)
      /\ taken' = t /\ input' = input /\ hasEOF' = FALSE
      /\ AppendByte(Append(buf, input[taken + 1]))
      BY DEF ReadByte, ReadingInv, ReadTypes
<1>2. /\ input \in Bytes /\ Len(input) \in Nat /\ taken \in Nat
      /\ nals \in Seq(Bytes)
      BY TypesAre DEF ReadingInv
<1>3. /\ b \in Starts(input) /\ buf = SubSeq(input, b, taken)
      /\ \A j \in Occurs(input) : j >= b => j + 2 > taken
      BY <1>1 DEF ReadingInv, BufferInv
<1>4. /\ b \in 1 .. Len(input) + 1 /\ taken \in b - 1 .. Len(input)
      /\ Occurs(input) \subseteq 1 .. Len(input) - 2
      /\ Starts(input) \subseteq 1 .. Len(input) + 1
  <2>1. /\ Occurs(input) \subseteq 1 .. Len(input) - 2
        /\ Starts(input) \subseteq 1 .. Len(input) + 1
        BY <1>2, OccursIs, FullIs
  <2>2. b = taken - Len(buf) + 1 /\ Len(buf) \in Nat
    <3>1. buf \in Bytes
          BY DEF ReadingInv, ReadTypes, Bytes
    <3> QED BY <1>1, <3>1, LenOfBytes DEF Here
  <2> HIDE DEF b
  <2> QED BY <1>1, <1>2, <1>3, <2>1, <2>2
<1> HIDE DEF b
<1>5. Append(buf, input[taken + 1]) = p
      BY <1>1, <1>2, <1>3, <1>4, PieceGrows
<1>6. AppendByte(p)
      BY <1>1, <1>5
<1>7. t \in b - 1 .. Len(input) /\ t \in Nat /\ t - 1 = taken /\ t \in 0 .. Len(input)
      BY <1>1, <1>2, <1>4
<1>8. p \in Bytes /\ Len(p) = t - b + 1 /\ code \in {<< >>, StartCode, StartCode3}
      /\ (code = << >> <=> ~(t - 2 >= b /\ t - 2 \in Occurs(input)))
      BY <1>2, <1>4, <1>7, CodeInPiece
<1>9. Lists(input, {i \in Full(input) : i < b}, nals)
      BY DEF ReadingInv, ReadInv, b
<1>10. \A j \in Occurs(input) : j >= b => j + 2 >= t
       BY <1>2, <1>3, <1>4, <1>7
<1> HIDE DEF t, p
<1>11. CASE code = << >>
  <2>1. buf' = p /\ call' = call /\ nals' = nals /\ written' = written
        BY <1>6, <1>11 DEF AppendByte, ReadsOn, made
  <2>2. Here' = b
    <3>1. Here' = taken' - Len(buf') + 1
          BY <1>1, <2>1 DEF Here
    <3> QED BY <1>1, <1>4, <1>7, <1>8, <2>1, <3>1
  <2>3. \A j \in Occurs(input) : j >= b => j + 2 > t
    <3>1. ASSUME NEW j \in Occurs(input), j >= b
          PROVE  j + 2 > t
      <4>1. j \in Int /\ j + 2 >= t /\ (j + 2 = t => j = t - 2)
            BY <1>4, <1>7, <1>10, <3>1
      <4>2. j # t - 2
            BY <1>8, <1>11, <3>1
      <4> QED BY <1>7, <4>1, <4>2
    <3> QED BY <3>1
  <2>4. ReadTypes'
        BY <1>1, <1>7, <1>8, <2>1 DEF ReadingInv, ReadTypes, Bytes
  <2>5. BufferInv'
        BY <1>1, <1>3, <2>1, <2>2, <2>3 DEF BufferInv, p
  <2>6. ReadInv'
        BY <1>1, <1>9, <2>1, <2>2 DEF ReadInv
  <2>7. WrittenInv'
        BY <2>1 DEF ReadingInv, WrittenInv
  <2>8. Outputs
        BY <1>6, <1>11 DEF AppendByte, ReadsOn, Outputs
  <2> QED BY <2>4, <2>5, <2>6, <2>7, <2>8 DEF ReadingInv
<1>12. CASE code # << >>
  <2>1. /\ t - 2 \in Occurs(input) /\ t - 2 >= b
        /\ \A k \in Occurs(input) : k >= b => t - 2 <= k
        /\ b \in Full(input) <=> p # code
        /\ Chop(p, Len(code)) = nal
        /\ Occurs(nal) = {}
        BY <1>2, <1>3, <1>7, <1>10, <1>12, CodeEndsNAL DEF p
  <2>2. /\ t - 2 + 3 \in Starts(input)
        /\ b \in Full(input) =>
               Lists(input, {i \in Full(input) : i < t - 2 + 3}, Append(nals, nal))
        /\ b \notin Full(input) => Lists(input, {i \in Full(input) : i < t - 2 + 3}, nals)
        BY <1>2, <1>3, <1>9, <2>1, NextNAL
  <2>3. t - 2 + 3 = t + 1
        BY <1>7
  <2>4. code \in Seq(Alphabet)
        BY <1>8, CodesAreBytes DEF Bytes
  <2> HIDE DEF code
  <2>5. CASE p # code
    <3>1. buf' = code /\ Return(nal)
          BY <1>6, <1>12, <2>1, <2>5 DEF AppendByte, code
    <3>2. nal \in Bytes \ {<< >>}
          BY <1>2, <2>1, <2>5, FullIs
    <3>3. /\ nals' \in Seq(Seq(Alphabet) \ {<< >>}) /\ written' \in Seq(Alphabet)
          /\ WrittenInv' /\ nals' = Append(nals, nal) /\ call' = "out"
          BY <2>1, <3>1, <3>2, ReturnReading
    <3>4. Here' = t + 1
          BY <1>1, <3>3 DEF Here
    <3>5. ReadTypes'
          BY <1>1, <1>7, <2>4, <3>1, <3>3 DEF ReadingInv, ReadTypes
    <3>6. BufferInv'
          BY <1>1, <1>8, <2>2, <2>3, <3>1, <3>3, <3>4 DEF BufferInv, code
    <3>7. ReadInv'
          BY <1>1, <2>1, <2>2, <2>3, <2>5, <3>3, <3>4 DEF ReadInv
    <3>8. Outputs
          BY <3>1, <3>2 DEF Outputs
    <3> QED BY <3>3, <3>5, <3>6, <3>7, <3>8 DEF ReadingInv
  <2>6. CASE p = code
    <3>1. buf' = << >> /\ call' = call /\ nals' = nals /\ written' = written
          BY <1>6, <1>12, <2>6 DEF AppendByte, ReadsOn, made, code
    <3>2. Here' = t + 1
      <4>1. Here' = t - 0 + 1
            BY <1>1, <3>1, CodesAreBytes DEF Here
      <4> QED BY <1>7, <4>1
    <3>3. ReadTypes'
      <4>1. << >> \in Seq(Alphabet)
            BY EmptySeq
      <4> QED BY <1>1, <1>7, <3>1, <4>1 DEF ReadingInv, ReadTypes
    <3>4. << >> = SubSeq(input, t + 1, t)
          BY <1>7, SubSeqEmpty
    <3>5. \A j \in Occurs(input) : j >= t + 1 => j + 2 > t
          BY <1>2, <1>4, <1>7
    <3>6. BufferInv'
          BY <1>1, <2>2, <2>3, <3>1, <3>2, <3>4, <3>5 DEF BufferInv
    <3>7. ReadInv'
          BY <1>1, <2>1, <2>2, <2>3, <2>6, <3>1, <3>2 DEF ReadInv
    <3>8. WrittenInv'
          BY <3>1 DEF ReadingInv, WrittenInv
    <3>9. Outputs
          BY <1>6, <1>12, <2>6 DEF AppendByte, ReadsOn, Outputs, code
    <3> QED BY <3>3, <3>6, <3>7, <3>8, <3>9 DEF ReadingInv
  <2> QED BY <2>5, <2>6
<1> QED BY <1>11, <1>12

(* The end of the input keeps the invariant.                               *)
LEMMA AtEOFReading ==
    ASSUME ReadingInv, AtEOF
    PROVE  ReadingInv' /\ Outputs
<1> DEFINE b == Here
           n == Len(input)
<1>1. call = "in" /\ hasEOF' = TRUE /\ buf' = << >> /\ input' = input /\ taken' = taken
      BY DEF AtEOF
<1>2. hasEOF = FALSE /\ taken = n
      BY <1>1 DEF AtEOF, ReadingInv, BufferInv, ReadTypes
<1>3. /\ input \in Bytes /\ n \in Nat /\ nals \in Seq(Bytes)
      BY TypesAre DEF ReadingInv
<1>4. /\ b \in Starts(input) /\ buf = SubSeq(input, b, n)
      /\ \A j \in Occurs(input) : j >= b => j + 2 > n
      BY <1>1, <1>2 DEF ReadingInv, BufferInv
<1>5. /\ Occurs(input) \subseteq 1 .. n - 2
      /\ Starts(input) \subseteq 1 .. n + 1 /\ Full(input) \subseteq 1 .. n
      BY <1>3, OccursIs, FullIs
<1>6. b \in 1 .. n + 1 /\ n \in b - 1 .. n
      BY <1>3, <1>4, <1>5
<1>7. Lists(input, {i \in Full(input) : i < b}, nals)
      BY DEF ReadingInv, ReadInv
<1>8. b = n - Len(buf) + 1 /\ Len(buf) \in Nat /\ (buf = << >> <=> Len(buf) = 0)
  <2>1. buf \in Bytes
        BY DEF ReadingInv, ReadTypes, Bytes
  <2> QED BY <1>1, <1>2, <2>1, LenOfBytes DEF Here
<1> HIDE DEF b, n
<1>9. \A k \in Occurs(input) : k < b
  <2>1. b \in Int /\ \A k \in Occurs(input) : k \in Int /\ k + 2 <= n
        BY <1>3, <1>5, <1>6
  <2> QED BY <1>3, <1>4, <2>1
<1>10. /\ End(input, b) = n
       /\ b \in Full(input) => Lists(input, Full(input), Append(nals, buf))
       /\ b \notin Full(input) => Lists(input, Full(input), nals)
  <2>1. /\ End(input, b) = n
        /\ b \in Full(input) =>
               Lists(input, Full(input), Append(nals, SubSeq(input, b, End(input, b))))
        /\ b \notin Full(input) => Lists(input, Full(input), nals)
        BY <1>3, <1>4, <1>7, <1>9, LastNAL DEF n
  <2> QED BY <1>4, <2>1
<1>11. b \in Full(input) <=> buf # << >>
  <2>1. b \in Full(input) <=> b <= n
        BY <1>4, <1>10 DEF Full
  <2> QED BY <1>3, <1>8, <2>1
<1>12. {i \in Full(input) : i < n + 1} = Full(input)
       BY <1>3, <1>5
<1>13. << >> \in Seq(Alphabet)
       BY EmptySeq
<1>14. CASE buf = << >>
  <2>1. call' = "eof" /\ nals' = nals /\ written' = written
        BY <1>14 DEF AtEOF, made
  <2>2. Here' = n + 1
        BY <1>1, <1>2, <2>1 DEF Here
  <2>3. ReadTypes'
        BY <1>1, <1>13, <2>1 DEF ReadingInv, ReadTypes
  <2>4. BufferInv'
        BY <1>1, <1>2, <2>1 DEF BufferInv, n
  <2>5. ReadInv'
        BY <1>1, <1>10, <1>11, <1>12, <1>14, <2>1, <2>2 DEF ReadInv
  <2>6. WrittenInv'
        BY <2>1 DEF ReadingInv, WrittenInv
  <2>7. Outputs
        BY <1>14 DEF AtEOF, Outputs
  <2> QED BY <2>3, <2>4, <2>5, <2>6, <2>7 DEF ReadingInv
<1>15. CASE buf # << >>
  <2>1. Return(buf)
        BY <1>15 DEF AtEOF
  <2>2. buf \in Bytes \ {<< >>}
        BY <1>15 DEF ReadingInv, ReadTypes, Bytes
  <2>3. Occurs(buf) = {}
        BY <1>3, <1>4, <1>6, NoCodeInside DEF n
  <2>4. /\ nals' \in Seq(Seq(Alphabet) \ {<< >>}) /\ written' \in Seq(Alphabet)
        /\ WrittenInv' /\ nals' = Append(nals, buf) /\ call' = "out"
        BY <2>1, <2>2, <2>3, ReturnReading
  <2>5. Here' = n + 1
        BY <1>1, <1>2, <2>4 DEF Here
  <2>6. ReadTypes'
        BY <1>1, <1>13, <2>4 DEF ReadingInv, ReadTypes
  <2>7. BufferInv'
        BY <1>1, <1>2, <2>4 DEF BufferInv, n
  <2>8. ReadInv'
        BY <1>1, <1>10, <1>11, <1>12, <1>15, <2>4, <2>5 DEF ReadInv
  <2>9. Outputs
        BY <2>1, <2>2 DEF Outputs
  <2> QED BY <2>4, <2>6, <2>7, <2>8, <2>9 DEF ReadingInv
<1> QED BY <1>14, <1>15

(* The framed stream, before anything is written to it.                    *)
LEMMA InitFramed == Init => FramedInv /\ CutInv
<1> SUFFICES ASSUME Init
             PROVE  FramedInv /\ CutInv
    OBVIOUS
<1>1. /\ framed = << >> /\ ends = << >> /\ nals = << >> /\ got = << >>
      /\ cut = 0 /\ pos = 0 /\ reader = "none" /\ call = "out"
      BY DEF Init
<1>2. /\ << >> \in Stream /\ << >> \in Seq(Nat) /\ << >> \in Seq(Stream \ {<< >>})
      /\ Len(<< >>) = 0
      BY EmptySeq, CodesAreBytes DEF Stream
<1>3. From(ends, 1) = 0
      BY DEF From
<1>4. FramedInv
      BY <1>1, <1>2, <1>3 DEF FramedInv, Framed
<1>5. CutInv
      BY <1>1, <1>2, <1>3 DEF CutInv
<1> QED BY <1>4, <1>5

(* What a step of AnnexBReader adds to the framed stream.                  *)
LEMMA FramedStep ==
    ASSUME ReadTypes, FramedInv, Outputs
    PROVE  FramedInv'
<1>1. CASE UNCHANGED made
      BY <1>1 DEF made, FramedInv, Framed, From
<1>2. ASSUME NEW d \in Bytes, Return(d)
      PROVE  FramedInv'
  <2> DEFINE g == framed \o WriteLengthPrefixed(d)
  <2>1. nals' = Append(nals, d) /\ framed' = g /\ ends' = Append(ends, Len(g))
        BY <1>2 DEF Return
  <2>2. /\ nals \in Seq(Bytes) /\ framed \in Stream /\ ends \in Seq(Nat)
        /\ Framed(framed, ends, nals)
        BY TypesAre DEF FramedInv
  <2>3. g \in Stream /\ Len(g) \in Nat
    <3>1. g \in Stream
          BY <1>2, <2>2, FrameIs
    <3> QED BY <3>1, LenProperties DEF Stream
  <2>4. Framed(g, Append(ends, Len(g)), Append(nals, d))
        BY <1>2, <2>2, FramedOneMore
  <2> HIDE DEF g
  <2>5. Append(ends, Len(g)) \in Seq(Nat)
        BY <2>2, <2>3, AppendProperties
  <2>6. Framed(framed', ends', nals')
        BY <2>1, <2>4
  <2> QED BY <2>1, <2>3, <2>5, <2>6 DEF FramedInv
<1> QED BY <1>1, <1>2 DEF Outputs

(* Until AnnexBReader is done, LengthPrefixedReader has not begun.         *)
LEMMA CutWaits ==
    ASSUME CutInv, FramedInv', call # "eof", UNCHANGED other
    PROVE  CutInv'
<1>1. /\ reader' = "none" /\ cut' = 0 /\ pos' = 0 /\ got' = << >>
      BY DEF CutInv, other
<1>2. Len(framed') \in Nat /\ Len(nals') \in Nat
  <2>1. Len(framed') \in Nat
        BY LenProperties DEF FramedInv, Stream
  <2>2. ends' \in Seq(Nat) /\ Len(ends') = Len(nals')
        BY DEF FramedInv, Framed
  <2> QED BY <2>1, <2>2, LenProperties
<1>3. << >> \in Seq(Stream \ {<< >>}) /\ Len(<< >>) = 0
      BY EmptySeq, CodesAreBytes
<1>4. From(ends', 1) = 0
      BY DEF From
<1> QED BY <1>1, <1>2, <1>3, <1>4 DEF CutInv

(* The bytes that arrive.                                                  *)
LEMMA CutKeeps ==
    ASSUME CutInv, Cut
    PROVE  CutInv'
<1>1. /\ call = "eof" /\ reader = "none" /\ reader' = "reading" /\ cut' \in 0 .. Len(framed)
      /\ call' = call /\ nals' = nals /\ framed' = framed /\ ends' = ends
      /\ pos' = pos /\ got' = got
      BY DEF Cut, made
<1>2. cut = 0 /\ pos = 0 /\ got = << >>
      BY <1>1 DEF CutInv
<1>3. LengthsFit' <=> LengthsFit
      BY <1>1 DEF LengthsFit
<1>4. From(ends', Len(got') + 1) = From(ends, Len(got) + 1)
      BY <1>1 DEF From
<1> QED BY <1>1, <1>2, <1>3, <1>4 DEF CutInv

(* LengthPrefixedReader returns the next NAL unit or fails.                *)
LEMMA ReadFramedKeeps ==
    ASSUME ReadTypes, FramedInv, CutInv, ReadFramed
    PROVE  CutInv'
<1> DEFINE s == SubSeq(framed, 1, cut)
           data == ReadLengthPrefixed(s, pos)
<1>1. /\ reader = "reading" /\ call' = call /\ nals' = nals /\ framed' = framed
      /\ ends' = ends /\ cut' = cut
      /\ \/ data # << >> /\ got' = Append(got, data) /\ pos' = pos + 4 + Len(data)
            /\ reader' = reader
         \/ data = << >> /\ reader' = "failed" /\ pos' = pos /\ got' = got
      BY DEF ReadFramed, made, NoNAL
<1>2. /\ framed \in Stream /\ ends \in Seq(Nat) /\ Framed(framed, ends, nals)
      BY DEF FramedInv
<1>3. /\ cut \in 0 .. Len(framed) /\ pos \in Nat /\ got \in Seq(Stream \ {<< >>})
      /\ call = "eof"
      BY <1>1 DEF CutInv
<1>4. /\ Len(framed) \in Nat /\ Len(got) \in Nat /\ Len(nals) \in Nat
      /\ nals \in Seq(Bytes \ {<< >>})
  <2>1. nals \in Seq(Bytes \ {<< >>})
        BY DEF ReadTypes, Bytes
  <2> QED BY <1>2, <1>3, <2>1, LenProperties DEF Stream
<1>5. data \in Stream /\ Len(data) \in Nat
  <2>1. s \in Stream
    <3>1. 1 \in 1 .. Len(framed) + 1 /\ cut \in 1 - 1 .. Len(framed)
          BY <1>3, <1>4
    <3> QED BY <1>2, <3>1, Piece DEF Stream
  <2> HIDE DEF s
  <2>2. data \in Stream
        BY <1>3, <2>1, ReadIsBytes
  <2> HIDE DEF data
  <2> QED BY <2>2, LenProperties DEF Stream
<1>6. LengthsFit' <=> LengthsFit
      BY <1>1 DEF LengthsFit
<1>7. ASSUME LengthsFit
      PROVE  /\ Len(got) <= Len(nals) /\ \A k \in 1 .. Len(got) : got[k] = nals[k]
             /\ pos = From(ends, Len(got) + 1) /\ pos <= cut
      BY <1>7 DEF CutInv
<1>8. ASSUME LengthsFit
      PROVE  NextOrNone(ends, nals, cut, Len(got), data)
  <2>1. /\ Len(got) \in 0 .. Len(nals) /\ pos = From(ends, Len(got) + 1)
        /\ From(ends, Len(got) + 1) \in Nat /\ From(ends, Len(got) + 1) <= cut
        BY <1>3, <1>4, <1>7, <1>8
  <2>2. Fit(nals)
        BY <1>8 DEF LengthsFit, Fit
  <2>3. NextOrNone(ends, nals, cut, Len(got),
                   ReadLengthPrefixed(s, From(ends, Len(got) + 1)))
        BY <1>2, <1>3, <1>4, <2>1, <2>2, ReadIs
  <2> QED BY <2>1, <2>3
<1> HIDE DEF data, s
<1>9. CASE data = << >>
  <2>1. reader' = "failed" /\ pos' = pos /\ got' = got
        BY <1>1, <1>9
  <2>2. From(ends', Len(got') + 1) = From(ends, Len(got) + 1)
        BY <1>1, <2>1 DEF From
  <2>3. ASSUME LengthsFit
        PROVE  Len(got) < Len(nals) => cut < ends[Len(got) + 1]
        BY <1>8, <1>9, <2>3 DEF NextOrNone
  <2> QED BY <1>1, <1>3, <1>6, <1>7, <2>1, <2>2, <2>3 DEF CutInv
<1>10. CASE data # << >>
  <2>1. got' = Append(got, data) /\ pos' = pos + 4 + Len(data) /\ reader' = "reading"
        BY <1>1, <1>10
  <2>2. /\ got' \in Seq(Stream \ {<< >>}) /\ Len(got') = Len(got) + 1
        /\ got'[Len(got) + 1] = data
        /\ \A k \in 1 .. Len(got) : got'[k] = got[k]
        BY <1>3, <1>5, <1>10, <2>1, AppendProperties
  <2>3. pos' \in Nat
        BY <1>3, <1>5, <2>1
  <2>4. ASSUME LengthsFit
        PROVE  /\ Len(got') <= Len(nals) /\ \A k \in 1 .. Len(got') : got'[k] = nals[k]
               /\ pos' = From(ends', Len(got') + 1) /\ pos' <= cut
    <3>1. /\ Len(got) < Len(nals) /\ data = nals[Len(got) + 1]
          /\ ends[Len(got) + 1] = pos + 4 + Len(data) /\ ends[Len(got) + 1] <= cut
          BY <1>7, <1>8, <1>10, <2>4 DEF NextOrNone
    <3>2. Len(got') <= Len(nals)
          BY <1>4, <2>2, <3>1
    <3>3. ASSUME NEW k \in 1 .. Len(got')
          PROVE  got'[k] = nals[k]
      <4>1. k \in 1 .. Len(got) \/ k = Len(got) + 1
            BY <1>4, <2>2
      <4> QED BY <1>7, <2>2, <2>4, <3>1, <4>1
    <3>4. From(ends', Len(got') + 1) = ends[Len(got) + 1]
      <4>1. Len(got) + 1 + 1 # 1 /\ Len(got) + 1 + 1 - 1 = Len(got) + 1
            BY <1>4
      <4> QED BY <1>1, <2>2, <4>1 DEF From
    <3> QED BY <2>1, <3>1, <3>2, <3>3, <3>4
  <2> QED BY <1>1, <1>3, <1>6, <2>1, <2>2, <2>3, <2>4 DEF CutInv
<1> QED BY <1>9, <1>10

(* The initial states satisfy the invariant.                               *)
LEMMA InitAll == Init => AllInv
<1> QED BY InitReading, InitFramed DEF AllInv

(* What AnnexBReader does not do leaves what is said of it.                *)
LEMMA ReadingStays ==
    ASSUME ReadingInv, UNCHANGED <<input, taken, buf, hasEOF, call, made>>
    PROVE  ReadingInv'
<1>1. Here' = Here
      BY DEF Here
<1>2. ReadTypes'
      BY DEF ReadingInv, ReadTypes, made
<1>3. BufferInv'
      BY <1>1 DEF ReadingInv, BufferInv
<1>4. ReadInv' /\ WrittenInv'
      BY <1>1 DEF ReadingInv, ReadInv, WrittenInv, made
<1> QED BY <1>2, <1>3, <1>4 DEF ReadingInv

(* Every step keeps the invariant.                                         *)
LEMMA StepAll == AllInv /\ [Next]_vars => AllInv'
<1> SUFFICES ASSUME AllInv, [Next]_vars
             PROVE  AllInv'
    OBVIOUS
<1>1. ReadingInv /\ ReadTypes /\ FramedInv /\ CutInv
      BY DEF AllInv, ReadingInv
<1>2. CASE Enter
  <2>1. ReadingInv'
        BY <1>1, <1>2, EnterReading
  <2>2. call # "eof" /\ UNCHANGED made /\ UNCHANGED other
        BY <1>2 DEF Enter
  <2>3. FramedInv'
        BY <1>1, <2>2, FramedStep DEF Outputs
  <2> QED BY <1>1, <2>1, <2>2, <2>3, CutWaits DEF AllInv
<1>3. CASE ReadByte
  <2>1. ReadingInv' /\ Outputs
        BY <1>1, <1>3, ReadByteReading
  <2>2. call # "eof" /\ UNCHANGED other
        BY <1>3 DEF ReadByte
  <2>3. FramedInv'
        BY <1>1, <2>1, FramedStep
  <2> QED BY <1>1, <2>1, <2>2, <2>3, CutWaits DEF AllInv
<1>4. CASE AtEOF
  <2>1. ReadingInv' /\ Outputs
        BY <1>1, <1>4, AtEOFReading
  <2>2. call # "eof" /\ UNCHANGED other
        BY <1>4 DEF AtEOF
  <2>3. FramedInv'
        BY <1>1, <2>1, FramedStep
  <2> QED BY <1>1, <2>1, <2>2, <2>3, CutWaits DEF AllInv
<1>5. CASE Cut
  <2>1. UNCHANGED <<input, taken, buf, hasEOF, call, made>>
        BY <1>5 DEF Cut
  <2>2. FramedInv'
        BY <1>1, <2>1, FramedStep DEF Outputs
  <2> QED BY <1>1, <1>5, <2>1, <2>2, ReadingStays, CutKeeps DEF AllInv
<1>6. CASE ReadFramed
  <2>1. UNCHANGED <<input, taken, buf, hasEOF, call, made>>
        BY <1>6 DEF ReadFramed
  <2>2. FramedInv'
        BY <1>1, <2>1, FramedStep DEF Outputs
  <2> QED BY <1>1, <1>6, <2>1, <2>2, ReadingStays, ReadFramedKeeps DEF AllInv
<1>7. CASE UNCHANGED vars
  <2>1. UNCHANGED <<input, taken, buf, hasEOF, call, made>> /\ UNCHANGED other
        BY <1>7 DEF vars
  <2>2. FramedInv'
        BY <1>1, <2>1, FramedStep DEF Outputs
  <2>3. CutInv'
    <3>1. LengthsFit' <=> LengthsFit
          BY <2>1 DEF LengthsFit, made
    <3>2. From(ends', Len(got') + 1) = From(ends, Len(got) + 1)
          BY <2>1 DEF From, made, other
    <3> QED BY <1>1, <2>1, <3>1, <3>2 DEF CutInv, made, other
  <2> QED BY <1>1, <2>1, <2>2, <2>3, ReadingStays DEF AllInv
<1> QED BY <1>2, <1>3, <1>4, <1>5, <1>6, <1>7 DEF Next

(* The inductive invariant holds in every state.                           *)
THEOREM Invariant == Spec => []AllInv
<1> QED BY InitAll, StepAll, PTL DEF Spec

-----------------------------------------------------------------------------
(* What follows from it.                                                   *)

(* The fields of the reader and the writers keep their types.              *)
THEOREM TypeCorrect == Spec => []TypeOK
<1>1. AllInv => TypeOK
      BY DEF AllInv, ReadingInv, ReadTypes, FramedInv, CutInv, Stream, TypeOK
<1> QED BY <1>1, Invariant, PTL

(***************************************************************************)
(* When ReadNAL returns io.EOF, its calls have returned every NAL unit of  *)
(* stdin, whole and in order, and nothing else, whatever the bytes.        *)
(***************************************************************************)
THEOREM ReadsCorrect == Spec => []ReadsAllNALs
<1>1. AllInv => ReadsAllNALs
  <2> SUFFICES ASSUME AllInv, call = "eof"
               PROVE  nals = Split(input)
      BY DEF ReadsAllNALs
  <2>1. input \in Bytes /\ Len(input) \in Nat /\ nals \in Seq(Bytes)
        BY TypesAre DEF AllInv, ReadingInv
  <2>2. Here = Len(input) + 1
        BY DEF AllInv, ReadingInv, BufferInv, Here
  <2>3. Full(input) \subseteq 1 .. Len(input)
        BY <2>1, FullIs
  <2>4. {i \in Full(input) : i < Here} = Full(input)
        BY <2>1, <2>2, <2>3
  <2>5. Lists(input, Full(input), nals)
        BY <2>4 DEF AllInv, ReadingInv, ReadInv
  <2> QED BY <2>1, <2>5, ListIsSplit
<1> QED BY <1>1, Invariant, PTL

(***************************************************************************)
(* What AnnexBWriter has made of the NAL units returned so far splits into *)
(* the same NAL units.                                                     *)
(***************************************************************************)
THEOREM RoundTripCorrect == Spec => []RoundTrip
<1>1. AllInv => RoundTrip
  <2> SUFFICES ASSUME AllInv
               PROVE  RoundTrip
      OBVIOUS
  <2>1. written \in Bytes /\ nals \in Seq(Bytes)
        BY TypesAre DEF AllInv, ReadingInv
  <2>2. nals = Split(written)
        BY <2>1, ListIsSplit DEF AllInv, ReadingInv, WrittenInv
  <2> QED BY <2>2 DEF RoundTrip
<1> QED BY <1>1, Invariant, PTL

(***************************************************************************)
(* Whatever byte the length-prefixed stream is cut at, LengthPrefixedReader*)
(* fails after exactly the NAL units that arrived whole.                   *)
(***************************************************************************)
THEOREM CutCorrect == Spec => []CutStreamYieldsWholeNALs
<1>1. AllInv => CutStreamYieldsWholeNALs
  <2> SUFFICES ASSUME AllInv, reader = "failed", LengthsFit
               PROVE  /\ IsPrefix(got, nals)
                      /\ \A k \in 1 .. Len(nals) : k <= Len(got) <=> ends[k] <= cut
      BY DEF CutStreamYieldsWholeNALs
  <2> DEFINE m == Len(got)
             n == Len(nals)
  <2>1. /\ got \in Seq(Stream) /\ nals \in Seq(Stream)
    <3>1. got \in Seq(Stream \ {<< >>}) /\ nals \in Seq(Bytes)
          BY TypesAre DEF AllInv, ReadingInv, CutInv
    <3>2. Stream \ {<< >>} \subseteq Stream /\ Bytes \subseteq Stream
          BY BytesInStream
    <3> QED BY <3>1, <3>2, SeqMonotonic
  <2>2. m \in Nat /\ n \in Nat /\ cut \in Nat
    <3>1. Len(framed) \in Nat /\ cut \in 0 .. Len(framed)
          BY LenProperties DEF AllInv, FramedInv, CutInv, Stream
    <3> QED BY <2>1, <3>1, LenProperties
  <2>3. /\ m <= n /\ \A k \in 1 .. m : got[k] = nals[k]
        /\ From(ends, m + 1) <= cut /\ (m < n => cut < ends[m + 1])
        BY DEF AllInv, CutInv
  <2>4. /\ ends \in Seq(Nat) /\ Len(ends) = n
        /\ \A k \in 1 .. n : \A j \in 1 .. k : ends[j] <= ends[k]
        BY DEF AllInv, FramedInv, Framed
  <2>5. IsPrefix(got, nals)
        BY <2>1, <2>3, PrefixIs
  <2> HIDE DEF m, n
  <2>6. ASSUME NEW k \in 1 .. n
        PROVE  k <= m <=> ends[k] <= cut
    <3>1. \A j \in 1 .. n : ends[j] \in Nat
          BY <2>4, ElementOfSeq
    <3>2. CASE k <= m
      <4>1. m \in 1 .. n /\ k \in 1 .. m /\ m + 1 # 1 /\ m + 1 - 1 = m
            BY <2>2, <2>3, <3>2
      <4>2. ends[k] <= ends[m] /\ ends[m] <= cut
            BY <2>3, <2>4, <4>1 DEF From
      <4> QED BY <2>2, <3>1, <3>2, <4>1, <4>2
    <3>3. CASE ~(k <= m)
      <4>1. m + 1 \in 1 .. k /\ m < n
            BY <2>2, <3>3
      <4>2. ends[m + 1] <= ends[k] /\ cut < ends[m + 1] /\ m + 1 \in 1 .. n
            BY <2>2, <2>3, <2>4, <4>1
      <4> QED BY <2>2, <3>1, <3>3, <4>2
    <3> QED BY <3>2, <3>3
  <2> QED BY <2>5, <2>6 DEF m, n
<1> QED BY <1>1, Invariant, PTL

=============================================================================
