------------------------- MODULE QuicTransferProofs -------------------------
(***************************************************************************)
(* Proofs about quic-send and quic-recv, for every number and size of NAL  *)
(* units: the type invariant, that what is written is what was read, and   *)
(* that a FIN means that all of it is.                                     *)
(*                                                                         *)
(* Nothing here is computed by recursion over the stream.  A field (the    *)
(* length or the data of a NAL unit) is appended in one step, so every     *)
(* field is whole; each one is followed by the next; and the place the     *)
(* receiver is at is known by the last byte it has read.                   *)
(***************************************************************************)
EXTENDS QuicTransfer, SequenceTheorems, TLAPS

FieldLength(i, part) == IF part = "length" THEN LengthBytes ELSE Size[i]
ByteOf(i, part, k)   == [nal |-> i, part |-> part, byte |-> k]
LastOf(i, part)      == ByteOf(i, part, FieldLength(i, part))

(* The first byte of the field after a field.                              *)
Following(i, part) == IF part = "length" THEN ByteOf(i, "data", 1) ELSE ByteOf(i + 1, "length", 1)

(* The stream is made of whole fields, one after the other.                *)
FieldIsWhole(k) ==
    LET b == stream[k]
        n == FieldLength(b.nal, b.part)
    IN  b.byte = 1 => /\ k + n - 1 <= Len(stream)
                      /\ \A j \in 1 .. n : stream[k + j - 1] = ByteOf(b.nal, b.part, j)

StreamInv ==
    /\ stream \in Seq(Byte)
    /\ \A k \in 1 .. Len(stream) : stream[k].nal \in 1 .. nal
    /\ Len(stream) > 0 => stream[1] = ByteOf(1, "length", 1)
    /\ \A k \in 1 .. Len(stream) : FieldIsWhole(k)
    /\ \A k \in 1 .. Len(stream) - 1 :
          stream[k] = LastOf(stream[k].nal, stream[k].part)
              => stream[k + 1] = Following(stream[k].nal, stream[k].part)

(* The stream ends with NAL unit i; nothing is in it if i is 0.            *)
EndsWith(i) ==
    IF i = 0 THEN stream = << >>
             ELSE Len(stream) > 0 /\ stream[Len(stream)] = LastOf(i, "data")

(***************************************************************************)
(* Between two NAL units the stream ends with the last one; the FIN comes  *)
(* after an open connection took all of them.                              *)
(***************************************************************************)
SenderInv ==
    /\ sender \in {"read", "length", "data", "count", "finish", "wait", "done"}
    /\ nal \in 0 .. Nals
    /\ senderNALCount \in 0 .. nal
    /\ sendDone \in BOOLEAN /\ sendClosed \in BOOLEAN /\ fin \in BOOLEAN
    /\ fin => sender \in {"wait", "done"} /\ EndsWith(nal) /\ senderNALCount = nal
    /\ sender = "read" => EndsWith(nal) /\ senderNALCount = nal
    /\ sender = "length" => nal > 0 /\ EndsWith(nal - 1) /\ senderNALCount = nal - 1
    /\ sender = "data" => /\ nal > 0 /\ senderNALCount = nal - 1
                          /\ Len(stream) > 0 /\ stream[Len(stream)] = LastOf(nal, "length")
    /\ sender = "count" => nal > 0 /\ EndsWith(nal) /\ senderNALCount = nal - 1
    /\ sender = "finish" /\ ~sendClosed => EndsWith(nal) /\ senderNALCount = nal

(* What the receiver has is a part of the stream, and all of it up to      *)
(* arrived unless a chunk was skipped.                                     *)
NetInv ==
    /\ arrived \in 0 .. Len(stream)
    /\ pending \in Seq(Nat) /\ read \in Seq(Nat)
    /\ \A k \in 1 .. Len(pending) : pending[k] < arrived
    /\ \A k \in 1 .. Len(read) : read[k] < arrived
    /\ Len(pending) + Len(read) <= arrived
    /\ finished \in BOOLEAN /\ closed \in BOOLEAN /\ quic \in BOOLEAN /\ lost \in BOOLEAN
    /\ eof \subseteq {"recv"}
    /\ finished => fin /\ arrived = Len(stream)
    /\ ~lost => /\ Len(pending) + Len(read) = arrived
                /\ \A k \in 1 .. Len(read) : read[k] = k - 1
                /\ \A k \in 1 .. Len(pending) : pending[k] = Len(read) + k - 1

RecvTypeInv ==
    /\ receiver \in {"length", "data", "done"}
    /\ from \in 0 .. Len(read)
    /\ nalLen \in 0 .. MaxLength
    /\ recvDone \in BOOLEAN /\ failed \in BOOLEAN
    /\ out \in Seq(Seq(Byte))

(* The last byte before the field it reads tells where the receiver is.    *)
PlaceInv ==
    ~lost =>
        /\ Len(out) <= nal
        /\ \A i \in 1 .. Len(out) : out[i] = Data(i)
        /\ receiver = "length" =>
              IF from = 0 THEN out = << >>
                          ELSE Len(out) > 0 /\ stream[from] = LastOf(Len(out), "data")
        /\ receiver = "data" =>
              /\ from > 0 /\ stream[from] = LastOf(Len(out) + 1, "length")
              /\ nalLen = Size[Len(out) + 1]

(***************************************************************************)
(* Before it ends, and unless it was stopped, the receiver's connection is *)
(* closed by the disconnection only; when it has ended it either got the   *)
(* FIN and everything before it, or will never get it.                     *)
(***************************************************************************)
EndInv ==
    /\ closed => recvDone \/ receiver = "done" \/ ~quic
    /\ receiver = "done" /\ ~recvDone /\ ~lost =>
          IF finished THEN ~failed /\ Len(out) = senderNALCount ELSE ~quic

Inv == StreamInv /\ SenderInv /\ NetInv /\ RecvTypeInv /\ PlaceInv /\ EndInv

-----------------------------------------------------------------------------
(* Fields and their bytes.                                                 *)

(* A function on 1 .. n is a sequence.                                     *)
LEMMA FunctionIsSequence ==
    ASSUME NEW S, NEW n \in Nat, NEW f \in [1 .. n -> S]
    PROVE  f \in Seq(S) /\ Len(f) = n
OBVIOUS

(* No field is empty.                                                      *)
LEMMA FieldLengthType ==
    ASSUME NEW i \in 1 .. Nals, NEW part \in {"length", "data"}
    PROVE  FieldLength(i, part) \in Nat \ {0}
BY QuicTransferAssumption DEF FieldLength

(* A byte says which one it is.                                            *)
LEMMA ByteFields ==
    ASSUME NEW i, NEW part, NEW k
    PROVE  /\ ByteOf(i, part, k).nal = i
           /\ ByteOf(i, part, k).part = part
           /\ ByteOf(i, part, k).byte = k
BY DEF ByteOf

(* What is appended to the stream is the field that is due.                *)
Due(i, part) ==
    IF stream = << >> THEN i = 1 /\ part = "length"
    ELSE \E a \in Int, q \in {"length", "data"} :
            stream[Len(stream)] = LastOf(a, q) /\ Following(a, q) = ByteOf(i, part, 1)

(* A field appended to whole fields makes whole fields.                    *)
LEMMA FieldAppended ==
    ASSUME StreamInv, nal \in 0 .. Nals, nal' = nal,
           NEW i \in 1 .. nal, NEW part \in {"length", "data"}, Due(i, part),
           NEW F \in Seq(Byte), Len(F) = FieldLength(i, part),
           \A k \in 1 .. Len(F) : F[k] = ByteOf(i, part, k),
           stream' = stream \o F
    PROVE  /\ StreamInv'
           /\ Len(stream') >= Len(stream) /\ Len(stream') > 0
           /\ \A k \in 1 .. Len(stream) : stream'[k] = stream[k]
           /\ stream'[Len(stream')] = LastOf(i, part)
<1>1. PICK n \in Nat \ {0} : n = FieldLength(i, part)
  <2>1. i \in 1 .. Nals
        BY QuicTransferAssumption
  <2> QED BY <2>1, FieldLengthType
<1>2. Len(F) = n
      BY <1>1
<1>3. \A k \in 1 .. n : F[k] = ByteOf(i, part, k)
      BY <1>2
<1>4. PICK m \in Nat : m = Len(stream) /\ stream \in Seq(Byte)
      BY LenProperties DEF StreamInv
<1> n \in Nat \ {0} /\ m \in Nat
    BY <1>1, <1>4
<1>6. /\ stream' \in Seq(Byte) /\ Len(stream') = m + n
      /\ \A k \in 1 .. m + n : stream'[k] = IF k <= m THEN stream[k] ELSE F[k - m]
      BY <1>2, <1>4, ConcatProperties
<1>7. ASSUME NEW k \in 1 .. m PROVE stream'[k] = stream[k]
      BY <1>6
<1>8. ASSUME NEW j \in 1 .. n PROVE stream'[m + j] = ByteOf(i, part, j)
  <2>1. m + j \in 1 .. m + n /\ ~(m + j <= m) /\ (m + j) - m = j
        OBVIOUS
  <2> QED BY <1>3, <1>6, <2>1
<1>9. ASSUME NEW k \in 1 .. m + n, k \notin 1 .. m
      PROVE  k - m \in 1 .. n /\ stream'[k] = ByteOf(i, part, k - m)
  <2>1. k - m \in 1 .. n /\ m + (k - m) = k
        BY <1>9
  <2> QED BY <1>8, <2>1
<1>5. /\ \A k \in 1 .. m : stream[k].nal \in 1 .. nal
      /\ m > 0 => stream[1] = ByteOf(1, "length", 1)
      /\ \A k \in 1 .. m - 1 :
            stream[k] = LastOf(stream[k].nal, stream[k].part)
                => stream[k + 1] = Following(stream[k].nal, stream[k].part)
      BY <1>4, Zenon DEF StreamInv
<1>16. stream'[m + 1] = ByteOf(i, part, 1) /\ stream'[m + n] = ByteOf(i, part, n)
  <2>1. 1 \in 1 .. n /\ n \in 1 .. n
        OBVIOUS
  <2> QED BY <1>8, <2>1, Zenon
<1>10. ASSUME NEW k \in 1 .. m + n PROVE stream'[k].nal \in 1 .. nal'
  <2>1. CASE k \in 1 .. m
        BY <1>5, <1>7, <2>1
  <2>2. CASE k \notin 1 .. m
    <3>1. stream'[k] = ByteOf(i, part, k - m)
          BY <1>9, <2>2
    <3>2. stream'[k].nal = i
          BY <3>1 DEF ByteOf
    <3> QED BY <3>2
  <2> QED BY <2>1, <2>2
<1>11. stream'[1] = ByteOf(1, "length", 1)
  <2>1. CASE m = 0
    <3>1. i = 1 /\ part = "length"
          BY <1>4, <2>1, EmptySeq DEF Due
    <3>2. m + 1 = 1
          BY <2>1
    <3> QED BY <1>16, <3>1, <3>2
  <2>2. CASE m > 0
    <3>1. 1 \in 1 .. m
          BY <2>2
    <3> QED BY <1>5, <1>7, <2>2, <3>1
  <2>3. m = 0 \/ m > 0
        OBVIOUS
  <2> QED BY <2>1, <2>2, <2>3, Zenon
<1>12. ASSUME NEW k \in 1 .. m + n PROVE FieldIsWhole(k)'
  <2>1. CASE k \in 1 .. m
    <3>1. PICK b : b = stream[k] /\ stream'[k] = b /\ b.nal \in 1 .. nal
          BY <1>4, <1>7, <2>1 DEF StreamInv
    <3>2. stream[k] \in Byte
          BY <1>4, <2>1, ElementOfSeq
    <3>3. PICK l \in Nat : l = FieldLength(b.nal, b.part)
      <4>1. b.nal \in 1 .. Nals /\ b.part \in {"length", "data"}
            BY <3>1, <3>2 DEF Byte
      <4> QED BY <4>1, FieldLengthType
    <3> l \in Nat
        BY <3>3
    <3>4. b.byte = 1 => /\ k + l - 1 <= m
                        /\ \A j \in 1 .. l : stream[k + j - 1] = ByteOf(b.nal, b.part, j)
          BY <1>4, <2>1, <3>1, <3>3 DEF StreamInv, FieldIsWhole
    <3>5. ASSUME b.byte = 1, NEW j \in 1 .. l
          PROVE  stream'[k + j - 1] = ByteOf(b.nal, b.part, j)
      <4>1. k + j - 1 \in 1 .. m
            BY <3>4, <3>5, <2>1
      <4> QED BY <1>7, <3>4, <3>5, <4>1
    <3>6. b.byte = 1 => k + l - 1 <= m + n
          BY <2>1, <3>4
    <3> QED BY <1>6, <3>1, <3>3, <3>5, <3>6 DEF FieldIsWhole
  <2>2. CASE k \notin 1 .. m
    <3>1. k - m \in 1 .. n /\ stream'[k] = ByteOf(i, part, k - m)
          BY <1>9, <2>2
    <3>2. /\ stream'[k].nal = i /\ stream'[k].part = part /\ stream'[k].byte = k - m
          BY <3>1, ByteFields
    <3>3. ASSUME k - m = 1, NEW j \in 1 .. n
          PROVE  stream'[k + j - 1] = ByteOf(i, part, j)
      <4>1. k + j - 1 = m + j
            BY <3>3
      <4> QED BY <1>8, <4>1
    <3>4. k - m = 1 => k + n - 1 <= m + n
          OBVIOUS
    <3> QED BY <1>1, <1>6, <3>2, <3>3, <3>4 DEF FieldIsWhole
  <2> QED BY <2>1, <2>2
<1>13. ASSUME NEW k \in 1 .. (m + n) - 1,
              stream'[k] = LastOf(stream'[k].nal, stream'[k].part)
       PROVE  stream'[k + 1] = Following(stream'[k].nal, stream'[k].part)
  <2>1. CASE k \in 1 .. m - 1
    <3>1. k \in 1 .. m /\ k + 1 \in 1 .. m
          BY <2>1
    <3>2. stream'[k] = stream[k] /\ stream'[k + 1] = stream[k + 1]
          BY <1>7, <3>1, Zenon
    <3> QED BY <1>5, <1>13, <2>1, <3>2
  <2>2. CASE k = m
    <3>1. m > 0 /\ stream'[k] = stream[Len(stream)] /\ stream # << >>
          BY <1>4, <1>7, <2>2, EmptySeq
    <3>2. PICK a \in Int, q \in {"length", "data"} :
               stream'[k] = LastOf(a, q) /\ Following(a, q) = ByteOf(i, part, 1)
          BY <3>1 DEF Due
    <3>3. stream'[k].nal = a /\ stream'[k].part = q
          BY <3>2, ByteFields DEF LastOf
    <3> QED BY <1>16, <2>2, <3>2, <3>3
  <2>3. CASE k > m
    <3>1. k \in 1 .. m + n /\ k \notin 1 .. m
          BY <2>3
    <3>2. stream'[k] = ByteOf(i, part, k - m)
          BY <1>9, <3>1
    <3>3. stream'[k].nal = i /\ stream'[k].part = part /\ stream'[k].byte = k - m
          BY <3>2, ByteFields
    <3>4. stream'[k] = ByteOf(i, part, n)
          BY <1>1, <1>13, <3>3 DEF LastOf
    <3>5. stream'[k].byte = n
          BY <3>4, ByteFields
    <3>6. k - m = n
          BY <3>3, <3>5, Zenon
    <3> QED BY <3>6
  <2>4. k \in 1 .. m - 1 \/ k = m \/ k > m
        OBVIOUS
  <2> QED BY <2>1, <2>2, <2>3, <2>4, Zenon
<1>14. StreamInv'
       BY <1>6, <1>10, <1>11, <1>12, <1>13 DEF StreamInv
<1>15. stream'[m + n] = LastOf(i, part)
       BY <1>1, <1>16 DEF LastOf
<1> QED BY <1>4, <1>6, <1>7, <1>14, <1>15

(* From the end of one field the next one can be read, whole.              *)
LEMMA FieldAhead ==
    ASSUME StreamInv, nal \in 0 .. Nals, NEW m \in 0 .. Len(stream) - 1,
           NEW i \in Int, NEW part \in {"length", "data"},
           IF m = 0 THEN i = 1 /\ part = "length"
           ELSE \E a \in Int, q \in {"length", "data"} :
                   stream[m] = LastOf(a, q) /\ Following(a, q) = ByteOf(i, part, 1)
    PROVE  /\ i \in 1 .. nal
           /\ FieldLength(i, part) \in Nat \ {0}
           /\ m + FieldLength(i, part) <= Len(stream)
           /\ \A j \in 1 .. FieldLength(i, part) : stream[m + j] = ByteOf(i, part, j)
<1>1. Len(stream) \in Nat /\ m + 1 \in 1 .. Len(stream) /\ Len(stream) > 0
      BY LenProperties DEF StreamInv
<1>2. stream[m + 1] = ByteOf(i, part, 1)
  <2>1. CASE m = 0
        BY <1>1, <2>1 DEF StreamInv
  <2>2. CASE m # 0
    <3>1. PICK a \in Int, q \in {"length", "data"} :
               stream[m] = LastOf(a, q) /\ Following(a, q) = ByteOf(i, part, 1)
          BY <2>2
    <3>2. stream[m].nal = a /\ stream[m].part = q
          BY <3>1, ByteFields DEF LastOf
    <3>3. m \in 1 .. Len(stream) - 1
          BY <1>1, <2>2
    <3> QED BY <3>1, <3>2, <3>3 DEF StreamInv
  <2> QED BY <2>1, <2>2
<1>3. stream[m + 1].nal = i /\ stream[m + 1].part = part /\ stream[m + 1].byte = 1
      BY <1>2, ByteFields
<1>4. i \in 1 .. nal
      BY <1>1, <1>3 DEF StreamInv
<1>5. i \in 1 .. Nals
      BY <1>4, QuicTransferAssumption
<1>6. PICK n \in Nat \ {0} : n = FieldLength(i, part)
      BY <1>5, FieldLengthType
<1>7. /\ (m + 1) + n - 1 <= Len(stream)
      /\ \A j \in 1 .. n : stream[(m + 1) + j - 1] = ByteOf(i, part, j)
      BY <1>1, <1>3, <1>6 DEF StreamInv, FieldIsWhole
<1>8. ASSUME NEW j \in 1 .. n PROVE stream[m + j] = ByteOf(i, part, j)
  <2>1. (m + 1) + j - 1 = m + j
        OBVIOUS
  <2> QED BY <1>7, <2>1
<1>9. m + n <= Len(stream)
      BY <1>1, <1>7
<1> QED BY <1>4, <1>6, <1>8, <1>9

-----------------------------------------------------------------------------
(* The invariant holds at the beginning.                                   *)

(* Nothing is in the stream and nothing is read at the beginning.          *)
LEMMA InvInit == Init => Inv
<1> SUFFICES ASSUME Init PROVE Inv
    OBVIOUS
<1>1. /\ Len(<< >>) = 0
      /\ << >> \in Seq(Byte) /\ << >> \in Seq(Nat) /\ << >> \in Seq(Seq(Byte))
      BY EmptySeq
<1>2. /\ arrived = 0 /\ pending = << >> /\ read = << >> /\ finished = FALSE /\ closed = FALSE
      /\ eof = {}
      BY DEF Init, Stream!Init
<1>3. 0 \in 0 .. Nals /\ 0 \in 0 .. MaxLength /\ 0 \in 0 .. 0
      BY QuicTransferAssumption
<1>4. StreamInv
      BY <1>1 DEF Init, StreamInv
<1>5. SenderInv
      BY <1>3 DEF Init, SenderInv, EndsWith
<1>6. NetInv
  <2>1. /\ stream = << >> /\ fin = FALSE /\ quic = TRUE /\ lost = FALSE
        /\ Len(stream) = 0 /\ Len(pending) = 0 /\ Len(read) = 0
        BY <1>1, <1>2 DEF Init
  <2>2. arrived \in 0 .. Len(stream) /\ Len(pending) + Len(read) = arrived
        BY <1>2, <2>1
  <2>3. pending \in Seq(Nat) /\ read \in Seq(Nat)
        BY <1>1, <1>2
  <2>4. \A k \in 1 .. Len(pending) : pending[k] < arrived /\ pending[k] = Len(read) + k - 1
        BY <2>1
  <2>5. \A k \in 1 .. Len(read) : read[k] < arrived /\ read[k] = k - 1
        BY <2>1
  <2>6. Len(pending) + Len(read) <= arrived
        BY <1>2, <2>1
  <2>7. /\ finished \in BOOLEAN /\ closed \in BOOLEAN /\ quic \in BOOLEAN /\ lost \in BOOLEAN
        /\ eof \subseteq {"recv"} /\ ~finished
        BY <1>2, <2>1
  <2> QED BY <2>2, <2>3, <2>4, <2>5, <2>6, <2>7, Zenon DEF NetInv
<1>7. RecvTypeInv
      BY <1>1, <1>2, <1>3 DEF Init, RecvTypeInv
<1>8. PlaceInv
      BY <1>1, <1>3 DEF Init, PlaceInv
<1>9. EndInv
      BY <1>2 DEF Init, EndInv
<1> QED BY <1>4, <1>5, <1>6, <1>7, <1>8, <1>9 DEF Inv

-----------------------------------------------------------------------------
(* quic-send.                                                              *)

(* The lengths of what was sent and received.                              *)
LEMMA Lengths ==
    ASSUME Inv
    PROVE  /\ Len(stream) \in Nat /\ Len(read) \in Nat /\ Len(pending) \in Nat /\ Len(out) \in Nat
           /\ arrived \in Nat /\ arrived <= Len(stream) /\ from \in Nat
           /\ from <= Len(read) /\ Len(read) <= arrived
           /\ Nals \in Nat /\ nal \in Nat /\ senderNALCount \in Nat /\ MaxLength \in Nat
           /\ LengthBytes \in Nat \ {0}
<1>1. Len(stream) \in Nat /\ Len(read) \in Nat /\ Len(pending) \in Nat /\ Len(out) \in Nat
      BY LenProperties DEF Inv, StreamInv, NetInv, RecvTypeInv
<1> QED BY <1>1, QuicTransferAssumption DEF Inv, SenderInv, NetInv, RecvTypeInv

(* What is appended to the stream leaves the receiver where it is.         *)
LEMMA GrowthKeeps ==
    ASSUME Inv, StreamInv', SenderInv', ~fin, Len(stream') >= Len(stream),
           \A k \in 1 .. Len(stream) : stream'[k] = stream[k],
           UNCHANGED <<nal, streamVars, netVars, recvVars>>
    PROVE  Inv'
<1>1. Len(stream') \in Nat
      BY LenProperties DEF StreamInv
<1>2. ~finished
      BY DEF Inv, NetInv
<1>3. NetInv'
      BY <1>1, <1>2, Lengths DEF Inv, NetInv, streamVars, netVars
<1>4. RecvTypeInv'
      BY DEF Inv, RecvTypeInv, streamVars, recvVars
<1>5. from > 0 => stream'[from] = stream[from]
      BY Lengths
<1>6. PlaceInv'
      BY <1>5, Lengths, SMTT(40) DEF Inv, PlaceInv, streamVars, netVars, recvVars, Data
<1>7. EndInv'
      BY <1>2 DEF Inv, EndInv, streamVars, netVars, recvVars
<1> QED BY <1>3, <1>4, <1>6, <1>7 DEF Inv

(* A write that fails ends the loop.                                       *)
LEMMA StoppedKeeps ==
    ASSUME Inv, ~fin, sendClosed', sendClosed = sendClosed', sender' = "finish",
           UNCHANGED <<nal, stream, sendDone, senderNALCount, fin, streamVars, netVars, recvVars>>
    PROVE  Inv'
<1> USE DEF Inv
<1>1. StreamInv'
      BY DEF StreamInv, FieldIsWhole
<1>2. SenderInv'
      BY DEF SenderInv
<1>3. NetInv'
      BY DEF NetInv, streamVars, netVars
<1>4. RecvTypeInv'
      BY DEF RecvTypeInv, streamVars, recvVars
<1>5. PlaceInv'
      BY DEF PlaceInv, netVars, recvVars
<1>6. EndInv'
      BY DEF EndInv, streamVars, netVars, recvVars
<1> QED BY <1>1, <1>2, <1>3, <1>4, <1>5, <1>6

(* The length of a NAL unit follows the data of the one before it.         *)
LEMMA WriteLengthKeeps == ASSUME Inv, WriteLength PROVE Inv'
<1> USE DEF Inv
<1>1. CASE sendClosed
  <2>1. /\ sender' = "finish" /\ sendClosed' /\ sendClosed = sendClosed' /\ ~fin
        /\ UNCHANGED <<nal, stream, sendDone, senderNALCount, fin, streamVars, netVars, recvVars>>
        BY <1>1 DEF WriteLength, Write, SendFrame, SenderInv
  <2> QED BY <2>1, StoppedKeeps
<1>2. CASE ~sendClosed
  <2> DEFINE F == Length(nal)
  <2>1. /\ sender = "length" /\ sender' = "data" /\ stream' = stream \o F
        /\ UNCHANGED <<nal, sendDone, sendClosed, senderNALCount, fin, streamVars, netVars, recvVars>>
        BY <1>2 DEF WriteLength, Write, SendFrame
  <2>2. nal \in 1 .. nal /\ nal \in 1 .. Nals /\ nal > 0 /\ EndsWith(nal - 1) /\ ~fin
        BY <2>1, Lengths DEF SenderInv
  <2>3. F \in Seq(Byte) /\ Len(F) = LengthBytes
    <3>1. F \in [1 .. LengthBytes -> Byte]
          BY <2>2, Lengths DEF Length, Byte
    <3> QED BY <3>1, Lengths, FunctionIsSequence
  <2>4. \A k \in 1 .. Len(F) : F[k] = ByteOf(nal, "length", k)
        BY <2>3 DEF Length, ByteOf
  <2>5. Len(F) = FieldLength(nal, "length")
        BY <2>3 DEF FieldLength
  <2>6. Due(nal, "length")
    <3>1. CASE nal = 1
      <4>1. stream = << >>
            BY <2>2, <3>1 DEF EndsWith
      <4> QED BY <3>1, <4>1 DEF Due
    <3>2. CASE nal # 1
      <4>1. /\ nal - 1 \in Int /\ nal - 1 # 0 /\ (nal - 1) + 1 = nal
            BY <3>2, Lengths
      <4>2. stream # << >> /\ stream[Len(stream)] = LastOf(nal - 1, "data")
            BY <2>2, <4>1, EmptySeq DEF EndsWith
      <4>3. Following(nal - 1, "data") = ByteOf(nal, "length", 1)
            BY <4>1 DEF Following
      <4> QED BY <4>1, <4>2, <4>3 DEF Due
    <3> QED BY <3>1, <3>2
  <2> HIDE DEF F
  <2>7. /\ StreamInv'
        /\ Len(stream') >= Len(stream) /\ Len(stream') > 0
        /\ \A k \in 1 .. Len(stream) : stream'[k] = stream[k]
        /\ stream'[Len(stream')] = LastOf(nal, "length")
        BY <2>1, <2>2, <2>3, <2>4, <2>5, <2>6, FieldAppended DEF SenderInv
  <2>8. SenderInv'
        BY <2>1, <2>2, <2>7 DEF SenderInv
  <2> QED BY <2>1, <2>2, <2>7, <2>8, GrowthKeeps
<1> QED BY <1>1, <1>2

(* The data of a NAL unit follows its length.                              *)
LEMMA WriteDataKeeps == ASSUME Inv, WriteData PROVE Inv'
<1> USE DEF Inv
<1>1. CASE sendClosed
  <2>1. /\ sender' = "finish" /\ sendClosed' /\ sendClosed = sendClosed' /\ ~fin
        /\ UNCHANGED <<nal, stream, sendDone, senderNALCount, fin, streamVars, netVars, recvVars>>
        BY <1>1 DEF WriteData, Write, SendFrame, SenderInv
  <2> QED BY <2>1, StoppedKeeps
<1>2. CASE ~sendClosed
  <2> DEFINE F == Data(nal)
  <2>1. /\ sender = "data" /\ sender' = "count" /\ stream' = stream \o F
        /\ UNCHANGED <<nal, sendDone, sendClosed, senderNALCount, fin, streamVars, netVars, recvVars>>
        BY <1>2 DEF WriteData, Write, SendFrame
  <2>2. nal \in 1 .. nal /\ nal \in 1 .. Nals /\ nal > 0 /\ ~fin
        BY <2>1, Lengths DEF SenderInv
  <2>3. Size[nal] \in Nat
        BY <2>2, QuicTransferAssumption
  <2>4. F \in Seq(Byte) /\ Len(F) = Size[nal]
    <3>1. F \in [1 .. Size[nal] -> Byte]
          BY <2>2, <2>3 DEF Data, Byte
    <3> QED BY <2>3, <3>1, FunctionIsSequence
  <2>5. \A k \in 1 .. Len(F) : F[k] = ByteOf(nal, "data", k)
        BY <2>4 DEF Data, ByteOf
  <2>6. Len(F) = FieldLength(nal, "data")
        BY <2>4 DEF FieldLength
  <2>7. Due(nal, "data")
    <3>1. stream # << >> /\ stream[Len(stream)] = LastOf(nal, "length") /\ nal \in Int
          BY <2>1, <2>2, EmptySeq DEF SenderInv
    <3>2. Following(nal, "length") = ByteOf(nal, "data", 1)
          BY DEF Following
    <3> QED BY <3>1, <3>2 DEF Due
  <2> HIDE DEF F
  <2>8. /\ StreamInv'
        /\ Len(stream') >= Len(stream) /\ Len(stream') > 0
        /\ \A k \in 1 .. Len(stream) : stream'[k] = stream[k]
        /\ stream'[Len(stream')] = LastOf(nal, "data")
        BY <2>1, <2>2, <2>4, <2>5, <2>6, <2>7, FieldAppended DEF SenderInv
  <2>9. SenderInv'
        BY <2>1, <2>2, <2>8 DEF SenderInv, EndsWith
  <2> QED BY <2>1, <2>2, <2>8, <2>9, GrowthKeeps
<1> QED BY <1>1, <1>2

(* The other steps of quic-send leave the stream as it is.                 *)
LEMMA SenderKeeps ==
    ASSUME Inv, ReadNAL \/ Count \/ FinishStream \/ CloseSender \/ SignalSender \/ SenderDisconnected
    PROVE  Inv'
<1> USE DEF Inv
<1>1. UNCHANGED <<stream, streamVars, netVars, recvVars>>
      BY DEF ReadNAL, Count, FinishStream, CloseSender, SignalSender, SenderDisconnected, SendFrame
<1>2. /\ nal' \in Nat /\ nal <= nal'
      /\ fin => fin'
      /\ fin => senderNALCount' = senderNALCount
      BY Lengths DEF ReadNAL, Count, FinishStream, CloseSender, SignalSender, SenderDisconnected,
                     SenderInv
<1>3. StreamInv'
  <2>1. \A k \in 1 .. Len(stream) : stream[k].nal \in 1 .. nal'
        BY <1>2, Lengths DEF StreamInv
  <2> QED BY <1>1, <2>1 DEF StreamInv, FieldIsWhole
<1>4. SenderInv'
  <2> USE Lengths DEF SenderInv, EndsWith
  <2>1. CASE ReadNAL
        BY <1>1, <2>1 DEF ReadNAL
  <2>2. CASE Count
        BY <1>1, <2>2 DEF Count
  <2>3. CASE FinishStream
        BY <1>1, <2>3 DEF FinishStream
  <2>4. CASE CloseSender
        BY <1>1, <2>4 DEF CloseSender
  <2>5. CASE SignalSender
        BY <1>1, <2>5 DEF SignalSender
  <2>6. CASE SenderDisconnected
        BY <1>1, <2>6 DEF SenderDisconnected
  <2> QED BY <2>1, <2>2, <2>3, <2>4, <2>5, <2>6
<1>5. NetInv'
      BY <1>1, <1>2 DEF NetInv, streamVars, netVars
<1>6. RecvTypeInv'
      BY <1>1 DEF RecvTypeInv, streamVars, recvVars
<1>7. PlaceInv'
      BY <1>1, <1>2, Lengths DEF PlaceInv, netVars, recvVars
<1>8. EndInv'
      BY <1>1, <1>2 DEF EndInv, NetInv, streamVars, netVars, recvVars
<1> QED BY <1>3, <1>4, <1>5, <1>6, <1>7, <1>8

-----------------------------------------------------------------------------
(* The connection between them.                                            *)

(* Nothing of the sender or of the stream changes.                         *)
LEMMA SentUnchanged ==
    ASSUME StreamInv, SenderInv, UNCHANGED sendVars
    PROVE  StreamInv' /\ SenderInv'
<1>1. StreamInv'
      BY DEF StreamInv, FieldIsWhole, sendVars
<1>2. SenderInv'
      BY DEF SenderInv, EndsWith, sendVars
<1> QED BY <1>1, <1>2

(* The positions of the bytes that a chunk brings.                         *)
Chunk(a, b) == [k \in 1 .. b - a |-> a + k - 1]

(* The positions of a chunk, one by one.                                   *)
LEMMA ChunkType ==
    ASSUME NEW a \in Nat, NEW b \in Nat, a < b
    PROVE  /\ Chunk(a, b) \in Seq(Nat) /\ Len(Chunk(a, b)) = b - a
           /\ \A k \in 1 .. b - a : Chunk(a, b)[k] = a + k - 1
<1> DEFINE C == [k \in 1 .. b - a |-> a + k - 1]
<1>1. b - a \in Nat /\ \A k \in 1 .. b - a : a + k - 1 \in Nat
      OBVIOUS
<1>2. C \in [1 .. b - a -> Nat]
      BY <1>1
<1>3. C \in Seq(Nat) /\ Len(C) = b - a
      BY <1>1, <1>2, FunctionIsSequence
<1>4. \A k \in 1 .. b - a : C[k] = a + k - 1
      OBVIOUS
<1> QED BY <1>3, <1>4 DEF Chunk

(* Byte k of q is of p, or of the chunk behind it.                         *)
PlacedIn(p, q, a, b, k) ==
    \/ k \in 1 .. Len(p) /\ q[k] = p[k]
    \/ k > Len(p) /\ k - Len(p) \in 1 .. b - a /\ q[k] = a + (k - Len(p)) - 1

(* A chunk goes behind what is buffered.                                   *)
LEMMA ChunkAppended ==
    ASSUME NEW p \in Seq(Nat), NEW a \in Nat, NEW b \in Nat, a < b,
           NEW q, q = p \o Chunk(a, b)
    PROVE  /\ q \in Seq(Nat) /\ Len(q) = Len(p) + (b - a)
           /\ \A k \in 1 .. Len(q) : PlacedIn(p, q, a, b, k)
<1>5. PICK n \in Nat : n = Len(p)
      BY LenProperties
<1> n \in Nat
    BY <1>5
<1> DEFINE C == Chunk(a, b)
<1>6. /\ C \in Seq(Nat) /\ Len(C) = b - a /\ q = p \o C
      /\ \A k \in 1 .. b - a : C[k] = a + k - 1
      BY ChunkType
<1> HIDE DEF C
<1>7. /\ q \in Seq(Nat) /\ Len(q) = n + (b - a)
      /\ \A k \in 1 .. n + (b - a) : q[k] = IF k <= n THEN p[k] ELSE C[k - n]
  <2>1. /\ p \o C \in Seq(Nat) /\ Len(p \o C) = Len(p) + Len(C)
        /\ \A k \in 1 .. Len(p) + Len(C) : (p \o C)[k] = IF k <= Len(p) THEN p[k] ELSE C[k - Len(p)]
        BY <1>6, ConcatProperties
  <2> QED BY <1>5, <1>6, <2>1, Zenon
<1>8. ASSUME NEW k \in 1 .. n + (b - a)
      PROVE  PlacedIn(p, q, a, b, k)
  <2>1. CASE k <= n
        BY <1>5, <1>7, <2>1 DEF PlacedIn
  <2>2. CASE ~(k <= n)
    <3>1. k - n \in 1 .. b - a /\ k > n
          BY <1>5, <2>2
    <3> QED BY <1>5, <1>6, <1>7, <2>2, <3>1 DEF PlacedIn
  <2> QED BY <2>1, <2>2
<1> QED BY <1>5, <1>7, <1>8

(* A chunk that arrives is buffered behind the others, or skipped for      *)
(* good.                                                                   *)
LEMMA ArriveKeeps == ASSUME Inv, Arrive PROVE Inv'
<1> USE DEF Inv
<1>1. /\ ~finished /\ UNCHANGED <<sendVars, quic, recvVars, read, finished, closed, eof>>
      /\ arrived' \in arrived + 1 .. MaxStream /\ arrived' <= Len(stream)
      /\ lost' = (lost \/ pending' = pending)
      /\ pending' \in {pending, pending \o Chunk(arrived, arrived')}
      BY DEF Arrive, Stream!Arrive, Chunk
<1>2. StreamInv' /\ SenderInv'
      BY <1>1, SentUnchanged
<1>3. arrived' \in 0 .. Len(stream) /\ arrived' > arrived
      BY <1>1, Lengths
<1>4. /\ pending \in Seq(Nat) /\ read \in Seq(Nat) /\ arrived \in Nat /\ arrived' \in Nat
      /\ \A x \in Nat : x < arrived => x < arrived'
      BY <1>3, Lengths DEF NetInv
<1>5. /\ \A k \in 1 .. Len(pending) : pending[k] \in Nat /\ pending[k] < arrived
      /\ \A k \in 1 .. Len(read) : read[k] \in Nat /\ read[k] < arrived
      BY ElementOfSeq DEF NetInv
<1>6. /\ pending' \in Seq(Nat) /\ Len(pending') + Len(read) <= arrived'
      /\ \A k \in 1 .. Len(pending') : pending'[k] < arrived'
      /\ ~lost' => /\ Len(pending') + Len(read) = arrived'
                   /\ \A k \in 1 .. Len(pending') : pending'[k] = Len(read) + k - 1
  <2>1. CASE pending' = pending
    <3>1. lost' = TRUE
          BY <1>1, <2>1
    <3>2. Len(pending) + Len(read) <= arrived'
          BY <1>3, <1>4, Lengths DEF NetInv
    <3> QED BY <1>4, <1>5, <2>1, <3>1, <3>2
  <2>2. CASE pending' = pending \o Chunk(arrived, arrived')
    <3>1. PICK a \in Nat, b \in Nat, r \in Nat, n \in Nat :
              a = arrived /\ b = arrived' /\ r = Len(read) /\ n = Len(pending)
          BY <1>4, Lengths
    <3> a \in Nat /\ b \in Nat /\ r \in Nat /\ n \in Nat
        BY <3>1
    <3>2. a < b
          BY <1>3, <3>1
    <3>3. pending' = pending \o Chunk(a, b)
          BY <2>2, <3>1
    <3>4. /\ pending' \in Seq(Nat) /\ Len(pending') = n + (b - a)
          /\ \A k \in 1 .. Len(pending') :
                \/ k \in 1 .. n /\ pending'[k] = pending[k]
                \/ k > n /\ k - n \in 1 .. b - a /\ pending'[k] = a + (k - n) - 1
      <4>1. PICK p \in Seq(Nat) : p = pending
            BY <1>4
      <4> p \in Seq(Nat)
          BY <4>1
      <4>5. PICK q : q = p \o Chunk(a, b)
            OBVIOUS
      <4>2. /\ q \in Seq(Nat) /\ Len(q) = Len(p) + (b - a)
            /\ \A k \in 1 .. Len(q) : PlacedIn(p, q, a, b, k)
            BY <3>2, <4>5, ChunkAppended, ZenonT(60)
      <4>4. q = pending'
            BY <3>3, <4>1, <4>5
      <4>3. n = Len(p)
            BY <3>1, <4>1
      <4> QED BY <4>1, <4>2, <4>3, <4>4 DEF PlacedIn
    <3>5. PICK l \in Nat : l = Len(pending') /\ l = n + (b - a)
          BY <3>2, <3>4
    <3> l \in Nat
        BY <3>5
    <3>6. ASSUME NEW k \in 1 .. l PROVE pending'[k] < b
      <4>1. CASE k \in 1 .. n /\ pending'[k] = pending[k]
        <5>1. PICK x \in Nat : x = pending[k] /\ x < b
              BY <1>4, <1>5, <3>1, <4>1
        <5> QED BY <4>1, <5>1
      <4>2. CASE k > n /\ k - n \in 1 .. b - a /\ pending'[k] = a + (k - n) - 1
            BY <4>2
      <4> QED BY <3>4, <3>5, <4>1, <4>2
    <3>7. /\ n + r <= a
          /\ ~lost' => /\ n + r = a
                       /\ \A k \in 1 .. n : pending[k] = r + k - 1
          BY <1>1, <3>1 DEF NetInv
    <3>8. ASSUME ~lost', NEW k \in 1 .. l PROVE pending'[k] = r + k - 1
      <4>1. CASE k \in 1 .. n /\ pending'[k] = pending[k]
            BY <3>7, <3>8, <4>1
      <4>2. CASE k > n /\ k - n \in 1 .. b - a /\ pending'[k] = a + (k - n) - 1
        <5>1. n + r = a
              BY <3>7, <3>8
        <5> QED BY <4>2, <5>1
      <4> QED BY <3>4, <3>5, <4>1, <4>2
    <3>9. l + r <= b /\ (n + r = a => l + r = b)
          BY <3>2, <3>5, <3>7
    <3> QED BY <3>1, <3>4, <3>5, <3>6, <3>7, <3>8, <3>9
  <2> QED BY <1>1, <2>1, <2>2
<1>7. lost' \in BOOLEAN /\ (lost => lost')
      BY <1>1 DEF NetInv
<1>8. \A k \in 1 .. Len(read) : read[k] < arrived'
      BY <1>4, <1>5
<1>9. NetInv'
      BY <1>1, <1>3, <1>4, <1>6, <1>7, <1>8 DEF NetInv, sendVars
<1>10. RecvTypeInv' /\ PlaceInv' /\ EndInv'
       BY <1>1, <1>7 DEF RecvTypeInv, PlaceInv, EndInv, recvVars, sendVars
<1> QED BY <1>2, <1>9, <1>10

(* The FIN, and the close.                                                 *)
LEMMA EndsKeep ==
    ASSUME Inv, ArriveFin \/ ReceiverDisconnected \/ CloseReceiver \/ SignalReceiver
    PROVE  Inv'
<1> USE DEF Inv
<1>1. /\ UNCHANGED <<sendVars, arrived, pending, read, eof, lost, receiver, from, nalLen, out, failed>>
      /\ finished' \in {finished, TRUE} /\ closed' \in {closed, TRUE}
      /\ quic' \in {quic, FALSE} /\ recvDone' \in {recvDone, TRUE}
      /\ finished' = finished \/ (fin /\ arrived = Len(stream))
  <2>1. CASE ArriveFin
        BY <2>1 DEF ArriveFin, Stream!Finish, netVars, recvVars
  <2>2. CASE ReceiverDisconnected
        BY <2>2 DEF ReceiverDisconnected, Stream!Close, recvVars
  <2>3. CASE CloseReceiver
        BY <2>3 DEF CloseReceiver, Stream!Close, netVars, recvVars
  <2>4. CASE SignalReceiver
        BY <2>4 DEF SignalReceiver, Stream!Close, netVars, RecvFrame
  <2> QED BY <2>1, <2>2, <2>3, <2>4
<1>2. StreamInv' /\ SenderInv'
      BY <1>1, SentUnchanged
<1>3. NetInv'
      BY <1>1 DEF NetInv, sendVars
<1>4. RecvTypeInv'
      BY <1>1 DEF RecvTypeInv
<1>5. PlaceInv'
      BY <1>1 DEF PlaceInv, sendVars
<1>6. EndInv'
  <2>1. CASE ArriveFin
        BY <1>1, <2>1 DEF ArriveFin, Stream!Finish, EndInv, netVars, recvVars, sendVars
  <2>2. CASE ReceiverDisconnected
        BY <1>1, <2>2 DEF ReceiverDisconnected, Stream!Close, EndInv, recvVars, sendVars
  <2>3. CASE CloseReceiver
        BY <1>1, <2>3 DEF CloseReceiver, Stream!Close, EndInv, netVars, recvVars, sendVars
  <2>4. CASE SignalReceiver
        BY <1>1, <2>4 DEF SignalReceiver, Stream!Close, EndInv, netVars, RecvFrame, sendVars
  <2> QED BY <2>1, <2>2, <2>3, <2>4
<1> QED BY <1>2, <1>3, <1>4, <1>5, <1>6

-----------------------------------------------------------------------------
(* quic-recv.                                                              *)

(* x and y are d with the first n bytes of p behind it, and the rest of p. *)
Moved(p, d, n, x, y) ==
    /\ x \in Seq(Nat) /\ Len(x) = Len(d) + n
    /\ y \in Seq(Nat) /\ Len(y) = Len(p) - n
    /\ \A k \in 1 .. Len(d) : x[k] = d[k]
    /\ \A k \in 1 .. n : x[Len(d) + k] = p[k]
    /\ \A k \in 1 .. Len(p) - n : y[k] = p[n + k]

(* A Read moves the first bytes of what is buffered.                       *)
LEMMA TakeSplits ==
    ASSUME NEW p \in Seq(Nat), NEW d \in Seq(Nat), NEW n \in 1 .. Len(p),
           NEW x, x = d \o SubSeq(p, 1, n), NEW y, y = SubSeq(p, n + 1, Len(p))
    PROVE  Moved(p, d, n, x, y)
<1>1. PICK l \in Nat, e \in Nat : l = Len(p) /\ e = Len(d)
      BY LenProperties
<1> l \in Nat /\ e \in Nat /\ n \in 1 .. l
    BY <1>1
<1>2. \A k \in 1 .. l : p[k] \in Nat
      BY <1>1, ElementOfSeq
<1>3. PICK z : z = SubSeq(p, 1, n)
      OBVIOUS
<1>4. /\ z \in Seq(Nat) /\ Len(z) = n
      /\ \A k \in 1 .. n : z[k] = p[k]
  <2>1. \A k \in 1 .. n : p[k] \in Nat
        BY <1>2
  <2>2. /\ SubSeq(p, 1, n) \in Seq(Nat) /\ Len(SubSeq(p, 1, n)) = n
        /\ \A k \in 1 .. n : SubSeq(p, 1, n)[k] = p[k]
    <3>1. 1 \in Int /\ n \in Int /\ n - 1 + 1 = n /\ 1 <= n /\ \A k \in 1 .. n : 1 + k - 1 = k
          OBVIOUS
    <3> QED BY <2>1, <3>1, SubSeqProperties
  <2> QED BY <1>3, <2>2, Zenon
<1>5. /\ y \in Seq(Nat) /\ Len(y) = l - n
      /\ \A k \in 1 .. l - n : y[k] = p[n + k]
  <2>1. n + 1 \in Int /\ l \in Int /\ \A k \in n + 1 .. l : p[k] \in Nat
        BY <1>2
  <2>2. /\ y \in Seq(Nat)
        /\ Len(y) = IF n + 1 <= l THEN l - (n + 1) + 1 ELSE 0
        /\ \A k \in 1 .. l - (n + 1) + 1 : y[k] = p[(n + 1) + k - 1]
        BY <1>1, <2>1, SubSeqProperties
  <2>3. l - (n + 1) + 1 = l - n /\ (~(n + 1 <= l) => l - n = 0)
        OBVIOUS
  <2>4. \A k \in 1 .. l - n : (n + 1) + k - 1 = n + k
        OBVIOUS
  <2> QED BY <2>2, <2>3, <2>4
<1>6. /\ x \in Seq(Nat) /\ Len(x) = e + n
      /\ \A k \in 1 .. e + n : x[k] = IF k <= e THEN d[k] ELSE z[k - e]
  <2>1. /\ d \o z \in Seq(Nat) /\ Len(d \o z) = Len(d) + Len(z)
        /\ \A k \in 1 .. Len(d) + Len(z) : (d \o z)[k] = IF k <= Len(d) THEN d[k] ELSE z[k - Len(d)]
        BY <1>4, ConcatProperties
  <2>2. x = d \o z
        BY <1>3
  <2> QED BY <1>1, <1>4, <2>1, <2>2, Zenon
<1>7. \A k \in 1 .. e : x[k] = d[k]
      BY <1>6
<1>8. ASSUME NEW k \in 1 .. n PROVE x[e + k] = p[k]
  <2>1. e + k \in 1 .. e + n /\ ~(e + k <= e) /\ (e + k) - e = k
        OBVIOUS
  <2> QED BY <1>4, <1>6, <2>1
<1> QED BY <1>1, <1>5, <1>6, <1>7, <1>8 DEF Moved

(* Whatever part of the field is read, the receiver's place stays.         *)
LEMMA ReadFullKeeps == ASSUME Inv, ReadFull PROVE Inv'
<1> USE DEF Inv
<1>1. UNCHANGED <<sendVars, netVars, recvVars, arrived, finished, closed, eof>>
      BY DEF ReadFull, Stream!Take, RecvFrame
<1>2. PICK n \in 1 .. Len(pending) :
           read' = read \o SubSeq(pending, 1, n) /\ pending' = SubSeq(pending, n + 1, Len(pending))
      BY DEF ReadFull, Stream!Take
<1>3. PICK p \in Seq(Nat), d \in Seq(Nat) : p = pending /\ d = read
      BY DEF NetInv
<1>4. PICK x : x = read'
      OBVIOUS
<1>5. PICK y : y = pending'
      OBVIOUS
<1>6. PICK l \in Nat, e \in Nat, a \in Nat : l = Len(p) /\ e = Len(d) /\ a = arrived
      BY <1>3, Lengths
<1> n \in 1 .. l /\ l \in Nat /\ e \in Nat /\ a \in Nat /\ p \in Seq(Nat) /\ d \in Seq(Nat)
    BY <1>2, <1>3, <1>6
<1>7. x = d \o SubSeq(p, 1, n) /\ y = SubSeq(p, n + 1, Len(p)) /\ n \in 1 .. Len(p)
      BY <1>2, <1>3, <1>4, <1>5
<1>8. /\ x \in Seq(Nat) /\ Len(x) = e + n
      /\ y \in Seq(Nat) /\ Len(y) = l - n
      /\ \A k \in 1 .. e : x[k] = d[k]
      /\ \A k \in 1 .. n : x[e + k] = p[k]
      /\ \A k \in 1 .. l - n : y[k] = p[n + k]
  <2>1. Moved(p, d, n, x, y)
        BY <1>7, TakeSplits
  <2> QED BY <1>6, <2>1 DEF Moved
<1>9. /\ l + e <= a
      /\ \A k \in 1 .. l : p[k] < a
      /\ \A k \in 1 .. e : d[k] < a
      /\ ~lost => /\ l + e = a
                  /\ \A k \in 1 .. e : d[k] = k - 1
                  /\ \A k \in 1 .. l : p[k] = e + k - 1
      BY <1>3, <1>6 DEF NetInv
<1>10. ASSUME NEW k \in 1 .. e + n, k \notin 1 .. e PROVE k - e \in 1 .. n /\ e + (k - e) = k
       BY <1>10
<1>11. ASSUME NEW k \in 1 .. e + n PROVE x[k] < a /\ (~lost => x[k] = k - 1)
  <2>1. CASE k \in 1 .. e
        BY <1>8, <1>9, <2>1
  <2>2. CASE k \notin 1 .. e
    <3>1. k - e \in 1 .. n /\ k - e \in 1 .. l /\ e + (k - e) = k
          BY <1>10, <2>2
    <3>2. x[k] = p[k - e]
          BY <1>8, <3>1
    <3>3. ~lost => p[k - e] = e + (k - e) - 1
          BY <1>9, <3>1
    <3> QED BY <1>9, <3>1, <3>2, <3>3
  <2> QED BY <2>1, <2>2
<1>12. ASSUME NEW k \in 1 .. l - n PROVE y[k] < a /\ (~lost => y[k] = (e + n) + k - 1)
  <2>1. n + k \in 1 .. l /\ e + (n + k) - 1 = (e + n) + k - 1
        OBVIOUS
  <2>2. y[k] = p[n + k]
        BY <1>8
  <2>3. ~lost => p[n + k] = e + (n + k) - 1
        BY <1>9, <2>1
  <2> QED BY <1>9, <2>1, <2>2, <2>3
<1>13. (l - n) + (e + n) <= a /\ (l + e = a => (l - n) + (e + n) = a)
       BY <1>9
<1>14. StreamInv' /\ SenderInv'
       BY <1>1, SentUnchanged
<1>15. arrived' = a /\ lost' = lost /\ Len(read') = e + n /\ Len(pending') = l - n
       BY <1>1, <1>4, <1>5, <1>6, <1>8 DEF netVars
<1>16. /\ arrived' \in 0 .. Len(stream')
       /\ finished' \in BOOLEAN /\ closed' \in BOOLEAN /\ quic' \in BOOLEAN /\ lost' \in BOOLEAN
       /\ eof' \subseteq {"recv"}
       /\ finished' => fin' /\ arrived' = Len(stream')
       BY <1>1 DEF NetInv, netVars, sendVars
<1>17. NetInv'
       BY <1>4, <1>5, <1>8, <1>9, <1>11, <1>12, <1>13, <1>15, <1>16 DEF NetInv
<1>18. RecvTypeInv'
  <2>1. from \in 0 .. e /\ from' = from
        BY <1>1, <1>3, <1>6 DEF RecvTypeInv, recvVars
  <2>2. from' \in 0 .. Len(read')
        BY <1>15, <2>1
  <2> QED BY <1>1, <2>2 DEF RecvTypeInv, recvVars
<1>19. PlaceInv' /\ EndInv'
       BY <1>1 DEF PlaceInv, EndInv, recvVars, netVars, sendVars
<1> QED BY <1>14, <1>17, <1>18, <1>19

(***************************************************************************)
(* Where nothing was skipped, the field that starts at the receiver's      *)
(* place is the next one of NAL unit Len(out) + 1, and it is in the stream *)
(* whole as soon as its first byte is.                                     *)
(***************************************************************************)
LEMMA FieldHere ==
    ASSUME Inv, ~lost, receiver \in {"length", "data"}, from < Len(stream)
    PROVE  /\ Len(out) + 1 \in 1 .. nal
           /\ Wanted = FieldLength(Len(out) + 1, receiver) /\ Wanted \in Nat \ {0}
           /\ from + Wanted <= Len(stream)
           /\ \A j \in 1 .. Wanted : stream[from + j] = ByteOf(Len(out) + 1, receiver, j)
<1> USE DEF Inv
<1> DEFINE i == Len(out) + 1
<1>1. /\ i \in Int /\ Len(out) \in Int /\ from \in Nat /\ from \in 0 .. Len(stream) - 1
      /\ nal \in 0 .. Nals /\ StreamInv
      BY Lengths DEF SenderInv
<1>2. receiver = "length" /\ from = 0 => i = 1
  <2>1. receiver = "length" /\ from = 0 => out = << >>
        BY DEF PlaceInv
  <2> QED BY <2>1, EmptySeq
<1>3. receiver = "data" => from # 0 /\ stream[from] = LastOf(i, "length")
      BY <1>1 DEF PlaceInv
<1>4. receiver = "length" /\ from # 0 => stream[from] = LastOf(Len(out), "data")
      BY DEF PlaceInv
<1>5. Following(Len(out), "data") = ByteOf(i, "length", 1) /\ Following(i, "length") = ByteOf(i, "data", 1)
      BY DEF Following
<1>6. Wanted = FieldLength(i, receiver)
      BY DEF Wanted, FieldLength, PlaceInv
<1> HIDE DEF i, Inv
<1>7. IF from = 0 THEN i = 1 /\ receiver = "length"
      ELSE \E b \in Int, q \in {"length", "data"} :
              stream[from] = LastOf(b, q) /\ Following(b, q) = ByteOf(i, receiver, 1)
  <2>1. CASE receiver = "length"
        BY <1>1, <1>2, <1>4, <1>5, <2>1
  <2>2. CASE receiver = "data"
        BY <1>1, <1>3, <1>5, <2>2
  <2> QED BY <2>1, <2>2
<1>8. /\ i \in 1 .. nal
      /\ FieldLength(i, receiver) \in Nat \ {0}
      /\ from + FieldLength(i, receiver) <= Len(stream)
      /\ \A j \in 1 .. FieldLength(i, receiver) : stream[from + j] = ByteOf(i, receiver, j)
      BY <1>1, <1>7, FieldAhead
<1> QED BY <1>6, <1>8 DEF i

(* What it reads of it is it.                                              *)
LEMMA FieldBytes ==
    ASSUME Inv, ~lost, receiver \in {"length", "data"}, Got = Wanted
    PROVE  /\ from < Len(stream)
           /\ Len(read) = from + Wanted
           /\ Field = [k \in 1 .. Wanted |-> ByteOf(Len(out) + 1, receiver, k)]
<1>1. /\ from \in Nat /\ Len(read) \in Nat /\ Len(stream) \in Nat
      /\ Len(read) <= Len(stream) /\ from <= Len(read)
      BY Lengths
<1>2. Wanted \in Nat \ {0}
  <2>1. CASE receiver = "length"
        BY <2>1, QuicTransferAssumption DEF Wanted
  <2>2. CASE receiver = "data"
    <3>1. /\ from > 0 /\ stream[from] = LastOf(Len(out) + 1, "length")
          /\ nalLen = Size[Len(out) + 1]
          BY <2>2 DEF Inv, PlaceInv
    <3>2. from \in 1 .. Len(stream)
          BY <1>1, <3>1
    <3>3. stream[from].nal \in 1 .. nal
          BY <3>2 DEF Inv, StreamInv
    <3>4. stream[from].nal = Len(out) + 1
          BY <3>1, ByteFields DEF LastOf
    <3>5. Len(out) + 1 \in 1 .. Nals
      <4>1. nal \in 0 .. Nals
            BY DEF Inv, SenderInv
      <4> QED BY <3>3, <3>4, <4>1, QuicTransferAssumption
    <3>6. Size[Len(out) + 1] \in 1 .. MaxLength
          BY <3>5, QuicTransferAssumption
    <3>7. Size[Len(out) + 1] \in Nat \ {0}
          BY <3>6, QuicTransferAssumption
    <3> QED BY <2>2, <3>1, <3>7 DEF Wanted
  <2> QED BY <2>1, <2>2
<1>3. PICK w \in Nat \ {0} : w = Wanted
      BY <1>2
<1>4. PICK f \in Nat, r \in Nat, m \in Nat : f = from /\ r = Len(read) /\ m = Len(stream)
      BY <1>1
<1> w \in Nat \ {0} /\ f \in Nat /\ r \in Nat /\ m \in Nat
    BY <1>3, <1>4
<1>5. r - f = w /\ r <= m
      BY <1>1, <1>3, <1>4 DEF Got
<1>6. r = f + w /\ f < m
      BY <1>5
<1>7. \A j \in 1 .. w : stream[f + j] = ByteOf(Len(out) + 1, receiver, j)
      BY <1>3, <1>4, <1>6, FieldHere
<1>8. ASSUME NEW k \in 1 .. w PROVE stream[read[f + k] + 1] = ByteOf(Len(out) + 1, receiver, k)
  <2>1. f + k \in 1 .. r
        BY <1>6
  <2>2. read[f + k] = (f + k) - 1
        BY <1>4, <2>1 DEF Inv, NetInv
  <2>3. ((f + k) - 1) + 1 = f + k
        OBVIOUS
  <2>4. read[f + k] + 1 = f + k
        BY <2>2, <2>3
  <2> QED BY <1>7, <2>4
<1>9. Field = [k \in 1 .. w |-> ByteOf(Len(out) + 1, receiver, k)]
  <2>1. Field = [k \in 1 .. w |-> stream[read[f + k] + 1]]
        BY <1>3, <1>4 DEF Field
  <2> QED BY <1>8, <2>1
<1> QED BY <1>3, <1>4, <1>6, <1>9

(***************************************************************************)
(* At the end of the stream the receiver is between two NAL units, and the *)
(* sender's count is the number it wrote.                                  *)
(***************************************************************************)
LEMMA ReadEOFKeeps == ASSUME Inv, ReadEOF PROVE Inv'
<1> USE DEF Inv
<1>1. /\ UNCHANGED <<sendVars, netVars, arrived, pending, read, finished, closed>>
      /\ UNCHANGED <<from, nalLen, recvDone, out>>
      /\ eof' = eof \cup {"recv"} /\ pending = << >> /\ (finished \/ closed)
      /\ receiver \in {"length", "data"} /\ Got < Wanted /\ receiver' = "done"
      /\ failed' = (receiver = "data" \/ Got > 0)
      BY DEF ReadEOF, Stream!End, RecvFrame
<1>2. StreamInv' /\ SenderInv'
      BY <1>1, SentUnchanged
<1>3. NetInv'
  <2>1. eof' \subseteq {"recv"}
        BY <1>1 DEF NetInv
  <2> QED BY <1>1, <2>1 DEF NetInv, netVars, sendVars
<1>4. RecvTypeInv'
  <2>1. failed' \in BOOLEAN
        BY <1>1
  <2> QED BY <1>1, <2>1 DEF RecvTypeInv
<1>5. PlaceInv'
      BY <1>1 DEF PlaceInv, netVars, sendVars
<1>6. ASSUME ~recvDone, ~lost, finished PROVE ~failed' /\ Len(out) = senderNALCount
  <2>1. /\ from \in Nat /\ Len(read) \in Nat /\ Len(stream) \in Nat
        /\ from <= Len(read)
        BY Lengths
  <2>2. Len(read) = Len(stream) /\ fin /\ EndsWith(nal) /\ senderNALCount = nal
    <3>1. Len(pending) = 0
          BY <1>1, EmptySeq
    <3> QED BY <1>6, <2>1, <3>1 DEF NetInv, SenderInv
  <2>3. from = Len(stream)
    <3>1. SUFFICES ASSUME from < Len(stream) PROVE FALSE
          BY <2>1, <2>2
    <3>2. Wanted \in Nat /\ from + Wanted <= Len(stream)
          BY <1>1, <1>6, <3>1, FieldHere
    <3> QED BY <1>1, <2>1, <2>2, <3>2 DEF Got
  <2>4. Got = 0
        BY <2>1, <2>2, <2>3 DEF Got
  <2>7. receiver # "data" => ~failed'
    <3>1. ~(Got > 0)
          BY <2>4
    <3>2. failed' = (receiver = "data" \/ Got > 0)
          BY <1>1
    <3> QED BY <3>1, <3>2, Zenon
  <2>5. CASE nal = 0
    <3>1. from = 0
          BY <2>2, <2>3, <2>5, EmptySeq DEF EndsWith
    <3>2. receiver # "data"
          BY <1>6, <3>1 DEF PlaceInv
    <3>3. out = << >>
          BY <1>1, <1>6, <3>1, <3>2 DEF PlaceInv
    <3>4. Len(out) = senderNALCount
          BY <2>2, <2>5, <3>3, EmptySeq
    <3> QED BY <2>7, <3>2, <3>4
  <2>6. CASE nal # 0
    <3>1. from > 0 /\ stream[from] = LastOf(nal, "data")
          BY <2>2, <2>3, <2>6 DEF EndsWith
    <3>2. stream[from].nal = nal /\ stream[from].part = "data"
          BY <3>1, ByteFields DEF LastOf
    <3>3. receiver # "data"
      <4>1. SUFFICES ASSUME receiver = "data" PROVE FALSE
            OBVIOUS
      <4>2. stream[from] = LastOf(Len(out) + 1, "length")
            BY <1>6, <4>1 DEF PlaceInv
      <4>3. stream[from].part = "length"
            BY <4>2, ByteFields DEF LastOf
      <4> QED BY <3>2, <4>3
    <3>4. stream[from] = LastOf(Len(out), "data")
          BY <1>1, <1>6, <3>1, <3>3 DEF PlaceInv
    <3>5. stream[from].nal = Len(out)
          BY <3>4, ByteFields DEF LastOf
    <3>6. Len(out) = senderNALCount
          BY <2>2, <3>2, <3>5
    <3> QED BY <2>7, <3>3, <3>6
  <2> QED BY <2>5, <2>6
<1>7. closed /\ ~recvDone => ~quic
      BY <1>1 DEF EndInv
<1>8. EndInv'
      BY <1>1, <1>6, <1>7 DEF EndInv, netVars, sendVars
<1> QED BY <1>2, <1>3, <1>4, <1>5, <1>8

(* The length that is decoded is the one that was sent.                    *)
LEMMA HaveLengthKeeps == ASSUME Inv, HaveLength PROVE Inv'
<1> USE DEF Inv
<1>1. /\ UNCHANGED <<sendVars, netVars, streamVars, recvDone, out>>
      /\ receiver = "length" /\ Got = LengthBytes
      BY DEF HaveLength, RecvFrame
<1>2. PICK n \in Decoded :
          \/ /\ n \in 1 .. MaxLength /\ nalLen' = n /\ receiver' = "data"
             /\ from' = Len(read) /\ failed' = failed
          \/ /\ n \notin 1 .. MaxLength /\ receiver' = "done" /\ failed' = TRUE
             /\ nalLen' = nalLen /\ from' = from
      BY DEF HaveLength
<1>3. StreamInv' /\ SenderInv'
      BY <1>1, SentUnchanged
<1>4. NetInv'
      BY <1>1 DEF NetInv, sendVars, netVars, streamVars
<1>5. RecvTypeInv'
  <2>1. from' \in 0 .. Len(read') /\ nalLen' \in 0 .. MaxLength
        BY <1>1, <1>2, Lengths DEF RecvTypeInv, streamVars
  <2>2. receiver' \in {"length", "data", "done"} /\ failed' \in BOOLEAN
        BY <1>2 DEF RecvTypeInv
  <2> QED BY <1>1, <2>1, <2>2 DEF RecvTypeInv
<1>6. ASSUME ~lost
      PROVE  /\ receiver' = "data" /\ from' = Len(read) /\ nalLen' = Size[Len(out) + 1]
             /\ Len(read) > 0 /\ stream[Len(read)] = LastOf(Len(out) + 1, "length")
  <2> DEFINE i == Len(out) + 1
  <2>1. Wanted = LengthBytes /\ Got = Wanted /\ receiver \in {"length", "data"}
        BY <1>1 DEF Wanted
  <2>2. /\ from < Len(stream) /\ Len(read) = from + LengthBytes
        /\ Field = [k \in 1 .. LengthBytes |-> ByteOf(i, "length", k)]
        BY <1>1, <1>6, <2>1, FieldBytes
  <2>3. /\ i \in 1 .. nal
        /\ \A j \in 1 .. LengthBytes : stream[from + j] = ByteOf(i, "length", j)
        BY <1>1, <1>6, <2>1, <2>2, FieldHere
  <2>4. 1 \in 1 .. LengthBytes /\ LengthBytes \in 1 .. LengthBytes /\ from \in Nat
        BY Lengths
  <2>5. Field[1].nal = i
        BY <2>2, <2>4, ByteFields
  <2>6. Field = Length(i)
        BY <2>2 DEF Length, ByteOf
  <2>7. n = Size[i]
        BY <1>2, <2>5, <2>6 DEF Decoded
  <2>8. Size[i] \in 1 .. MaxLength
    <3>1. i \in 1 .. Nals
      <4>1. nal \in 0 .. Nals
            BY DEF SenderInv
      <4> QED BY <2>3, <4>1, QuicTransferAssumption
    <3> QED BY <3>1, QuicTransferAssumption
  <2>9. stream[from + LengthBytes] = LastOf(i, "length")
        BY <2>3, <2>4 DEF LastOf, FieldLength
  <2>10. Len(read) > 0
         BY <2>2, <2>4, Lengths
  <2> QED BY <1>2, <2>2, <2>7, <2>8, <2>9, <2>10
<1>7. PlaceInv'
      BY <1>1, <1>6 DEF PlaceInv, netVars, sendVars, streamVars
<1>8. EndInv'
      BY <1>1, <1>6 DEF EndInv, netVars, sendVars, streamVars
<1> QED BY <1>3, <1>4, <1>5, <1>7, <1>8

(* The data that is written is the data that was sent.                     *)
LEMMA WriteNALKeeps == ASSUME Inv, WriteNAL PROVE Inv'
<1> USE DEF Inv
<1>1. /\ UNCHANGED <<sendVars, netVars, streamVars, nalLen, recvDone, failed>>
      /\ receiver = "data" /\ Got = nalLen /\ out' = Append(out, Field) /\ from' = Len(read)
      /\ receiver' = IF recvDone THEN "done" ELSE "length"
      BY DEF WriteNAL, RecvFrame
<1>2. StreamInv' /\ SenderInv'
      BY <1>1, SentUnchanged
<1>3. NetInv'
      BY <1>1 DEF NetInv, sendVars, netVars, streamVars
<1>4. Field \in Seq(Byte)
  <2>1. PICK g \in Nat : g = Got
        BY Lengths DEF Got
  <2> g \in Nat
      BY <2>1
  <2>2. ASSUME NEW k \in 1 .. g PROVE stream[read[from + k] + 1] \in Byte
    <3>1. PICK f \in Nat, r \in Nat, a \in Nat, m \in Nat :
              f = from /\ r = Len(read) /\ a = arrived /\ m = Len(stream) /\ a <= m
          BY Lengths
    <3> f \in Nat /\ r \in Nat /\ a \in Nat /\ m \in Nat
        BY <3>1
    <3>2. r - f = g
          BY <2>1, <3>1 DEF Got
    <3>3. f + k \in 1 .. r
          BY <3>2
    <3>4. PICK x \in Nat : x = read[f + k] /\ x < a
      <4>1. read[f + k] \in Nat
            BY <3>1, <3>3, ElementOfSeq DEF NetInv
      <4> QED BY <3>1, <3>3, <4>1 DEF NetInv
    <3> x \in Nat
        BY <3>4
    <3>5. x + 1 \in 1 .. m
          BY <3>1, <3>4
    <3>6. stream[x + 1] \in Byte
          BY <3>1, <3>5, ElementOfSeq DEF StreamInv
    <3> QED BY <3>1, <3>4, <3>6
  <2>3. Field \in [1 .. g -> Byte]
    <3>1. Field = [k \in 1 .. g |-> stream[read[from + k] + 1]]
          BY <2>1 DEF Field
    <3> QED BY <2>2, <3>1
  <2> QED BY <2>3, FunctionIsSequence
<1>5. /\ out' \in Seq(Seq(Byte)) /\ Len(out') = Len(out) + 1
      /\ \A k \in 1 .. Len(out) : out'[k] = out[k]
      /\ out'[Len(out) + 1] = Field
      BY <1>1, <1>4, AppendProperties DEF RecvTypeInv
<1>6. RecvTypeInv'
  <2>1. from' \in 0 .. Len(read')
        BY <1>1, Lengths DEF streamVars
  <2>2. receiver' \in {"length", "data", "done"}
        BY <1>1
  <2> QED BY <1>1, <1>5, <2>1, <2>2 DEF RecvTypeInv
<1>7. ASSUME ~lost
      PROVE  /\ Len(out) + 1 <= nal /\ Field = Data(Len(out) + 1)
             /\ Len(read) > 0 /\ stream[Len(read)] = LastOf(Len(out) + 1, "data")
  <2> DEFINE i == Len(out) + 1
  <2>1. Wanted = nalLen /\ Got = Wanted /\ receiver \in {"length", "data"} /\ nalLen = Size[i]
        BY <1>1, <1>7 DEF Wanted, PlaceInv
  <2>2. /\ from < Len(stream) /\ Len(read) = from + Size[i]
        /\ Field = [k \in 1 .. Size[i] |-> ByteOf(i, "data", k)]
        BY <1>1, <1>7, <2>1, FieldBytes
  <2>3. /\ i \in 1 .. nal /\ Size[i] \in Nat \ {0}
        /\ \A j \in 1 .. Size[i] : stream[from + j] = ByteOf(i, "data", j)
        BY <1>1, <1>7, <2>1, <2>2, FieldHere
  <2>4. Size[i] \in 1 .. Size[i] /\ from \in Nat
        BY <2>3, Lengths
  <2>5. stream[from + Size[i]] = LastOf(i, "data")
        BY <2>3, <2>4 DEF LastOf, FieldLength
  <2>6. Field = Data(i)
        BY <2>2 DEF Data, ByteOf
  <2>7. Len(read) > 0 /\ i <= nal
        BY <2>2, <2>3, <2>4, Lengths
  <2> QED BY <2>2, <2>5, <2>6, <2>7
<1>8. PlaceInv'
  <2> SUFFICES ASSUME ~lost' PROVE PlaceInv'
      BY DEF PlaceInv
  <2>1. ~lost
        BY <1>1 DEF netVars
  <2>2. Len(out') <= nal'
        BY <1>1, <1>5, <1>7, <2>1 DEF sendVars
  <2>3. ASSUME NEW k \in 1 .. Len(out') PROVE out'[k] = Data(k)
    <3>1. Len(out) \in Nat
          BY Lengths
    <3>2. CASE k \in 1 .. Len(out)
          BY <1>5, <2>1, <3>2 DEF PlaceInv
    <3>3. CASE k \notin 1 .. Len(out)
      <4>1. k = Len(out) + 1
            BY <1>5, <3>1, <3>3
      <4> QED BY <1>5, <1>7, <2>1, <4>1
    <3> QED BY <3>2, <3>3
  <2>4. /\ from' > 0 /\ stream' = stream /\ stream'[from'] = LastOf(Len(out'), "data")
        /\ Len(out') > 0 /\ receiver' # "data" /\ from' # 0
        BY <1>1, <1>5, <1>7, <2>1, Lengths DEF sendVars
  <2> QED BY <2>2, <2>3, <2>4 DEF PlaceInv
<1>9. EndInv'
      BY <1>1 DEF EndInv, netVars, sendVars, streamVars
<1> QED BY <1>2, <1>3, <1>6, <1>8, <1>9

-----------------------------------------------------------------------------
(* The theorems.                                                           *)

(* Every step keeps the invariant.                                         *)
LEMMA InvNext == ASSUME Inv, [Next]_vars PROVE Inv'
<1>1. CASE UNCHANGED vars
  <2> USE <1>1 DEF Inv, vars
  <2>1. StreamInv' /\ SenderInv'
        BY SentUnchanged
  <2>2. NetInv' /\ RecvTypeInv'
        BY DEF NetInv, RecvTypeInv, sendVars, netVars, streamVars, recvVars
  <2>3. PlaceInv' /\ EndInv'
        BY DEF PlaceInv, EndInv, sendVars, netVars, streamVars, recvVars
  <2> QED BY <2>1, <2>2, <2>3
<1>2. CASE Send \/ SignalSender \/ SenderDisconnected
      BY <1>2, SenderKeeps, WriteLengthKeeps, WriteDataKeeps DEF Send
<1>3. CASE Arrive
      BY <1>3, ArriveKeeps
<1>4. CASE ArriveFin \/ ReceiverDisconnected \/ SignalReceiver
      BY <1>4, EndsKeep
<1>5. CASE Receive
      BY <1>5, ReadFullKeeps, ReadEOFKeeps, HaveLengthKeeps, WriteNALKeeps, EndsKeep DEF Receive
<1> QED BY <1>1, <1>2, <1>3, <1>4, <1>5 DEF Next

(* Every variable of the video path has its type.                          *)
THEOREM TypeCorrect == Spec => []TypeOK
<1>1. Inv => TypeOK
  <2> SUFFICES ASSUME Inv PROVE TypeOK
      OBVIOUS
  <2> QED BY Lengths DEF TypeOK, Inv, StreamInv, SenderInv, NetInv, RecvTypeInv
<1> QED BY <1>1, InvInit, InvNext, PTL DEF Spec

(***************************************************************************)
(* For every number and size of NAL units: what quic-recv writes are the   *)
(* first NAL units quic-send was given, whole, unless a chunk was skipped. *)
(***************************************************************************)
THEOREM OutputCorrect == Spec => []OutputIsPrefix
<1>1. Inv => OutputIsPrefix
      BY DEF Inv, PlaceInv, OutputIsPrefix
<1> QED BY <1>1, InvInit, InvNext, PTL DEF Spec

(* A receiver that got the FIN ends between two NAL units, with as many as *)
(* the sender counted.                                                     *)
THEOREM FinCorrect == Spec => []FinMeansComplete
<1>1. Inv => FinMeansComplete
      BY DEF Inv, EndInv, FinMeansComplete
<1> QED BY <1>1, InvInit, InvNext, PTL DEF Spec
=============================================================================
