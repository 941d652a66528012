-------------------------- MODULE PqReceiveProofs --------------------------
(***************************************************************************)
(* Proofs about PqReceive, for every number of readers and closing threads *)
(* and every size of the buffer: the type invariant, the order and the     *)
(* conservation of the stream, and that no reader sleeps through a close   *)
(* or through news.                                                        *)
(***************************************************************************)
EXTENDS PqReceive, SequenceTheorems, TLAPS

(***************************************************************************)
(* pthread_cond_signal: at most it turns sleepers into woken threads, and  *)
(* if anyone sleeps it wakes someone.                                      *)
(***************************************************************************)
LEMMA SignalEffect ==
    ASSUME NEW S, NEW T, "woken" \in T,
           NEW pc \in [S -> T], NEW q \in Signal(pc)
    PROVE  /\ q \in [S -> T]
           /\ \A r \in S : q[r] = pc[r] \/ (pc[r] = "waiting" /\ q[r] = "woken")
           /\ (\E r \in S : pc[r] = "waiting") => \E r \in S : q[r] = "woken"
BY DEF Signal

(***************************************************************************)
(* pthread_cond_broadcast leaves nobody asleep and touches nobody else.    *)
(***************************************************************************)
LEMMA BroadcastEffect ==
    ASSUME NEW S, NEW T, "woken" \in T, NEW pc \in [S -> T]
    PROVE  /\ Broadcast(pc) \in [S -> T]
           /\ \A r \in S : Broadcast(pc)[r] # "waiting"
           /\ \A r \in S : pc[r] # "waiting" => Broadcast(pc)[r] = pc[r]
BY DEF Broadcast

-----------------------------------------------------------------------------

(***************************************************************************)
(* Every variable of the receiving half keeps its type, and the indices    *)
(* stay inside recv_buffer.                                                *)
(***************************************************************************)
LEMMA TypeInit == Init => TypeOK
<1> SUFFICES ASSUME Init PROVE TypeOK
    OBVIOUS
<1>1. CloseTypeOK
      BY DEF Init, CloseInit, CloseTypeOK, CloserPc
<1>2. recv_buffer \in [Cells -> Int]
      BY DEF Init, NoByte
<1>3. reader \in [Readers -> ReaderPc] /\ dreader \in [DgramReaders -> DreaderPc]
      BY DEF Init, ReaderPc, DreaderPc
<1>4. << >> \in Seq(Int) /\ << >> \in Seq(Nat)
      BY EmptySeq, Zenon
<1>5. recv_read \in 0 .. RecvSize /\ recv_write \in 0 .. RecvSize /\ recv_read <= recv_write
      BY PqReceiveAssumption DEF Init
<1> QED BY <1>1, <1>2, <1>3, <1>4, <1>5 DEF Init, TypeOK

(* A signal or a broadcast leaves the stream readers where readers can be. *)
LEMMA WokenReader ==
    ASSUME TypeOK, reader' \in Signal(reader) \/ reader' = Broadcast(reader)
    PROVE  reader' \in [Readers -> ReaderPc]
<1>1. reader \in [Readers -> ReaderPc] /\ "woken" \in ReaderPc
      BY DEF TypeOK, ReaderPc
<1> QED BY <1>1 DEF Signal, Broadcast

(* The same for the datagram readers.                                      *)
LEMMA WokenDreader ==
    ASSUME TypeOK, dreader' \in Signal(dreader) \/ dreader' = Broadcast(dreader)
    PROVE  dreader' \in [DgramReaders -> DreaderPc]
<1>1. dreader \in [DgramReaders -> DreaderPc] /\ "woken" \in DreaderPc
      BY DEF TypeOK, DreaderPc
<1> QED BY <1>1 DEF Signal, Broadcast

(***************************************************************************)
(* What a successful pq_recv_stream does: it hands over the first n unread *)
(* cells, n at least one, and then either both indices are 0 or recv_read  *)
(* has moved past the cells that were read.                                *)
(***************************************************************************)
LEMMA CopiedBytes ==
    ASSUME TypeOK, NEW r \in Readers, NEW b \in 1 .. MaxRead, Copy(r, b)
    PROVE  \E n \in 1 .. recv_write - recv_read :
              /\ read' \in Seq(Int)
              /\ Len(read') = Len(read) + n
              /\ \A i \in 1 .. Len(read) : read'[i] = read[i]
              /\ \A i \in Len(read) + 1 .. Len(read) + n :
                    read'[i] = recv_buffer[recv_read + (i - Len(read)) - 1]
              /\ \/ /\ n = recv_write - recv_read
                    /\ recv_read' = 0 /\ recv_write' = 0
                 \/ /\ n < recv_write - recv_read
                    /\ recv_read' = recv_read + n /\ recv_write' = recv_write
<1> DEFINE n == Smaller(recv_write - recv_read, b)
           out == [k \in 1 .. n |-> recv_buffer[recv_read + k - 1]]
<1>1. /\ recv_read \in 0 .. RecvSize
      /\ recv_write \in 0 .. RecvSize
      /\ recv_buffer \in [Cells -> Int]
      /\ read \in Seq(Int)
      /\ RecvSize \in Nat /\ MaxRead \in Nat
      BY PqReceiveAssumption DEF TypeOK
<1>2. /\ recv_read < recv_write
      /\ read' = read \o out
      /\ recv_read' = IF recv_read + n >= recv_write THEN 0 ELSE recv_read + n
      /\ recv_write' = IF recv_read + n >= recv_write THEN 0 ELSE recv_write
      BY DEF Copy, Return
<1>3. n \in 1 .. recv_write - recv_read
      BY <1>1, <1>2 DEF Smaller
<1>4. out \in [1 .. n -> Int]
      BY <1>1, <1>3 DEF Cells
<1> HIDE DEF n
<1>5. out \in Seq(Int) /\ Len(out) = n
  <2> HIDE DEF out
  <2>1. out \in Seq(Int)
        BY <1>3, <1>4, SeqDef
  <2> QED BY <2>1, <1>3, <1>4, LenProperties
<1>6. \A k \in 1 .. n : out[k] = recv_buffer[recv_read + k - 1]
      OBVIOUS
<1> HIDE DEF out
<1>7. /\ read' \in Seq(Int)
      /\ Len(read') = Len(read) + n
      /\ \A i \in 1 .. Len(read) + n :
            read'[i] = IF i <= Len(read) THEN read[i] ELSE out[i - Len(read)]
      BY <1>1, <1>2, <1>5, ConcatProperties
<1>8. Len(read) \in Nat
      BY <1>1, LenProperties
<1>9. \A i \in Len(read) + 1 .. Len(read) + n :
         read'[i] = recv_buffer[recv_read + (i - Len(read)) - 1]
  <2> TAKE i \in Len(read) + 1 .. Len(read) + n
  <2>1. i \in 1 .. Len(read) + n /\ ~(i <= Len(read)) /\ i - Len(read) \in 1 .. n
        BY <1>3, <1>8, <1>1
  <2>2. read'[i] = out[i - Len(read)]
        BY <2>1, <1>7
  <2> QED BY <2>1, <2>2, <1>6
<1>10. \A i \in 1 .. Len(read) : read'[i] = read[i]
       BY <1>1, <1>3, <1>7, <1>8
<1>11. \/ n = recv_write - recv_read /\ recv_read' = 0 /\ recv_write' = 0
       \/ /\ n < recv_write - recv_read
          /\ recv_read' = recv_read + n /\ recv_write' = recv_write
       BY <1>1, <1>2, <1>3
<1> WITNESS n \in 1 .. recv_write - recv_read
<1> QED BY <1>7, <1>9, <1>10, <1>11

(* Every step keeps the types.                                             *)
LEMMA TypeNext == TypeOK /\ [Next]_vars => TypeOK'
<1> SUFFICES ASSUME TypeOK, [Next]_vars PROVE TypeOK'
    OBVIOUS
<1> USE PqReceiveAssumption DEF TypeOK, CloseTypeOK, CloserPc, closeVars,
        streamVars, dgramVars
<1>1. ASSUME NEW n \in 0 .. MaxChunk, NEW fin \in BOOLEAN, StreamData(n, fin)
      PROVE  TypeOK'
  <2>1. CASE n = 0
        BY <1>1, <2>1 DEF StreamData
  <2>2. CASE n > 0
    <3>1. AppendChunk(n) /\ reader' \in Signal(reader)
          BY <1>1, <2>2 DEF StreamData, AppendChunk
    <3>2. reader' \in [Readers -> ReaderPc]
          BY <3>1, WokenReader
    <3>3. /\ recv_buffer' \in [Cells -> Int]
          /\ recv_write' \in 0 .. RecvSize
          /\ recv_read <= recv_write'
          /\ dropped' \in Nat
          /\ arrived' \in Nat
          BY <3>1 DEF AppendChunk, Put, Cells
    <3> QED BY <1>1, <3>2, <3>3 DEF StreamData
  <2> QED BY <2>1, <2>2
<1>2. CASE StreamFin
      BY <1>2, WokenReader DEF StreamFin
<1>3. CASE Datagram
      BY <1>3, WokenDreader DEF Datagram
<1>4. CASE CallbackClose
      BY <1>4, WokenReader DEF CallbackClose, CallbackCloseFlags
<1>5. CASE CallbackCloseDgram
      BY <1>5, WokenDreader DEF CallbackCloseDgram
<1>6. ASSUME NEW t \in Closers, TakeConnection(t) PROVE TypeOK'
      BY <1>6 DEF TakeConnection, CloseTake
<1>7. ASSUME NEW t \in Closers, CallQuicClose(t) PROVE TypeOK'
      BY <1>7 DEF CallQuicClose, QuicClose
<1>8. ASSUME NEW t \in Closers, WakeReaders(t) PROVE TypeOK'
      BY <1>8, WokenReader DEF WakeReaders, LeaveRecvSection
<1>9. ASSUME NEW t \in Closers, WakeDgramReaders(t) PROVE TypeOK'
      BY <1>9, WokenDreader DEF WakeDgramReaders, LeaveDgramSection
<1>10. ASSUME NEW r \in Readers, Wait(r) \/ ReturnEOF(r) \/ SpuriousWake(r)
       PROVE  TypeOK'
       BY <1>10 DEF Wait, ReturnEOF, SpuriousWake, ReaderPc
<1>11. ASSUME NEW r \in Readers, NEW b \in 1 .. MaxRead, Copy(r, b) PROVE TypeOK'
  <2>1. /\ recv_read' \in 0 .. RecvSize
        /\ recv_write' \in 0 .. RecvSize
        /\ recv_read' <= recv_write'
        /\ read' \in Seq(Int)
    <3>1. PICK n \in 1 .. recv_write - recv_read :
             /\ read' \in Seq(Int)
             /\ \/ recv_read' = 0 /\ recv_write' = 0
                \/ recv_read' = recv_read + n /\ recv_write' = recv_write
          BY <1>11, CopiedBytes
    <3> QED BY <3>1
  <2>2. reader' \in [Readers -> ReaderPc]
        BY <1>11 DEF Copy, Return, ReaderPc
  <2> QED BY <1>11, <2>1, <2>2 DEF Copy, Return
<1>12. ASSUME NEW d \in DgramReaders, ReadDgram(d) PROVE TypeOK'
  <2>1. CASE DgramLock(d)
        BY <2>1 DEF DgramLock, DreaderPc
  <2>2. CASE DgramTest(d)
    <3>1. dgrams_read' \in Seq(Nat)
          BY <2>2, AppendProperties DEF DgramTest
    <3> QED BY <2>2, <3>1 DEF DgramTest, DreaderPc
  <2>3. CASE DgramWait(d)
        BY <2>3 DEF DgramWait, DreaderPc
  <2>4. CASE DgramSpuriousWake(d)
        BY <2>4 DEF DgramSpuriousWake, DreaderPc
  <2> QED BY <1>12, <2>1, <2>2, <2>3, <2>4 DEF ReadDgram
<1>13. CASE UNCHANGED vars
       BY <1>13 DEF vars
<1> QED
    BY <1>1, <1>2, <1>3, <1>4, <1>5, <1>6, <1>7, <1>8, <1>9, <1>10, <1>11, <1>12, <1>13
    DEF Next, Network, Close, Read

(* Every variable has its type, and the read index never passes the write  *)
(* index.                                                                  *)
THEOREM TypeCorrect == Spec => []TypeOK
BY TypeInit, TypeNext, PTL DEF Spec

-----------------------------------------------------------------------------
(***************************************************************************)
(* The order and the conservation of the stream.  Neither is inductive     *)
(* alone: a chunk that is appended must come after everything read or      *)
(* buffered, so StreamInv adds that no offset reaches arrived.             *)
(***************************************************************************)
BelowArrived ==
    /\ \A i \in 1 .. Len(read) : read[i] < arrived
    /\ \A k \in Unread : recv_buffer[k] < arrived

StreamInv == BelowArrived /\ InOrder /\ NothingElseLost

(* Nothing has arrived at the beginning.                                   *)
LEMMA StreamInit == Init => StreamInv
<1> SUFFICES ASSUME Init PROVE StreamInv
    OBVIOUS
<1>1. Len(read) = 0
      BY DEF Init
<1>2. Unread = {}
      BY DEF Init, Unread
<1> QED BY <1>1, <1>2 DEF Init, StreamInv, BelowArrived, InOrder, NothingElseLost

(* A chunk is put behind the unread bytes or skipped whole.                *)
LEMMA StreamAppend ==
    ASSUME TypeOK, StreamInv, NEW n \in 1 .. MaxChunk, AppendChunk(n),
           UNCHANGED <<recv_read, read>>
    PROVE  StreamInv'
<1>1. /\ recv_read \in 0 .. RecvSize /\ recv_write \in 0 .. RecvSize
      /\ recv_read <= recv_write
      /\ recv_buffer \in [Cells -> Int]
      /\ arrived \in Nat /\ dropped \in Nat
      /\ RecvSize \in Nat /\ MaxChunk \in Nat /\ n \in Nat /\ n > 0
      BY PqReceiveAssumption DEF TypeOK
<1>2. Len(read) \in Nat /\ \A i \in 1 .. Len(read) : read[i] \in Int
      BY LenProperties, ElementOfSeq DEF TypeOK
<1>3. arrived' = arrived + n /\ recv_read' = recv_read /\ read' = read
      BY DEF AppendChunk
<1>4. CASE /\ n <= RecvSize - recv_write
           /\ Put(n)
           /\ UNCHANGED dropped
  <2>0. recv_write' = recv_write + n
        BY <1>4 DEF Put
  <2>1. Unread' = recv_read .. (recv_write + n) - 1
        BY <1>3, <2>0 DEF Unread
  <2>2. \A k \in Unread : k \in Unread' /\ recv_buffer'[k] = recv_buffer[k]
        BY <1>1, <1>4, <2>0, <2>1 DEF Put, Unread, Cells
  <2>3. \A k \in Unread' : k \notin Unread =>
           /\ k >= recv_write
           /\ recv_buffer'[k] = arrived + (k - recv_write)
        BY <1>1, <1>4, <2>0, <2>1 DEF Put, Unread, Cells
  <2>4. \A k \in Unread' : k \in Int /\ (k \in Unread => recv_buffer[k] \in Int /\ k < recv_write)
        BY <1>1, <2>1 DEF Unread, Cells
  <2>5. BelowArrived'
        BY <1>1, <1>2, <1>3, <2>1, <2>2, <2>3, <2>4 DEF StreamInv, BelowArrived
  <2>6. InOrder'
    <3>1. ASSUME NEW i \in 1 .. Len(read), NEW k \in Unread'
          PROVE  read[i] < recv_buffer'[k]
          BY <1>1, <1>2, <2>2, <2>3, <2>4 DEF StreamInv, BelowArrived, InOrder
    <3>2. ASSUME NEW k \in Unread', NEW l \in Unread', k < l
          PROVE  recv_buffer'[k] < recv_buffer'[l]
      <4>1. CASE l \in Unread
        <5>1. k \in Unread
              BY <1>1, <1>3, <2>0, <3>2, <4>1 DEF Unread
        <5> QED BY <2>2, <3>2, <4>1, <5>1 DEF StreamInv, InOrder
      <4>2. CASE l \notin Unread /\ k \in Unread
        <5>1. l \in Int /\ l >= recv_write /\ recv_buffer'[l] = arrived + (l - recv_write)
              BY <2>3, <2>4, <4>2
        <5>2. recv_buffer'[k] = recv_buffer[k] /\ recv_buffer[k] \in Int
              BY <2>2, <2>4, <4>2
        <5>3. recv_buffer[k] < arrived
              BY <4>2 DEF StreamInv, BelowArrived
        <5> QED BY <1>1, <5>1, <5>2, <5>3
      <4>3. CASE l \notin Unread /\ k \notin Unread
            BY <1>1, <2>3, <2>4, <3>2, <4>3
      <4> QED BY <4>1, <4>2, <4>3
    <3>3. \A i, j \in 1 .. Len(read) : i < j => read[i] < read[j]
          BY DEF StreamInv, InOrder
    <3> QED BY <1>3, <3>1, <3>2, <3>3 DEF InOrder
  <2>7. NothingElseLost'
    <3>1. /\ arrived = Len(read) + (recv_write - recv_read) + dropped
          /\ dropped = 0 => \A i \in 1 .. Len(read) : read[i] = i - 1
          /\ dropped = 0 => \A k \in Unread : recv_buffer[k] = Len(read) + (k - recv_read)
          BY DEF StreamInv, NothingElseLost
    <3>2. arrived' = Len(read) + (recv_write' - recv_read) + dropped
          BY <1>1, <1>2, <1>3, <2>0, <3>1
    <3>3. ASSUME dropped = 0, NEW k \in Unread'
          PROVE  recv_buffer'[k] = Len(read) + (k - recv_read)
      <4>1. CASE k \in Unread
            BY <2>2, <3>1, <3>3, <4>1
      <4>2. CASE k \notin Unread
        <5>1. k \in Int /\ recv_buffer'[k] = arrived + (k - recv_write)
              BY <2>3, <2>4, <4>2
        <5>2. arrived = Len(read) + (recv_write - recv_read)
              BY <1>1, <1>2, <3>1, <3>3
        <5> QED BY <1>1, <1>2, <5>1, <5>2
      <4> QED BY <4>1, <4>2
    <3> QED BY <1>3, <1>4, <3>1, <3>2, <3>3 DEF NothingElseLost
  <2> QED BY <2>5, <2>6, <2>7 DEF StreamInv
<1>5. CASE /\ dropped' = dropped + n
           /\ UNCHANGED <<recv_buffer, recv_write>>
  <2>1. Unread' = Unread /\ recv_buffer' = recv_buffer /\ recv_write' = recv_write
        BY <1>3, <1>5 DEF Unread
  <2>2. \A k \in Unread : recv_buffer[k] \in Int
        BY <1>1 DEF Unread, Cells
  <2>3. dropped' # 0 /\ dropped' \in Nat
        BY <1>1, <1>5
  <2> QED BY <1>1, <1>2, <1>3, <1>5, <2>1, <2>2, <2>3
          DEF StreamInv, BelowArrived, InOrder, NothingElseLost
<1> QED BY <1>4, <1>5 DEF AppendChunk

(* The cells a reader copies are the first unread ones, also when both     *)
(* indices return to 0.                                                    *)
LEMMA StreamCopy ==
    ASSUME TypeOK, StreamInv, NEW r \in Readers, NEW b \in 1 .. MaxRead, Copy(r, b)
    PROVE  StreamInv'
<1>1. PICK n \in 1 .. recv_write - recv_read :
         /\ read' \in Seq(Int)
         /\ Len(read') = Len(read) + n
         /\ \A i \in 1 .. Len(read) : read'[i] = read[i]
         /\ \A i \in Len(read) + 1 .. Len(read) + n :
               read'[i] = recv_buffer[recv_read + (i - Len(read)) - 1]
         /\ \/ /\ n = recv_write - recv_read
               /\ recv_read' = 0 /\ recv_write' = 0
            \/ /\ n < recv_write - recv_read
               /\ recv_read' = recv_read + n /\ recv_write' = recv_write
      BY CopiedBytes
<1>2. /\ recv_read \in Nat /\ recv_write \in Nat /\ recv_write <= RecvSize
      /\ RecvSize \in Nat
      /\ recv_buffer \in [Cells -> Int]
      /\ arrived \in Nat /\ dropped \in Nat
      BY PqReceiveAssumption DEF TypeOK
<1>3. n \in Nat /\ n >= 1
      BY <1>2
<1>4. Len(read) \in Nat /\ \A i \in 1 .. Len(read) : read[i] \in Int
      BY LenProperties, ElementOfSeq DEF TypeOK
<1>5. arrived' = arrived /\ dropped' = dropped /\ recv_buffer' = recv_buffer
      BY DEF Copy, Return
<1>6. \A k \in Unread : k \in Int /\ recv_buffer[k] \in Int
      BY <1>2 DEF Unread, Cells
<1>7. \A i \in 1 .. Len(read') : \/ i \in 1 .. Len(read) /\ read'[i] = read[i]
                                \/ /\ i \in Len(read) + 1 .. Len(read) + n
                                   /\ recv_read + (i - Len(read)) - 1 \in Unread
                                   /\ read'[i] = recv_buffer[recv_read + (i - Len(read)) - 1]
      BY <1>1, <1>2, <1>3, <1>4 DEF Unread
<1>8. \A k \in Unread' : k \in Unread /\ k >= recv_read + n
      BY <1>1, <1>2, <1>3 DEF Unread
<1>9. BelowArrived'
      BY <1>5, <1>7, <1>8 DEF StreamInv, BelowArrived
<1>10. InOrder'
  <2>1. ASSUME NEW i \in 1 .. Len(read'), NEW j \in 1 .. Len(read'), i < j
        PROVE  read'[i] < read'[j]
        BY <1>2, <1>3, <1>4, <1>6, <1>7, <2>1 DEF StreamInv, InOrder
  <2>2. ASSUME NEW i \in 1 .. Len(read'), NEW k \in Unread'
        PROVE  read'[i] < recv_buffer'[k]
    <3>1. k \in Unread /\ k >= recv_read + n /\ recv_buffer'[k] = recv_buffer[k]
          BY <1>5, <1>8
    <3>2. CASE i \in 1 .. Len(read) /\ read'[i] = read[i]
          BY <3>1, <3>2 DEF StreamInv, InOrder
    <3>3. ASSUME NEW j \in Unread, j = recv_read + (i - Len(read)) - 1,
                 i \in Len(read) + 1 .. Len(read) + n, read'[i] = recv_buffer[j]
          PROVE  read'[i] < recv_buffer'[k]
      <4>1. j < k
            BY <1>2, <1>3, <1>4, <1>6, <3>1, <3>3
      <4> QED BY <3>1, <3>3, <4>1 DEF StreamInv, InOrder
    <3> QED BY <1>7, <3>2, <3>3
  <2>3. ASSUME NEW k \in Unread', NEW l \in Unread', k < l
        PROVE  recv_buffer'[k] < recv_buffer'[l]
        BY <1>5, <1>8, <2>3 DEF StreamInv, InOrder
  <2> QED BY <2>1, <2>2, <2>3 DEF InOrder
<1>11. NothingElseLost'
  <2>1. arrived' = Len(read') + (recv_write' - recv_read') + dropped'
    <3>1. arrived = Len(read) + (recv_write - recv_read) + dropped
          BY DEF StreamInv, NothingElseLost
    <3>2. recv_write' - recv_read' = (recv_write - recv_read) - n
          BY <1>1, <1>2, <1>3
    <3> QED BY <1>1, <1>2, <1>3, <1>4, <1>5, <3>1, <3>2
  <2>2. ASSUME dropped' = 0, NEW i \in 1 .. Len(read')
        PROVE  read'[i] = i - 1
        BY <1>2, <1>3, <1>4, <1>5, <1>7, <2>2 DEF StreamInv, NothingElseLost
  <2>3. ASSUME dropped' = 0, NEW k \in Unread'
        PROVE  recv_buffer'[k] = Len(read') + (k - recv_read')
    <3>1. k \in Unread /\ recv_read' = recv_read + n
          BY <1>1, <1>2, <1>8 DEF Unread
    <3>2. recv_buffer[k] = Len(read) + (k - recv_read)
          BY <1>5, <2>3, <3>1 DEF StreamInv, NothingElseLost
    <3> QED BY <1>1, <1>2, <1>3, <1>4, <1>5, <1>6, <3>1, <3>2
  <2> QED BY <2>1, <2>2, <2>3 DEF NothingElseLost
<1> QED BY <1>9, <1>10, <1>11 DEF StreamInv

(* Every step keeps the stream.                                            *)
LEMMA StreamNext == TypeOK /\ StreamInv /\ [Next]_vars => StreamInv'
<1> SUFFICES ASSUME TypeOK, StreamInv, [Next]_vars PROVE StreamInv'
    OBVIOUS
<1> DEFINE kept == <<recv_buffer, recv_read, recv_write, arrived, dropped, read>>
<1>1. CASE UNCHANGED kept
      BY <1>1 DEF StreamInv, BelowArrived, InOrder, NothingElseLost, Unread
<1>2. ASSUME NEW n \in 0 .. MaxChunk, NEW fin \in BOOLEAN, StreamData(n, fin)
      PROVE  StreamInv'
  <2>1. CASE n = 0
        BY <1>1, <1>2, <2>1 DEF StreamData
  <2>2. CASE n > 0
        BY <1>2, <2>2, StreamAppend, PqReceiveAssumption DEF StreamData
  <2> QED BY <2>1, <2>2, PqReceiveAssumption
<1>3. ASSUME NEW r \in Readers, NEW b \in 1 .. MaxRead, Copy(r, b)
      PROVE  StreamInv'
      BY <1>3, StreamCopy
<1>4. CASE StreamFin \/ Datagram \/ CallbackClose \/ CallbackCloseDgram
      BY <1>1, <1>4 DEF StreamFin, Datagram, CallbackClose, CallbackCloseDgram, streamVars
<1>5. ASSUME NEW t \in Closers, Close(t) PROVE StreamInv'
      BY <1>1, <1>5 DEF Close, TakeConnection, CallQuicClose, WakeReaders,
                        WakeDgramReaders, streamVars
<1>6. ASSUME NEW r \in Readers, Wait(r) \/ ReturnEOF(r) \/ SpuriousWake(r)
      PROVE  StreamInv'
      BY <1>1, <1>6 DEF Wait, ReturnEOF, SpuriousWake
<1>7. ASSUME NEW d \in DgramReaders, ReadDgram(d) PROVE StreamInv'
      BY <1>1, <1>7 DEF ReadDgram, DgramLock, DgramTest, DgramWait, DgramSpuriousWake, streamVars
<1>8. CASE UNCHANGED vars
      BY <1>1, <1>8 DEF vars, streamVars
<1> QED
    BY <1>2, <1>3, <1>4, <1>5, <1>6, <1>7, <1>8 DEF Next, Network, Read

(***************************************************************************)
(* The application reads the stream in order, no byte twice, whatever the  *)
(* sizes of chunks, of reads and of the buffer.                            *)
(***************************************************************************)
THEOREM OrderCorrect == Spec => []InOrder
<1>1. TypeOK /\ StreamInv => InOrder
      BY DEF StreamInv
<1> QED BY TypeInit, TypeNext, StreamInit, StreamNext, <1>1, PTL DEF Spec

(***************************************************************************)
(* Only the append that finds no room loses bytes, and as long as it has   *)
(* not happened the reader gets exactly the stream.                        *)
(***************************************************************************)
THEOREM ConservationCorrect == Spec => []NothingElseLost
<1>1. TypeOK /\ StreamInv => NothingElseLost
      BY DEF StreamInv
<1> QED BY TypeInit, TypeNext, StreamInit, StreamNext, <1>1, PTL DEF Spec

-----------------------------------------------------------------------------
(***************************************************************************)
(* Nobody sleeps through a close or through news.  The facts about         *)
(* datagram readers need that a reader between its test and its wait holds *)
(* dgram_lock: this is what keeps the broadcast of the closing threads,    *)
(* which take the lock first, out of that window.                          *)
(***************************************************************************)
LockHeld ==
    \A d \in DgramReaders : dreader[d] \in {"test", "wait"} => dgram_lock = d

WakeInv ==
    /\ LockHeld
    /\ SingleQuicClose
    /\ EofMeansAll
    /\ SleeperWillBeWoken
    /\ DgramSleeperWillBeWoken
    /\ NewsWakesOne

(* Nobody sleeps at the beginning.                                         *)
LEMMA WakeInit == Init => WakeInv
BY DEF Init, CloseInit, WakeInv, LockHeld, SingleQuicClose, EofMeansAll,
       SleeperWillBeWoken, DgramSleeperWillBeWoken, NewsWakesOne

(***************************************************************************)
(* What a signal or a broadcast does to the sleepers of one condition      *)
(* variable.                                                               *)
(***************************************************************************)
LEMMA SignalReaders ==
    ASSUME TypeOK, reader' \in Signal(reader)
    PROVE  /\ \A r \in Readers : reader'[r] = reader[r] \/ reader'[r] = "woken"
           /\ Readers # {} => \E r \in Readers : reader'[r] # "waiting"
<1>1. reader \in [Readers -> ReaderPc]
      BY DEF TypeOK
<1>2. CASE {r \in Readers : reader[r] = "waiting"} = {}
  <2>1. reader' = reader
        BY <1>1, <1>2 DEF Signal
  <2> QED BY <1>2, <2>1
<1>3. CASE {r \in Readers : reader[r] = "waiting"} # {}
  <2>1. PICK w \in Readers : reader' = [reader EXCEPT ![w] = "woken"]
        BY <1>1, <1>3 DEF Signal
  <2> QED BY <1>1, <2>1
<1> QED BY <1>2, <1>3

(* A signal wakes one datagram reader if any of them sleeps.               *)
LEMMA SignalDreaders ==
    ASSUME TypeOK, dreader' \in Signal(dreader)
    PROVE  /\ \A d \in DgramReaders : dreader'[d] = dreader[d] \/ dreader'[d] = "woken"
           /\ (\A d \in DgramReaders : dreader[d] # "wait") /\ DgramReaders # {} =>
                 \E d \in DgramReaders : dreader'[d] \notin {"wait", "waiting"}
<1>1. dreader \in [DgramReaders -> DreaderPc]
      BY DEF TypeOK
<1>2. CASE {d \in DgramReaders : dreader[d] = "waiting"} = {}
  <2>1. dreader' = dreader
        BY <1>1, <1>2 DEF Signal
  <2> QED BY <1>2, <2>1
<1>3. CASE {d \in DgramReaders : dreader[d] = "waiting"} # {}
  <2>1. PICK w \in DgramReaders : dreader' = [dreader EXCEPT ![w] = "woken"]
        BY <1>1, <1>3 DEF Signal
  <2> QED BY <1>1, <2>1
<1> QED BY <1>2, <1>3

(* After a broadcast nobody sleeps, and nobody else has moved.             *)
LEMMA BroadcastBoth ==
    ASSUME TypeOK
    PROVE  /\ \A r \in Readers : /\ Broadcast(reader)[r] # "waiting"
                                 /\ Broadcast(reader)[r] = reader[r] \/ Broadcast(reader)[r] = "woken"
           /\ \A d \in DgramReaders : /\ Broadcast(dreader)[d] # "waiting"
                                      /\ \/ Broadcast(dreader)[d] = dreader[d]
                                         \/ Broadcast(dreader)[d] = "woken"
BY DEF TypeOK, Broadcast

(* No step lets a reader sleep through what concerns it.                   *)
LEMMA WakeNext == TypeOK /\ WakeInv /\ [Next]_vars => WakeInv'
<1> SUFFICES ASSUME TypeOK, WakeInv, [Next]_vars PROVE WakeInv'
    OBVIOUS
<1> USE DEF WakeInv, LockHeld, SingleQuicClose, EofMeansAll, SleeperWillBeWoken,
        DgramSleeperWillBeWoken, NewsWakesOne, closeVars
<1>0. /\ reader \in [Readers -> ReaderPc]
      /\ dreader \in [DgramReaders -> DreaderPc]
      /\ closer \in [Closers -> CloserPc]
      /\ dgram_lock \in DgramReaders \cup {Nobody}
      /\ recv_read \in Nat /\ recv_write \in Nat /\ recv_read <= recv_write
      /\ Nobody \notin DgramReaders
      BY PqReceiveAssumption DEF TypeOK, CloseTypeOK, Nobody
<1>1. ASSUME NEW n \in 0 .. MaxChunk, NEW fin \in BOOLEAN, StreamData(n, fin)
      PROVE  WakeInv'
  <2>1. CASE n = 0
        BY <1>1, <2>1 DEF StreamData, dgramVars
  <2>2. CASE n > 0
    <3>1. reader' \in Signal(reader)
          BY <1>1, <2>2 DEF StreamData, AppendChunk
    <3>2. /\ \A r \in Readers : reader'[r] = reader[r] \/ reader'[r] = "woken"
          /\ Readers # {} => \E r \in Readers : reader'[r] # "waiting"
          BY <3>1, SignalReaders
    <3>3. ~stream_fin_received /\ net = "idle"
          BY <1>1 DEF StreamData
    <3> QED BY <1>1, <3>2, <3>3 DEF StreamData, dgramVars
  <2> QED BY <2>1, <2>2, PqReceiveAssumption
<1>2. CASE StreamFin
      BY <1>2, SignalReaders DEF StreamFin, dgramVars
<1>3. CASE Datagram
  <2>1. \A d \in DgramReaders : dreader[d] \notin {"test", "wait"}
        BY <1>0, <1>3 DEF Datagram
  <2>2. /\ \A d \in DgramReaders : dreader'[d] = dreader[d] \/ dreader'[d] = "woken"
        /\ DgramReaders # {} => \E d \in DgramReaders : dreader'[d] \notin {"wait", "waiting"}
        BY <1>3, <2>1, SignalDreaders DEF Datagram
  <2> QED BY <1>3, <2>1, <2>2 DEF Datagram, streamVars
<1>4. CASE CallbackClose
      BY <1>4, BroadcastBoth DEF CallbackClose, CallbackCloseFlags, dgramVars
<1>5. CASE CallbackCloseDgram
  <2>1. \A d \in DgramReaders : dreader[d] \notin {"test", "wait"}
        BY <1>0, <1>5 DEF CallbackCloseDgram
  <2>2. \A d \in DgramReaders : dreader'[d] \notin {"test", "wait", "waiting"}
        BY <1>5, <2>1, BroadcastBoth DEF CallbackCloseDgram
  <2> QED BY <1>5, <2>2 DEF CallbackCloseDgram, streamVars
<1>6. ASSUME NEW t \in Closers, TakeConnection(t) PROVE WakeInv'
      BY <1>0, <1>6 DEF TakeConnection, CloseTake, streamVars, dgramVars
<1>7. ASSUME NEW t \in Closers, CallQuicClose(t) PROVE WakeInv'
      BY <1>0, <1>7 DEF CallQuicClose, QuicClose, streamVars, dgramVars
<1>8. ASSUME NEW t \in Closers, WakeReaders(t) PROVE WakeInv'
      BY <1>0, <1>8, BroadcastBoth DEF WakeReaders, LeaveRecvSection, dgramVars
<1>9. ASSUME NEW t \in Closers, WakeDgramReaders(t) PROVE WakeInv'
  <2>1. \A d \in DgramReaders : dreader[d] \notin {"test", "wait"}
        BY <1>0, <1>9 DEF WakeDgramReaders
  <2>2. \A d \in DgramReaders : dreader'[d] \notin {"test", "wait", "waiting"}
        BY <1>9, <2>1, BroadcastBoth DEF WakeDgramReaders
  <2> QED BY <1>0, <1>9, <2>2 DEF WakeDgramReaders, LeaveDgramSection, streamVars
<1>10. ASSUME NEW r \in Readers, Wait(r) \/ ReturnEOF(r) \/ SpuriousWake(r)
       PROVE  WakeInv'
       BY <1>0, <1>10 DEF Wait, ReturnEOF, SpuriousWake, dgramVars
<1>11. ASSUME NEW r \in Readers, NEW b \in 1 .. MaxRead, Copy(r, b) PROVE WakeInv'
       BY <1>0, <1>11 DEF Copy, Return, dgramVars
<1>12. ASSUME NEW d \in DgramReaders, ReadDgram(d) PROVE WakeInv'
  <2>1. CASE DgramLock(d)
        BY <1>0, <2>1 DEF DgramLock, streamVars
  <2>2. CASE DgramTest(d)
        BY <1>0, <2>2 DEF DgramTest, streamVars
  <2>3. CASE DgramWait(d)
        BY <1>0, <2>3 DEF DgramWait, streamVars
  <2>4. CASE DgramSpuriousWake(d)
        BY <1>0, <2>4 DEF DgramSpuriousWake, streamVars
  <2> QED BY <1>12, <2>1, <2>2, <2>3, <2>4 DEF ReadDgram
<1>13. CASE UNCHANGED vars
       BY <1>13 DEF vars, streamVars, dgramVars
<1> QED
    BY <1>1, <1>2, <1>3, <1>4, <1>5, <1>6, <1>7, <1>8, <1>9, <1>10, <1>11, <1>12, <1>13
    DEF Next, Network, Close, Read

(***************************************************************************)
(* A stream reader asleep on a closed connection has a broadcast coming.   *)
(***************************************************************************)
THEOREM CloseWakesReaders == Spec => []SleeperWillBeWoken
<1>1. WakeInv => SleeperWillBeWoken
      BY DEF WakeInv
<1> QED BY TypeInit, TypeNext, WakeInit, WakeNext, <1>1, PTL DEF Spec

(***************************************************************************)
(* So has a datagram reader, although it tests is_closed under another     *)
(* lock than the one is_closed is written under.                           *)
(***************************************************************************)
THEOREM CloseWakesDgramReaders == Spec => []DgramSleeperWillBeWoken
<1>1. WakeInv => DgramSleeperWillBeWoken
      BY DEF WakeInv
<1> QED BY TypeInit, TypeNext, WakeInit, WakeNext, <1>1, PTL DEF Spec

(***************************************************************************)
(* Data, a FIN or a datagram never finds every reader asleep.              *)
(***************************************************************************)
THEOREM NewsIsHeard == Spec => []NewsWakesOne
<1>1. WakeInv => NewsWakesOne
      BY DEF WakeInv
<1> QED BY TypeInit, TypeNext, WakeInit, WakeNext, <1>1, PTL DEF Spec

(***************************************************************************)
(* End of file on an open connection means the whole stream was read.      *)
(***************************************************************************)
THEOREM EofCorrect == Spec => []EofMeansAll
<1>1. WakeInv => EofMeansAll
      BY DEF WakeInv
<1> QED BY TypeInit, TypeNext, WakeInit, WakeNext, <1>1, PTL DEF Spec

(***************************************************************************)
(* All three facts about the stream together.                              *)
(***************************************************************************)
THEOREM StreamCorrect == Spec => []ReadersGetTheStream
<1>1. InOrder /\ NothingElseLost /\ EofMeansAll => ReadersGetTheStream
      BY DEF ReadersGetTheStream
<1> QED BY OrderCorrect, ConservationCorrect, EofCorrect, <1>1, PTL

(***************************************************************************)
(* All three facts about the condition variables together.                 *)
(***************************************************************************)
THEOREM WakeUpsCorrect == Spec => []NoWakeUpLost
<1>1. SleeperWillBeWoken /\ DgramSleeperWillBeWoken /\ NewsWakesOne => NoWakeUpLost
      BY DEF NoWakeUpLost
<1> QED BY CloseWakesReaders, CloseWakesDgramReaders, NewsIsHeard, <1>1, PTL

-----------------------------------------------------------------------------
(***************************************************************************)
(* The datagram slot.  Its content is always the newest datagram; what is  *)
(* read is at most that, and less while it is unread.                      *)
(***************************************************************************)
SlotInv == DgramsInOrder /\ dgram_slot = dgrams

(* The slot holds the newest datagram or is empty.                         *)
LEMMA SlotNext == TypeOK /\ SlotInv /\ [Next]_vars => SlotInv'
<1> SUFFICES ASSUME TypeOK, SlotInv, [Next]_vars PROVE SlotInv'
    OBVIOUS
<1>1. CASE UNCHANGED <<dgram_slot, dgram_ready, dgrams, dgrams_read>>
      BY <1>1 DEF SlotInv, DgramsInOrder
<1>2. CASE Datagram
  <2>1. /\ dgram_slot \in Nat /\ dgram_slot' = dgram_slot + 1 /\ dgrams' = dgrams + 1
        /\ UNCHANGED dgrams_read
        BY <1>2 DEF Datagram, SlotInv, TypeOK
  <2>2. \A i \in 1 .. Len(dgrams_read) : dgrams_read[i] \in Nat
        BY ElementOfSeq DEF TypeOK
  <2>3. \A i \in 1 .. Len(dgrams_read) : dgrams_read[i] < dgram_slot'
        BY <2>1, <2>2 DEF SlotInv, DgramsInOrder
  <2>4. \A i \in 1 .. Len(dgrams_read) : dgrams_read[i] <= dgram_slot'
        BY <2>1, <2>2, <2>3
  <2> QED BY <2>1, <2>3, <2>4 DEF SlotInv, DgramsInOrder
<1>3. ASSUME NEW d \in DgramReaders, DgramTest(d), dgram_ready PROVE SlotInv'
  <2> DEFINE n == Len(dgrams_read)
  <2>1. /\ dgrams_read' = Append(dgrams_read, dgram_slot)
        /\ dgram_ready' = FALSE
        /\ UNCHANGED <<dgram_slot, dgrams>>
        BY <1>3 DEF DgramTest
  <2>2. /\ n \in Nat /\ Len(dgrams_read') = n + 1
        /\ dgrams_read'[n + 1] = dgram_slot
        /\ \A i \in 1 .. n : dgrams_read'[i] = dgrams_read[i]
        BY <2>1, AppendProperties, LenProperties DEF TypeOK
  <2> HIDE DEF n
  <2>3. \A i \in 1 .. n : dgrams_read'[i] < dgram_slot
        BY <1>3, <2>2 DEF SlotInv, DgramsInOrder, n
  <2>4. dgram_slot \in Nat /\ \A i \in 1 .. n : dgrams_read'[i] \in Nat
        BY <2>2, ElementOfSeq DEF TypeOK, n
  <2>5. \A i \in 1 .. n + 1 : i \in 1 .. n \/ i = n + 1
        BY <2>2
  <2>6. \A i \in 1 .. n + 1 : dgrams_read'[i] <= dgram_slot
        BY <2>2, <2>3, <2>4, <2>5
  <2>7. \A i, j \in 1 .. n + 1 : i < j => dgrams_read'[i] < dgrams_read'[j]
    <3> SUFFICES ASSUME NEW i \in 1 .. n + 1, NEW j \in 1 .. n + 1, i < j
                 PROVE  dgrams_read'[i] < dgrams_read'[j]
        OBVIOUS
    <3>1. i \in 1 .. n
          BY <2>2
    <3>2. CASE j = n + 1
          BY <2>2, <2>3, <3>1, <3>2
    <3>3. CASE j \in 1 .. n
          BY <2>2, <3>1, <3>3 DEF SlotInv, DgramsInOrder, n
    <3> QED BY <2>5, <3>2, <3>3
  <2> QED BY <2>1, <2>2, <2>6, <2>7 DEF SlotInv, DgramsInOrder
<1>4. ASSUME NEW d \in DgramReaders, DgramTest(d), ~dgram_ready PROVE SlotInv'
      BY <1>1, <1>4 DEF DgramTest, TypeOK
<1>5. ASSUME NEW d \in DgramReaders, ReadDgram(d) PROVE SlotInv'
      BY <1>1, <1>3, <1>4, <1>5 DEF ReadDgram, DgramLock, DgramWait, DgramSpuriousWake
<1>6. CASE Network
      BY <1>1, <1>2, <1>6 DEF Network, StreamData, StreamFin, CallbackClose,
                              CallbackCloseDgram, dgramVars
<1>7. ASSUME NEW t \in Closers, Close(t) PROVE SlotInv'
      BY <1>1, <1>7 DEF Close, TakeConnection, CallQuicClose, WakeReaders,
                        WakeDgramReaders, dgramVars
<1>8. ASSUME NEW r \in Readers, Read(r) PROVE SlotInv'
      BY <1>1, <1>8 DEF Read, Wait, ReturnEOF, Copy, Return, SpuriousWake, dgramVars
<1>9. CASE UNCHANGED vars
      BY <1>1, <1>9 DEF vars, dgramVars
<1> QED BY <1>5, <1>6, <1>7, <1>8, <1>9 DEF Next

(***************************************************************************)
(* Datagrams come out in order and once, for any number of datagram        *)
(* readers, although the slot is overwritten at any time.                  *)
(***************************************************************************)
THEOREM DgramOrderCorrect == Spec => []DgramsInOrder
<1>1. Init => SlotInv
      BY LenProperties DEF Init, SlotInv, DgramsInOrder
<1>2. SlotInv => DgramsInOrder
      BY DEF SlotInv
<1> QED BY TypeInit, TypeNext, SlotNext, <1>1, <1>2, PTL DEF Spec

-----------------------------------------------------------------------------
(***************************************************************************)
(* The refinement of ByteStream.  The unread cells of a buffer, from the   *)
(* one index to the other, are the sequence of pending bytes; a critical   *)
(* section appends to it, takes from its front, or leaves it alone.        *)
(***************************************************************************)
Between(buffer, from, to) == [k \in 1 .. to - from |-> buffer[from + k - 1]]

Pending == Between(recv_buffer, recv_read, recv_write)

(* The sequence has one element for each unread cell.                      *)
LEMMA BetweenIsSeq ==
    ASSUME NEW buffer \in [Cells -> Int], NEW from \in 0 .. RecvSize, NEW to \in 0 .. RecvSize,
           from <= to
    PROVE  /\ Between(buffer, from, to) \in Seq(Int)
           /\ Len(Between(buffer, from, to)) = to - from
           /\ \A k \in 1 .. to - from : Between(buffer, from, to)[k] = buffer[from + k - 1]
<1> DEFINE n == to - from
           s == Between(buffer, from, to)
<1>1. n \in Nat /\ from \in Nat /\ from + n <= RecvSize /\ RecvSize \in Nat
      BY PqReceiveAssumption
<1>2. ASSUME NEW k \in 1 .. n PROVE buffer[from + k - 1] \in Int
      BY <1>1 DEF Cells
<1>3. s \in [1 .. n -> Int]
      BY <1>2 DEF Between
<1>4. \A k \in 1 .. n : s[k] = buffer[from + k - 1]
      BY DEF Between
<1> HIDE DEF n, s
<1>5. s \in Seq(Int)
      BY <1>1, <1>3, SeqDef
<1>6. Len(s) = n
      BY <1>1, <1>3, <1>5, LenProperties
<1> QED BY <1>4, <1>5, <1>6 DEF n, s

(* A chunk that fits is the next one in the sequence.                      *)
LEMMA PendingGrows ==
    ASSUME TypeOK, TypeOK', NEW n \in 1 .. MaxChunk, Put(n), arrived' = arrived + n,
           recv_read' = recv_read
    PROVE  Pending' = Pending \o [k \in 1 .. arrived' - arrived |-> arrived + k - 1]
<1> DEFINE chunk == [k \in 1 .. n |-> arrived + k - 1]
           unread == recv_write - recv_read
<1>1. /\ recv_read \in Nat /\ recv_write \in Nat /\ recv_read <= recv_write
      /\ recv_write' = recv_write + n /\ recv_write' <= RecvSize /\ RecvSize \in Nat
      /\ n \in Nat /\ arrived \in Nat /\ arrived' - arrived = n
      BY PqReceiveAssumption DEF TypeOK, Put
<1>2. /\ Pending \in Seq(Int) /\ Len(Pending) = unread
      /\ \A k \in 1 .. unread : Pending[k] = recv_buffer[recv_read + k - 1]
      BY BetweenIsSeq DEF TypeOK, Pending
<1>3. /\ Pending' \in Seq(Int) /\ Len(Pending') = unread + n
      /\ \A k \in 1 .. unread + n : Pending'[k] = recv_buffer'[recv_read + k - 1]
  <2>1. recv_write' - recv_read' = unread + n
        BY <1>1
  <2>2. /\ Pending' \in Seq(Int) /\ Len(Pending') = recv_write' - recv_read'
        /\ \A k \in 1 .. recv_write' - recv_read' : Pending'[k] = recv_buffer'[recv_read' + k - 1]
        BY BetweenIsSeq DEF TypeOK, Pending
  <2> QED BY <2>1, <2>2
<1>4. chunk \in Seq(Int) /\ Len(chunk) = n /\ \A k \in 1 .. n : chunk[k] = arrived + k - 1
  <2>1. chunk \in [1 .. n -> Int] /\ \A k \in 1 .. n : chunk[k] = arrived + k - 1
        BY <1>1
  <2> HIDE DEF chunk
  <2>2. chunk \in Seq(Int)
        BY <1>1, <2>1, SeqDef
  <2> QED BY <1>1, <2>1, <2>2, LenProperties
<1> HIDE DEF chunk
<1>5. /\ Pending \o chunk \in Seq(Int) /\ Len(Pending \o chunk) = unread + n
      /\ \A k \in 1 .. unread + n :
            (Pending \o chunk)[k] = IF k <= unread THEN Pending[k] ELSE chunk[k - unread]
  <2>1. /\ Pending \o chunk \in Seq(Int) /\ Len(Pending \o chunk) = Len(Pending) + Len(chunk)
        /\ \A k \in 1 .. Len(Pending) + Len(chunk) :
              (Pending \o chunk)[k] = IF k <= Len(Pending) THEN Pending[k] ELSE chunk[k - Len(Pending)]
        BY <1>2, <1>4, ConcatProperties
  <2> HIDE DEF unread
  <2> QED BY <1>2, <1>4, <2>1, Zenon
<1>6. ASSUME NEW k \in 1 .. unread + n PROVE Pending'[k] = (Pending \o chunk)[k]
  <2>1. recv_buffer'[recv_read + k - 1] = IF k <= unread THEN recv_buffer[recv_read + k - 1]
                                          ELSE arrived + (recv_read + k - 1 - recv_write)
    <3>1. recv_read + k - 1 \in Cells
          BY <1>1 DEF Cells
    <3> QED BY <1>1, <3>1 DEF Put
  <2>2. CASE k <= unread
        BY <1>1, <1>2, <1>3, <1>5, <2>1, <2>2
  <2>3. CASE ~(k <= unread)
    <3>1. k - unread \in 1 .. n /\ recv_read + k - 1 - recv_write = k - unread - 1
          BY <1>1, <2>3
    <3> QED BY <1>1, <1>3, <1>4, <1>5, <2>1, <2>3, <3>1
  <2> QED BY <2>2, <2>3
<1>7. Pending' = Pending \o chunk
      BY <1>3, <1>5, <1>6, SeqEqual
<1> QED BY <1>1, <1>7 DEF chunk

(* A reader takes a front of the sequence, whether or not it drains the    *)
(* buffer and both indices go back to 0.                                   *)
LEMMA PendingShrinks ==
    ASSUME TypeOK, TypeOK', NEW r \in Readers, NEW b \in 1 .. MaxRead, Copy(r, b)
    PROVE  \E m \in 1 .. Len(Pending) :
              /\ read' = read \o SubSeq(Pending, 1, m)
              /\ Pending' = SubSeq(Pending, m + 1, Len(Pending))
<1> DEFINE unread == recv_write - recv_read
           m == Smaller(unread, b)
           out == [k \in 1 .. m |-> recv_buffer[recv_read + k - 1]]
<1>1. /\ recv_read \in Nat /\ recv_write \in Nat /\ recv_read < recv_write
      /\ recv_write <= RecvSize /\ RecvSize \in Nat /\ MaxRead \in Nat
      /\ recv_buffer' = recv_buffer
      BY PqReceiveAssumption DEF TypeOK, Copy, Return
<1>2. unread \in Nat /\ m \in 1 .. unread
      BY <1>1 DEF Smaller
<1>3. /\ read' = read \o out
      /\ recv_read' = IF recv_read + m >= recv_write THEN 0 ELSE recv_read + m
      /\ recv_write' = IF recv_read + m >= recv_write THEN 0 ELSE recv_write
      BY DEF Copy, Return
<1> HIDE DEF m
<1>4. /\ Pending \in Seq(Int) /\ Len(Pending) = unread
      /\ \A k \in 1 .. unread : Pending[k] = recv_buffer[recv_read + k - 1]
      BY BetweenIsSeq DEF TypeOK, Pending
<1>5. out = SubSeq(Pending, 1, m)
      BY <1>2, <1>4
<1>6. /\ Pending' \in Seq(Int) /\ Len(Pending') = recv_write' - recv_read'
      /\ \A k \in 1 .. recv_write' - recv_read' : Pending'[k] = recv_buffer[recv_read' + k - 1]
  <2>1. /\ Pending' \in Seq(Int) /\ Len(Pending') = recv_write' - recv_read'
        /\ \A k \in 1 .. recv_write' - recv_read' : Pending'[k] = recv_buffer'[recv_read' + k - 1]
        BY BetweenIsSeq DEF TypeOK, Pending
  <2> QED BY <1>1, <2>1
<1>7. recv_write' - recv_read' = unread - m
      BY <1>1, <1>2, <1>3
<1>8. Pending' = SubSeq(Pending, m + 1, unread)
  <2> DEFINE rest == SubSeq(Pending, m + 1, unread)
  <2>1. /\ rest \in Seq(Int) /\ Len(rest) = unread - m
        /\ \A k \in 1 .. unread - m : rest[k] = Pending[m + k]
    <3>1. \A i \in m + 1 .. unread : Pending[i] \in Int
          BY <1>2, <1>4, ElementOfSeq
    <3>2. /\ rest \in Seq(Int)
          /\ Len(rest) = IF m + 1 <= unread THEN unread - (m + 1) + 1 ELSE 0
          /\ \A k \in 1 .. unread - (m + 1) + 1 : rest[k] = Pending[m + 1 + k - 1]
          BY <1>2, <3>1, SubSeqProperties
    <3>3. ASSUME NEW k \in 1 .. unread - m PROVE rest[k] = Pending[m + k]
      <4>1. k \in 1 .. unread - (m + 1) + 1 /\ m + 1 + k - 1 = m + k
            BY <1>2
      <4>2. rest[k] = Pending[m + 1 + k - 1]
            BY <3>2, <4>1
      <4> QED BY <4>1, <4>2
    <3> HIDE DEF rest
    <3> QED BY <1>2, <3>2, <3>3
  <2>2. ASSUME NEW k \in 1 .. unread - m PROVE Pending'[k] = rest[k]
    <3>1. m + k \in 1 .. unread /\ recv_read' = recv_read + m
          BY <1>1, <1>2, <1>3
    <3>2. Pending[m + k] = recv_buffer[recv_read + (m + k) - 1]
          BY <1>4, <3>1
    <3>3. Pending'[k] = recv_buffer[recv_read + m + k - 1]
          BY <1>6, <1>7, <3>1
    <3> QED BY <1>1, <1>2, <2>1, <3>2, <3>3
  <2> HIDE DEF rest
  <2> QED BY <1>6, <1>7, <2>1, <2>2, SeqEqual DEF rest
<1> QED BY <1>2, <1>3, <1>4, <1>5, <1>8

(* The readers that were told the end of the stream; a signal or a         *)
(* broadcast concerns others.                                              *)
Told == {r \in Readers : reader[r] = "eof"}

(* Waking a sleeper does not change who was told.                          *)
LEMMA WokenNotTold ==
    ASSUME TypeOK, reader' \in Signal(reader) \/ reader' = Broadcast(reader)
    PROVE  Told' = Told
<1>1. reader \in [Readers -> ReaderPc]
      BY DEF TypeOK
<1>2. reader' \in [Readers -> ReaderPc]
      BY WokenReader
<1>3. \A r \in Readers : reader'[r] = "eof" <=> reader[r] = "eof"
  <2>1. CASE reader' \in Signal(reader)
    <3>1. CASE {r \in Readers : reader[r] = "waiting"} = {}
      <4>1. reader' = reader
            BY <1>1, <2>1, <3>1 DEF Signal
      <4> QED BY <4>1
    <3>2. CASE {r \in Readers : reader[r] = "waiting"} # {}
      <4>1. PICK w \in Readers : reader[w] = "waiting" /\ reader' = [reader EXCEPT ![w] = "woken"]
            BY <1>1, <2>1, <3>2 DEF Signal
      <4> QED BY <1>1, <4>1
    <3> QED BY <3>1, <3>2
  <2>2. CASE reader' = Broadcast(reader)
        BY <1>1, <2>2 DEF Broadcast
  <2> QED BY <2>1, <2>2
<1> QED BY <1>3 DEF Told

(* What the abstract stream looks like from here.                          *)
streamView == <<arrived, Pending, read, stream_fin_received, is_closed, Told>>

(* The steps that change neither the buffer nor the close flag.            *)
LEMMA StutteringSteps ==
    ASSUME TypeOK,
           \/ Datagram \/ CallbackCloseDgram
           \/ \E t \in Closers : CallQuicClose(t) \/ WakeReaders(t) \/ WakeDgramReaders(t)
           \/ \E r \in Readers : Wait(r) \/ SpuriousWake(r)
           \/ \E d \in DgramReaders : ReadDgram(d)
           \/ UNCHANGED vars
    PROVE  UNCHANGED streamView
<1>1. CASE UNCHANGED <<recv_buffer, recv_read, recv_write, arrived, read, stream_fin_received,
                       is_closed>> /\ Told' = Told
      BY <1>1 DEF streamView, Pending
<1>2. CASE \/ Datagram \/ CallbackCloseDgram
           \/ \E d \in DgramReaders : ReadDgram(d)
           \/ UNCHANGED vars
      BY <1>1, <1>2 DEF Datagram, CallbackCloseDgram, ReadDgram, DgramLock, DgramTest, DgramWait,
                        DgramSpuriousWake, vars, streamVars, closeVars, Told
<1>3. ASSUME NEW t \in Closers, CallQuicClose(t) \/ WakeDgramReaders(t)
      PROVE  UNCHANGED streamView
      BY <1>1, <1>3 DEF CallQuicClose, QuicClose, WakeDgramReaders, LeaveDgramSection, streamVars, Told
<1>4. ASSUME NEW t \in Closers, WakeReaders(t)
      PROVE  UNCHANGED streamView
  <2>1. Told' = Told
        BY <1>4, WokenNotTold DEF WakeReaders
  <2> QED BY <1>1, <1>4, <2>1 DEF WakeReaders, LeaveRecvSection
<1>5. ASSUME NEW r \in Readers, Wait(r) \/ SpuriousWake(r)
      PROVE  UNCHANGED streamView
  <2>1. /\ reader' \in {[reader EXCEPT ![r] = "waiting"], [reader EXCEPT ![r] = "woken"]}
        /\ reader[r] # "eof" /\ reader \in [Readers -> ReaderPc]
        BY <1>5 DEF Wait, HasLock, SpuriousWake, TypeOK
  <2>2. Told' = Told
        BY <2>1 DEF Told
  <2> QED BY <1>1, <1>5, <2>2 DEF Wait, SpuriousWake, closeVars
<1> QED BY <1>2, <1>3, <1>4, <1>5

(* Every step is one of the abstract stream, or none.                      *)
LEMMA StepIsStreamStep ==
    ASSUME TypeOK, TypeOK', [Next]_vars
    PROVE  [Stream!Next]_(Stream!streamVars)
<1>1. CASE UNCHANGED streamView
      BY <1>1 DEF streamView, Pending, Told, Between, Stream!streamVars
<1>2. ASSUME NEW n \in 0 .. MaxChunk, NEW fin \in BOOLEAN, StreamData(n, fin)
      PROVE  [Stream!Next]_(Stream!streamVars)
  <2>1. CASE n = 0
        BY <1>1, <1>2, <2>1 DEF StreamData, closeVars, streamView, Pending, Told
  <2>2. CASE n > 0
    <3>1. /\ AppendChunk(n) /\ ~stream_fin_received /\ arrived' = arrived + n
          /\ arrived' \in arrived + 1 .. MaxStream
          /\ UNCHANGED <<recv_read, read, stream_fin_received, is_closed>>
          /\ reader' \in Signal(reader) /\ n \in 1 .. MaxChunk
          BY <1>2, <2>2, PqReceiveAssumption DEF StreamData, AppendChunk, closeVars, TypeOK
    <3>2. Told' = Told
          BY <3>1, WokenNotTold
    <3>3. Pending' \in {Pending, Pending \o [k \in 1 .. arrived' - arrived |-> arrived + k - 1]}
      <4>1. CASE Put(n)
            BY <3>1, <4>1, PendingGrows
      <4>2. CASE UNCHANGED <<recv_buffer, recv_write>>
            BY <3>1, <4>2 DEF Pending
      <4> QED BY <3>1, <4>1, <4>2 DEF AppendChunk
    <3>4. Stream!Arrive
          BY <3>1, <3>2, <3>3 DEF Stream!Arrive, Pending, Told, Between
    <3> QED BY <3>4 DEF Stream!Next
  <2> QED BY <2>1, <2>2, PqReceiveAssumption
<1>3. CASE StreamFin
  <2>1. Told' = Told
        BY <1>3, WokenNotTold DEF StreamFin
  <2>2. Stream!Finish
        BY <1>3, <2>1 DEF StreamFin, closeVars, Stream!Finish, Told
  <2> QED BY <2>2 DEF Stream!Next
<1>4. ASSUME CallbackClose \/ \E t \in Closers : TakeConnection(t)
      PROVE  [Stream!Next]_(Stream!streamVars)
  <2>1. CASE CallbackClose
    <3>1. Told' = Told
          BY <2>1, WokenNotTold DEF CallbackClose
    <3> QED BY <2>1, <3>1 DEF CallbackClose, CallbackCloseFlags, Stream!Next, Stream!Close, Told
  <2>2. CASE \E t \in Closers : TakeConnection(t)
        BY <2>2 DEF TakeConnection, CloseTake, streamVars, Stream!Next, Stream!Close
  <2> QED BY <1>4, <2>1, <2>2
<1>5. ASSUME NEW r \in Readers, ReturnEOF(r)
      PROVE  [Stream!Next]_(Stream!streamVars)
  <2>1. /\ recv_read = recv_write /\ (is_closed \/ stream_fin_received)
        /\ reader' = [reader EXCEPT ![r] = "eof"] /\ reader \in [Readers -> ReaderPc]
        /\ UNCHANGED <<recv_buffer, recv_read, recv_write, arrived, read, stream_fin_received, is_closed>>
        BY <1>5, PqReceiveAssumption DEF ReturnEOF, TypeOK, closeVars
  <2>2. Told' = Told \cup {r}
        BY <2>1 DEF Told
  <2>3. Pending = << >>
        BY <2>1 DEF Pending, Between, TypeOK
  <2>4. Stream!End(r)
        BY <2>1, <2>2, <2>3 DEF Stream!End, Told, Pending, Between
  <2> QED BY <2>4 DEF Stream!Next
<1>6. ASSUME NEW r \in Readers, NEW b \in 1 .. MaxRead, Copy(r, b)
      PROVE  [Stream!Next]_(Stream!streamVars)
  <2>1. \E m \in 1 .. Len(Pending) :
              /\ read' = read \o SubSeq(Pending, 1, m)
              /\ Pending' = SubSeq(Pending, m + 1, Len(Pending))
        BY <1>6, PendingShrinks
  <2>2. Told' = Told
        BY <1>6 DEF Copy, Return, HasLock, Told, TypeOK
  <2>3. Stream!Take
        BY <1>6, <2>1, <2>2 DEF Copy, Return, closeVars, Stream!Take, Pending, Told, Between
  <2> QED BY <2>3 DEF Stream!Next
<1>7. CASE UNCHANGED vars
      BY <1>1, <1>7, StutteringSteps
<1> QED BY <1>1, <1>2, <1>3, <1>4, <1>5, <1>6, <1>7, StutteringSteps
        DEF Next, Network, Close, Read

(***************************************************************************)
(* The buffer with its two indices, its locks and its condition variables  *)
(* is the abstract stream that ByteStream describes: what the rest of the  *)
(* system may rely on, whatever the sizes and the number of readers.       *)
(***************************************************************************)
THEOREM StreamRefined == Spec => ImplementsByteStream
<1>1. Init => Stream!Init
  <2> SUFFICES ASSUME Init PROVE Stream!Init
      OBVIOUS
  <2>1. Pending = << >>
        BY TypeInit, BetweenIsSeq, EmptySeq DEF Init, Pending, TypeOK
  <2>2. Told = {}
        BY DEF Init, Told
  <2> QED BY <2>1, <2>2 DEF Init, CloseInit, Stream!Init, Pending, Told, Between
<1> QED BY <1>1, TypeCorrect, StepIsStreamStep, PTL DEF Spec, ImplementsByteStream, Stream!Spec
=============================================================================
