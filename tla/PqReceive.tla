----------------------------- MODULE PqReceive -----------------------------
(***************************************************************************)
(* The receiving half of a pq_connection_t (pkg/picoquic): the stream-0    *)
(* receive buffer with its two indices, the one-slot datagram buffer, the  *)
(* two condition variables readers sleep on, and the two ways the          *)
(* connection is closed under them (PqClose).                              *)
(*                                                                         *)
(* A critical section of recv_lock that does not wait inside is one step.  *)
(* dgram_lock is modelled as a lock: pq_recv_datagram reads is_closed      *)
(* under dgram_lock while every write of is_closed is made under           *)
(* recv_lock, so the test and the wait that follows it are two steps.      *)
(*                                                                         *)
(* A byte is its offset in the stream that picoquic delivers in order.     *)
(***************************************************************************)
EXTENDS PqClose, Integers, Sequences

CONSTANTS
    Readers,        \* threads in pq_recv_stream
    DgramReaders,   \* threads in pq_recv_datagram
    RecvSize,       \* RECV_BUFFER_SIZE
    MaxChunk,       \* bound: bytes in one stream_data event
    MaxRead,        \* bound: buffer_size of a reader
    MaxStream,      \* bound: bytes of the stream
    MaxDgrams       \* bound: datagrams

ASSUME PqReceiveAssumption ==
    /\ RecvSize \in Nat \ {0}
    /\ MaxChunk \in Nat
    /\ MaxRead \in Nat \ {0}
    /\ MaxStream \in Nat
    /\ MaxDgrams \in Nat
    /\ "nobody" \notin DgramReaders

VARIABLES
    recv_buffer,            \* recv_buffer: cell -> byte
    recv_read, recv_write,  \* the two indices
    stream_fin_received,
    reader,                 \* stream readers: idle, waiting, woken or eof
    dgram_slot,             \* dgram_buffer: the number of the datagram in it
    dgram_ready,
    dgram_lock,             \* the reader that holds dgram_lock, or Nobody
    dreader,                \* datagram readers
    net,                    \* the network thread between two critical sections
    arrived,                \* history: stream bytes picoquic has delivered
    dropped,                \* history: of these, the bytes the append skipped
    read,                   \* history: what the readers got, in lock order
    dgrams,                 \* history: datagrams delivered
    dgrams_read             \* history: datagrams the readers got

streamVars == <<recv_buffer, recv_read, recv_write, stream_fin_received,
                reader, arrived, dropped, read>>
dgramVars  == <<dgram_slot, dgram_ready, dgram_lock, dreader, dgrams, dgrams_read>>
vars       == <<closeVars, streamVars, dgramVars, net>>

Nobody == "nobody"             \* nobody holds dgram_lock
Cells  == 0 .. RecvSize - 1

NoByte == -1                    \* what malloc left in a cell

ReaderPc  == {"idle", "waiting", "woken", "eof"}
DreaderPc == {"idle", "test", "wait", "waiting", "woken", "failed"}

TypeOK ==
    /\ CloseTypeOK
    /\ recv_buffer \in [Cells -> Int]
    /\ recv_read \in 0 .. RecvSize
    /\ recv_write \in 0 .. RecvSize
    /\ recv_read <= recv_write
    /\ stream_fin_received \in BOOLEAN
    /\ reader \in [Readers -> ReaderPc]
    /\ dgram_slot \in Nat
    /\ dgram_ready \in BOOLEAN
    /\ dgram_lock \in DgramReaders \cup {Nobody}
    /\ dreader \in [DgramReaders -> DreaderPc]
    /\ net \in {"idle", "fin", "close"}
    /\ arrived \in Nat
    /\ dropped \in Nat
    /\ read \in Seq(Int)
    /\ dgrams \in Nat
    /\ dgrams_read \in Seq(Nat)

Init ==
    /\ CloseInit
    /\ recv_buffer = [i \in Cells |-> NoByte]
    /\ recv_read = 0
    /\ recv_write = 0
    /\ stream_fin_received = FALSE
    /\ reader = [r \in Readers |-> "idle"]
    /\ dgram_slot = 0
    /\ dgram_ready = FALSE
    /\ dgram_lock = Nobody
    /\ dreader = [d \in DgramReaders |-> "idle"]
    /\ net = "idle"
    /\ arrived = 0
    /\ dropped = 0
    /\ read = << >>
    /\ dgrams = 0
    /\ dgrams_read = << >>

(***************************************************************************)
(* pthread_cond_signal wakes one waiter if there is one, and               *)
(* pthread_cond_broadcast wakes all of them.                               *)
(***************************************************************************)
Signal(pc) ==
    LET waiting == {r \in DOMAIN pc : pc[r] = "waiting"}
    IN  IF waiting = {} THEN {pc}
                        ELSE {[pc EXCEPT ![r] = "woken"] : r \in waiting}

Broadcast(pc) == [r \in DOMAIN pc |-> IF pc[r] = "waiting" THEN "woken" ELSE pc[r]]

-----------------------------------------------------------------------------
(* The network thread: stream_callback.                                    *)

(***************************************************************************)
(* The append of a stream_data or stream_fin event: n bytes go to          *)
(* recv_write if they fit between it and the end of the buffer, otherwise  *)
(* the chunk is skipped; the reader is signalled in both cases.            *)
(***************************************************************************)
Put(n) ==
    /\ recv_buffer' = [i \in Cells |->
          IF recv_write <= i /\ i < recv_write + n
          THEN arrived + (i - recv_write) ELSE recv_buffer[i]]
    /\ recv_write' = recv_write + n

(* Mutants: no test of the space left; a chunk cut to the space left.       *)
AppendUnchecked(n) ==
    /\ Put(n)
    /\ arrived' = arrived + n
    /\ reader' \in Signal(reader)
    /\ UNCHANGED dropped

AppendCut(n) ==
    LET fits == IF n <= RecvSize - recv_write THEN n ELSE RecvSize - recv_write
    IN  /\ Put(fits)
        /\ dropped' = dropped + (n - fits)
        /\ arrived' = arrived + n
        /\ reader' \in Signal(reader)

AppendChunk(n) ==
    /\ \/ /\ n <= RecvSize - recv_write
          /\ Put(n)
          /\ UNCHANGED dropped
       \/ /\ n > RecvSize - recv_write
          /\ dropped' = dropped + n
          /\ UNCHANGED <<recv_buffer, recv_write>>
    /\ arrived' = arrived + n
    /\ reader' \in Signal(reader)

StreamData(n, fin) ==
    /\ net = "idle"
    /\ quic # "disconnected"
    /\ ~stream_fin_received
    /\ arrived + n <= MaxStream
    /\ n > 0 \/ fin
    /\ IF n > 0 THEN AppendChunk(n)
                ELSE UNCHANGED <<recv_buffer, recv_write, arrived, dropped, reader>>
    /\ net' = IF fin THEN "fin" ELSE "idle"
    /\ UNCHANGED <<closeVars, dgramVars, recv_read, stream_fin_received, read>>

(* The second critical section of a stream_fin event.                      *)
StreamFin ==
    /\ net = "fin"
    /\ stream_fin_received' = TRUE
    /\ reader' \in Signal(reader)
    /\ net' = "idle"
    /\ UNCHANGED <<closeVars, dgramVars, recv_buffer, recv_read, recv_write,
                   arrived, dropped, read>>

Datagram ==
    /\ net = "idle"
    /\ quic # "disconnected"
    /\ dgram_lock = Nobody
    /\ dgrams < MaxDgrams
    /\ dgrams' = dgrams + 1
    /\ dgram_slot' = dgrams + 1
    /\ dgram_ready' = TRUE
    /\ dreader' \in Signal(dreader)
    /\ UNCHANGED <<closeVars, streamVars, dgram_lock, dgrams_read, net>>

CallbackCloseDgramSilent ==
    /\ net = "close"
    /\ net' = "idle"
    /\ UNCHANGED <<closeVars, streamVars, dgramVars>>

(* The close events: flags and recv_cond first, then dgram_cond.           *)
CallbackClose ==
    /\ net = "idle"
    /\ CallbackCloseFlags
    /\ reader' = Broadcast(reader)
    /\ net' = "close"
    /\ UNCHANGED <<dgramVars, recv_buffer, recv_read, recv_write,
                   stream_fin_received, arrived, dropped, read>>

CallbackCloseDgram ==
    /\ net = "close"
    /\ dgram_lock = Nobody
    /\ dreader' = Broadcast(dreader)
    /\ net' = "idle"
    /\ UNCHANGED <<closeVars, streamVars, dgram_slot, dgram_ready, dgram_lock,
                   dgrams, dgrams_read>>

-----------------------------------------------------------------------------
(* The application threads in pq_close_connection.                         *)

TakeConnection(t) ==
    CloseTake(t) /\ UNCHANGED <<streamVars, dgramVars, net>>

CallQuicClose(t) ==
    QuicClose(t) /\ UNCHANGED <<streamVars, dgramVars, net>>

WakeReaders(t) ==
    /\ LeaveRecvSection(t)
    /\ reader' = Broadcast(reader)
    /\ UNCHANGED <<dgramVars, recv_buffer, recv_read, recv_write,
                   stream_fin_received, arrived, dropped, read, net>>

(* Mutant: the broadcast is made without taking dgram_lock.                *)
WakeDgramReadersUnlocked(t) ==
    /\ LeaveDgramSection(t)
    /\ dreader' = Broadcast(dreader)
    /\ UNCHANGED <<streamVars, dgram_slot, dgram_ready, dgram_lock, dgrams,
                   dgrams_read, net>>

WakeDgramReaders(t) ==
    /\ dgram_lock = Nobody
    /\ LeaveDgramSection(t)
    /\ dreader' = Broadcast(dreader)
    /\ UNCHANGED <<streamVars, dgram_slot, dgram_ready, dgram_lock, dgrams,
                   dgrams_read, net>>

-----------------------------------------------------------------------------
(* The readers: pq_recv_stream and pq_recv_datagram.                       *)

(***************************************************************************)
(* One pass of the loop of pq_recv_stream, from the lock to the wait or to *)
(* the return: a call starts it, and so does being woken.                  *)
(***************************************************************************)
HasLock(r) == reader[r] \in {"idle", "woken"}

Wait(r) ==
    /\ HasLock(r)
    /\ recv_read >= recv_write /\ ~is_closed /\ ~stream_fin_received
    /\ reader' = [reader EXCEPT ![r] = "waiting"]
    /\ UNCHANGED <<closeVars, dgramVars, recv_buffer, recv_read, recv_write,
                   stream_fin_received, arrived, dropped, read, net>>

ReturnEOF(r) ==
    /\ HasLock(r)
    /\ recv_read >= recv_write /\ (is_closed \/ stream_fin_received)
    /\ reader' = [reader EXCEPT ![r] = "eof"]
    /\ UNCHANGED <<closeVars, dgramVars, recv_buffer, recv_read, recv_write,
                   stream_fin_received, arrived, dropped, read, net>>

Smaller(a, b) == IF a < b THEN a ELSE b

Return(r, to_copy) ==
    /\ HasLock(r)
    /\ recv_read < recv_write
    /\ read' = read \o [k \in 1 .. to_copy |-> recv_buffer[recv_read + k - 1]]
    /\ reader' = [reader EXCEPT ![r] = "idle"]
    /\ UNCHANGED <<closeVars, dgramVars, recv_buffer, stream_fin_received,
                   arrived, dropped, net>>

(* Mutant: only recv_read is reset.                                        *)
CopyHalfReset(r, buffer_size) ==
    LET to_copy == Smaller(recv_write - recv_read, buffer_size)
    IN  /\ Return(r, to_copy)
        /\ recv_read' = IF recv_read + to_copy >= recv_write THEN 0
                        ELSE recv_read + to_copy
        /\ UNCHANGED recv_write

Copy(r, buffer_size) ==
    LET to_copy == Smaller(recv_write - recv_read, buffer_size)
        drained == recv_read + to_copy >= recv_write
    IN  /\ Return(r, to_copy)
        /\ recv_read'  = IF drained THEN 0 ELSE recv_read + to_copy
        /\ recv_write' = IF drained THEN 0 ELSE recv_write

(* POSIX lets pthread_cond_wait return without a signal.                   *)
SpuriousWake(r) ==
    /\ reader[r] = "waiting"
    /\ reader' = [reader EXCEPT ![r] = "woken"]
    /\ UNCHANGED <<closeVars, dgramVars, recv_buffer, recv_read, recv_write,
                   stream_fin_received, arrived, dropped, read, net>>

DgramLock(d) ==
    /\ dreader[d] \in {"idle", "woken"}
    /\ dgram_lock = Nobody
    /\ dgram_lock' = d
    /\ dreader' = [dreader EXCEPT ![d] = "test"]
    /\ UNCHANGED <<closeVars, streamVars, dgram_slot, dgram_ready, dgrams,
                   dgrams_read, net>>

(* Mutant: the slot stays ready after it was read.                         *)
DgramTestKeepsReady(d) ==
    /\ dreader[d] = "test"
    /\ dgram_ready
    /\ dreader' = [dreader EXCEPT ![d] = "idle"]
    /\ dgrams_read' = Append(dgrams_read, dgram_slot)
    /\ dgram_lock' = Nobody
    /\ UNCHANGED <<closeVars, streamVars, dgram_slot, dgram_ready, dgrams, net>>

DgramTest(d) ==
    /\ dreader[d] = "test"
    /\ dreader' = [dreader EXCEPT ![d] = IF dgram_ready  THEN "idle"
                                         ELSE IF is_closed THEN "failed"
                                         ELSE "wait"]
    /\ dgrams_read' = IF dgram_ready THEN Append(dgrams_read, dgram_slot)
                                     ELSE dgrams_read
    /\ dgram_ready' = FALSE
    /\ dgram_lock' = IF dgram_ready \/ is_closed THEN Nobody ELSE d
    /\ UNCHANGED <<closeVars, streamVars, dgram_slot, dgrams, net>>

DgramWait(d) ==
    /\ dreader[d] = "wait"
    /\ dreader' = [dreader EXCEPT ![d] = "waiting"]
    /\ dgram_lock' = Nobody
    /\ UNCHANGED <<closeVars, streamVars, dgram_slot, dgram_ready, dgrams,
                   dgrams_read, net>>

DgramSpuriousWake(d) ==
    /\ dreader[d] = "waiting"
    /\ dreader' = [dreader EXCEPT ![d] = "woken"]
    /\ UNCHANGED <<closeVars, streamVars, dgram_slot, dgram_ready, dgram_lock,
                   dgrams, dgrams_read, net>>

-----------------------------------------------------------------------------

Network ==
    \/ \E n \in 0 .. MaxChunk, fin \in BOOLEAN : StreamData(n, fin)
    \/ StreamFin
    \/ Datagram
    \/ CallbackClose
    \/ CallbackCloseDgram

Close(t) ==
    \/ TakeConnection(t)
    \/ CallQuicClose(t)
    \/ WakeReaders(t)
    \/ WakeDgramReaders(t)

Read(r) ==
    \/ Wait(r)
    \/ ReturnEOF(r)
    \/ \E b \in 1 .. MaxRead : Copy(r, b)
    \/ SpuriousWake(r)

ReadDgram(d) ==
    \/ DgramLock(d)
    \/ DgramTest(d)
    \/ DgramWait(d)
    \/ DgramSpuriousWake(d)

Next ==
    \/ Network
    \/ \E t \in Closers : Close(t)
    \/ \E r \in Readers : Read(r)
    \/ \E d \in DgramReaders : ReadDgram(d)

(***************************************************************************)
(* Fairness.  A thread inside one of these functions is scheduled and      *)
(* finishes it; a thread that wants dgram_lock gets it if the lock is free *)
(* again and again.  Nothing is assumed about calls the application may    *)
(* never make, events picoquic may never report, or spurious wakeups.      *)
(***************************************************************************)
ReaderStep(r) ==
    /\ reader[r] = "woken"
    /\ Wait(r) \/ ReturnEOF(r) \/ \E b \in 1 .. MaxRead : Copy(r, b)

Fairness ==
    /\ WF_vars(StreamFin)
    /\ SF_vars(CallbackCloseDgram)
    /\ \A t \in Closers :
          WF_vars(CallQuicClose(t)) /\ WF_vars(WakeReaders(t)) /\ SF_vars(WakeDgramReaders(t))
    /\ \A r \in Readers : WF_vars(ReaderStep(r))
    /\ \A d \in DgramReaders :
          /\ WF_vars(DgramTest(d) \/ DgramWait(d))
          /\ SF_vars(dreader[d] = "woken" /\ DgramLock(d))

Spec == Init /\ [][Next]_vars
FairSpec == Spec /\ Fairness

-----------------------------------------------------------------------------
(* Properties.                                                             *)

Unread == recv_read .. recv_write - 1       \* the cells pq_recv_stream may copy

(***************************************************************************)
(* The application reads the bytes of the stream in order and none twice,  *)
(* and what is still in the buffer comes after what was read: the reset of *)
(* both indices when the buffer drains never exposes an old cell.          *)
(***************************************************************************)
InOrder ==
    /\ \A i, j \in 1 .. Len(read) : i < j => read[i] < read[j]
    /\ \A i \in 1 .. Len(read), k \in Unread : read[i] < recv_buffer[k]
    /\ \A k, l \in Unread : k < l => recv_buffer[k] < recv_buffer[l]

(***************************************************************************)
(* The append that skips a chunk is the only way to lose a byte: every     *)
(* byte delivered by picoquic was read, is unread in the buffer or was     *)
(* counted as dropped; while none is dropped the buffer holds exactly the  *)
(* next bytes of the stream.                                               *)
(***************************************************************************)
NothingElseLost ==
    /\ arrived = Len(read) + (recv_write - recv_read) + dropped
    /\ dropped = 0 => /\ \A i \in 1 .. Len(read) : read[i] = i - 1
                      /\ \A k \in Unread :
                            recv_buffer[k] = Len(read) + (k - recv_read)

(***************************************************************************)
(* A reader that gets 0 on a connection nobody closed has the whole        *)
(* stream: stream_fin_received is set in a critical section of its own,    *)
(* after the append of the same event.                                     *)
(***************************************************************************)
EofMeansAll ==
    (\E r \in Readers : reader[r] = "eof") /\ ~is_closed =>
        stream_fin_received /\ recv_read = recv_write

(***************************************************************************)
(* The stream as its readers get it: in order, nothing lost but what was   *)
(* skipped, and its end told only at the end.                              *)
(***************************************************************************)
ReadersGetTheStream == InOrder /\ NothingElseLost /\ EofMeansAll

(***************************************************************************)
(* Closing wakes everyone: a stream reader asleep on a closed connection   *)
(* still has a thread of pq_close_connection on its way to broadcast       *)
(* recv_cond.                                                              *)
(***************************************************************************)
SleeperWillBeWoken ==
    is_closed =>
        \A r \in Readers : reader[r] = "waiting" =>
            \E t \in Closers : closer[t] \in {"quic_close", "wake_recv"}

(***************************************************************************)
(* The same for pq_recv_datagram, whose test of is_closed is made under a  *)
(* lock no writer of is_closed holds: a thread that saw is_closed = 0, and *)
(* sleeps or is about to, still has a broadcast of dgram_cond before it.   *)
(***************************************************************************)
DgramSleeperWillBeWoken ==
    is_closed =>
        \A d \in DgramReaders : dreader[d] \in {"wait", "waiting"} =>
            \/ net = "close"
            \/ \E t \in Closers :
                  closer[t] \in {"quic_close", "wake_recv", "wake_dgram"}

(***************************************************************************)
(* No news is slept through: with unread bytes or a FIN not all stream     *)
(* readers are asleep, and with a datagram in the slot not all datagram    *)
(* readers are.                                                            *)
(***************************************************************************)
NewsWakesOne ==
    /\ Readers # {} /\ (recv_read < recv_write \/ stream_fin_received) =>
          \E r \in Readers : reader[r] # "waiting"
    /\ DgramReaders # {} /\ dgram_ready =>
          \E d \in DgramReaders : dreader[d] \notin {"wait", "waiting"}

(***************************************************************************)
(* No wake-up is lost, whether a reader sleeps over news or over a close.  *)
(***************************************************************************)
NoWakeUpLost == SleeperWillBeWoken /\ DgramSleeperWillBeWoken /\ NewsWakesOne

(***************************************************************************)
(* A datagram is handed to one reader at most once, and never after a      *)
(* later one, although the slot is overwritten at any time.                *)
(***************************************************************************)
DgramsInOrder ==
    /\ \A i, j \in 1 .. Len(dgrams_read) : i < j => dgrams_read[i] < dgrams_read[j]
    /\ \A i \in 1 .. Len(dgrams_read) :
          dgrams_read[i] <= dgram_slot /\ (dgram_ready => dgrams_read[i] < dgram_slot)

(***************************************************************************)
(* pq_close_connection on any thread, or the peer, ends every pq_recv_*    *)
(* call: from then on no reader stays asleep.                              *)
(***************************************************************************)
CloseFreesReaders ==
    is_closed ~> [](/\ \A r \in Readers : reader[r] # "waiting"
                    /\ \A d \in DgramReaders : dreader[d] # "waiting")

(***************************************************************************)
(* The circular buffer of the struct's comment: a chunk is skipped only if *)
(* the unread bytes leave no room for it in RECV_BUFFER_SIZE.              *)
(***************************************************************************)
DropsOnlyWhenFull ==
    [][dropped' > dropped =>
         (recv_write - recv_read) + (arrived' - arrived) > RecvSize]_vars

(***************************************************************************)
(* The buffer, its indices and the condition variable implement the        *)
(* abstract stream.                                                        *)
(***************************************************************************)
Stream == INSTANCE ByteStream WITH
    pending  <- [k \in 1 .. recv_write - recv_read |-> recv_buffer[recv_read + k - 1]],
    finished <- stream_fin_received,
    closed   <- is_closed,
    eof      <- {r \in Readers : reader[r] = "eof"}

ImplementsByteStream == Stream!Spec
=============================================================================
