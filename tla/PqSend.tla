------------------------------- MODULE PqSend -------------------------------
(***************************************************************************)
(* The sending half of a pq_connection_t (pkg/picoquic): the linked list   *)
(* of send items behind send_lock, the application threads that append to  *)
(* it and wake the network thread, process_send_queue on the network       *)
(* thread, and pq_wait_stream_complete.  The connection may be closed      *)
(* under all of them (PqClose).                                            *)
(*                                                                         *)
(* process_send_queue reads conn->cnx once before the loop and again for   *)
(* every item, after it has released send_lock; pq_wait_stream_complete    *)
(* reads it twice too.  picoquic dereferences the pointer it is given, so  *)
(* a NULL there ends the process.                                          *)
(***************************************************************************)
EXTENDS PqClose, Integers, Sequences

CONSTANTS
    Senders,    \* threads in pq_send_stream, pq_finish_stream, pq_send_datagram
    Main,       \* the one of them that finishes the stream and waits for it
    IsClient,   \* ctx->client_conn is this connection
    MaxItems,   \* bound: send items
    Settle,     \* the 100 ms of pq_wait_stream_complete, in sleeps of 10 ms
    Timeout     \* timeout_ms of the caller, in sleeps of 10 ms

ASSUME PqSendAssumption ==
    /\ Main \in Senders
    /\ IsClient \in BOOLEAN
    /\ MaxItems \in Nat
    /\ Settle \in Nat
    /\ Timeout \in Nat

VARIABLES
    send_head, send_tail,   \* the list: an item's number, or NULL
    next,                   \* item->next
    kind,                   \* what an item is: data or fin (is_stream), or dgram
    allocated,              \* items appended so far
    sender,                 \* each sending thread: idle, or the call it is in
    finished,               \* Main has called pq_finish_stream
    wake,                   \* the network thread has been asked to wake up
    net,                    \* where the network thread is in wake_up
    passes,                 \* calls of process_send_queue left in this wake_up
    current,                \* the item it has taken off the list
    handed,                 \* history: the items given to picoquic, in order
    acked,                  \* history: the peer has acknowledged the stream and its FIN
    waiter,                 \* where Main is in pq_wait_stream_complete
    waited                  \* its local variable, in sleeps

queueVars == <<send_head, send_tail, next, kind, allocated>>
netVars   == <<wake, net, passes, current, handed, acked>>
waitVars  == <<waiter, waited>>
vars      == <<closeVars, queueVars, sender, finished, netVars, waitVars>>

NULL  == 0
Items == 1 .. MaxItems
Kinds == {"data", "fin", "dgram"}

SenderPc == {"idle", "wake"} \cup Kinds
NetPc    == {"idle", "pass", "loop", "item", "crashed"}
WaiterPc == {"idle", "test", "state", "settle", "sleep", "zero", "error", "crashed"}

TypeOK ==
    /\ CloseTypeOK
    /\ send_head \in Items \cup {NULL}
    /\ send_tail \in Items \cup {NULL}
    /\ next \in [Items -> Items \cup {NULL}]
    /\ kind \in [Items -> Kinds]
    /\ allocated \in 0 .. MaxItems
    /\ sender \in [Senders -> SenderPc]
    /\ finished \in BOOLEAN
    /\ wake \in BOOLEAN
    /\ net \in NetPc
    /\ passes \in 0 .. 2
    /\ current \in Items \cup {NULL}
    /\ handed \in Seq(Items)
    /\ acked \in BOOLEAN
    /\ waiter \in WaiterPc
    /\ waited \in Nat

Init ==
    /\ CloseInit
    /\ send_head = NULL
    /\ send_tail = NULL
    /\ next = [i \in Items |-> NULL]
    /\ kind = [i \in Items |-> "data"]
    /\ allocated = 0
    /\ sender = [s \in Senders |-> "idle"]
    /\ finished = FALSE
    /\ wake = FALSE
    /\ net = "idle"
    /\ passes = 0
    /\ current = NULL
    /\ handed = << >>
    /\ acked = FALSE
    /\ waiter = "idle"
    /\ waited = 0

-----------------------------------------------------------------------------
(* The sending threads.                                                    *)

(***************************************************************************)
(* A call that finds is_closed unset, without a lock.  Only Main writes    *)
(* the stream, nothing after its FIN, and nothing while it waits.          *)
(***************************************************************************)
SendCall(s, k) ==
    /\ sender[s] = "idle"
    /\ ~is_closed
    /\ k # "dgram" => s = Main /\ ~finished
    /\ s = Main => waiter \in {"idle", "zero", "error"}
    /\ sender' = [sender EXCEPT ![s] = k]
    /\ finished' = (finished \/ k = "fin")
    /\ UNCHANGED <<closeVars, queueVars, netVars, waitVars>>

(* queue_send_ex: the new item goes behind send_tail.                      *)
queue_send(s) ==
    LET item == allocated + 1
    IN  /\ sender[s] \in Kinds
        /\ item \in Items
        /\ allocated' = item
        /\ kind' = [kind EXCEPT ![item] = sender[s]]
        /\ next' = IF send_tail = NULL THEN next ELSE [next EXCEPT ![send_tail] = item]
        /\ send_head' = IF send_tail = NULL THEN item ELSE send_head
        /\ send_tail' = item
        /\ sender' = [sender EXCEPT ![s] = "wake"]
        /\ UNCHANGED <<closeVars, finished, netVars, waitVars>>

(* picoquic_wake_up_network_thread, after the append.                      *)
WakeNetwork(s) ==
    /\ sender[s] = "wake"
    /\ sender' = [sender EXCEPT ![s] = "idle"]
    /\ wake' = TRUE
    /\ UNCHANGED <<closeVars, queueVars, finished, net, passes, current,
                   handed, acked, waitVars>>

-----------------------------------------------------------------------------
(* The network thread: loop_callback with packet_loop_wake_up.             *)

(***************************************************************************)
(* The connection's queue is processed once as ctx->client_conn, if it is  *)
(* that, and once as a member of picoquic's list of connections.           *)
(***************************************************************************)
WakeUp ==
    /\ net = "idle"
    /\ wake
    /\ wake' = FALSE
    /\ passes' = (IF IsClient THEN 1 ELSE 0) + (IF quic # "disconnected" THEN 1 ELSE 0)
    /\ net' = IF passes' = 0 THEN "idle" ELSE "pass"
    /\ UNCHANGED <<closeVars, queueVars, sender, finished, current, handed, acked,
                   waitVars>>

(* Mutant: one pass too many.                                              *)
NextPassOnceMore ==
    /\ passes' = passes - 1
    /\ net' = IF passes = 0 THEN "idle" ELSE "pass"

NextPass ==
    /\ passes' = passes - 1
    /\ net' = IF passes = 1 THEN "idle" ELSE "pass"

(* process_send_queue: the test of conn->cnx at its head.                  *)
StartPass ==
    /\ net = "pass"
    /\ IF cnx THEN net' = "loop" /\ UNCHANGED passes ELSE NextPass
    /\ UNCHANGED <<closeVars, queueVars, sender, finished, wake, current, handed,
                   acked, waitVars>>

(* Mutant: send_tail keeps pointing to the item that was taken.            *)
TakeItemKeepsTail ==
    /\ net = "loop"
    /\ send_head # NULL
    /\ current' = send_head
    /\ send_head' = next[send_head]
    /\ net' = "item"
    /\ UNCHANGED <<closeVars, send_tail, next, kind, allocated, sender, finished,
                   wake, passes, handed, acked, waitVars>>

TakeItem ==
    /\ net = "loop"
    /\ send_head # NULL
    /\ current' = send_head
    /\ send_head' = next[send_head]
    /\ send_tail' = IF send_head' = NULL THEN NULL ELSE send_tail
    /\ net' = "item"
    /\ UNCHANGED <<closeVars, next, kind, allocated, sender, finished, wake,
                   passes, handed, acked, waitVars>>

(***************************************************************************)
(* picoquic_add_to_stream or picoquic_queue_datagram_frame, outside        *)
(* send_lock, with what conn->cnx is now; then the item is freed.          *)
(***************************************************************************)
HandOver ==
    /\ net = "item"
    /\ IF cnx THEN net' = "loop" /\ handed' = Append(handed, current) /\ current' = NULL
              ELSE net' = "crashed" /\ UNCHANGED <<handed, current>>
    /\ UNCHANGED <<closeVars, queueVars, sender, finished, wake, passes, acked,
                   waitVars>>

(* Mutant: a pass ends whether the queue is empty or not.                  *)
EndPassAnytime ==
    /\ net = "loop"
    /\ NextPass
    /\ UNCHANGED <<closeVars, queueVars, sender, finished, wake, current, handed,
                   acked, waitVars>>

EndPass ==
    /\ net = "loop"
    /\ send_head = NULL
    /\ NextPass
    /\ UNCHANGED <<closeVars, queueVars, sender, finished, wake, current, handed,
                   acked, waitVars>>

(* The peer has acknowledged the stream up to the FIN picoquic was given.  *)
Acknowledge ==
    /\ quic # "disconnected"
    /\ \E j \in 1 .. Len(handed) : kind[handed[j]] = "fin"
    /\ acked' = TRUE
    /\ UNCHANGED <<closeVars, queueVars, sender, finished, wake, net, passes,
                   current, handed, waitVars>>

CallbackClose ==
    /\ net = "idle"
    /\ CallbackCloseFlags
    /\ UNCHANGED <<queueVars, sender, finished, netVars, waitVars>>

(* An application thread in pq_close_connection.                           *)
Close(t) ==
    /\ \/ CloseTake(t)
       \/ QuicClose(t)
       \/ LeaveRecvSection(t)
       \/ LeaveDgramSection(t)
    /\ UNCHANGED <<queueVars, sender, finished, netVars, waitVars>>

-----------------------------------------------------------------------------
(* Main in pq_wait_stream_complete.                                        *)

WaitFrame == UNCHANGED <<closeVars, queueVars, sender, finished, netVars>>

WaitCall ==
    /\ waiter = "idle"
    /\ finished /\ sender[Main] = "idle"
    /\ waiter' = IF is_closed THEN "error" ELSE "test"
    /\ UNCHANGED waited
    /\ WaitFrame

(* Mutant: the queue is not looked at.                                     *)
WaitTestSkipsQueue ==
    /\ waiter = "test"
    /\ waiter' = IF waited >= Timeout THEN "error" ELSE "state"
    /\ UNCHANGED waited
    /\ WaitFrame

WaitTest ==
    /\ waiter = "test"
    /\ waiter' = IF waited >= Timeout THEN "error"
                 ELSE IF send_head = NULL /\ cnx THEN "state" ELSE "sleep"
    /\ UNCHANGED waited
    /\ WaitFrame

(* picoquic_get_cnx_state(conn->cnx): conn->cnx is read again.             *)
WaitState ==
    /\ waiter = "state"
    /\ waiter' = IF ~cnx THEN "crashed"
                 ELSE IF quic # "open" \/ is_closed THEN "zero" ELSE "settle"
    /\ UNCHANGED waited
    /\ WaitFrame

(* Mutant: the sleeps with an empty queue are not counted.                 *)
WaitSleepUncounted ==
    /\ waiter \in {"settle", "sleep"}
    /\ waited' = IF waiter = "sleep" THEN waited + 1 ELSE waited
    /\ waiter' = IF is_closed \/ (waiter = "settle" /\ waited' >= Settle)
                 THEN "zero" ELSE "test"
    /\ WaitFrame

WaitSleep ==
    /\ waiter \in {"settle", "sleep"}
    /\ waited' = waited + 1
    /\ waiter' = IF is_closed \/ (waiter = "settle" /\ waited' >= Settle)
                 THEN "zero" ELSE "test"
    /\ WaitFrame

-----------------------------------------------------------------------------

Crashed == net = "crashed" \/ waiter = "crashed"

Send(s)  == (\E k \in Kinds : SendCall(s, k)) \/ queue_send(s) \/ WakeNetwork(s)
NetStep  == WakeUp \/ StartPass \/ TakeItem \/ HandOver \/ EndPass
WaitStep == WaitTest \/ WaitState \/ WaitSleep

Next ==
    /\ ~Crashed
    /\ \/ \E s \in Senders : Send(s)
       \/ NetStep
       \/ Acknowledge
       \/ CallbackClose
       \/ \E t \in Closers : Close(t)
       \/ WaitCall
       \/ WaitStep

(***************************************************************************)
(* Fairness: a thread inside a call finishes it, and the network thread    *)
(* runs.  Nothing is assumed of the peer, or of calls not made yet.        *)
(***************************************************************************)
Running(A) == ~Crashed /\ A

Fairness ==
    /\ \A s \in Senders : WF_vars(Running(queue_send(s) \/ WakeNetwork(s)))
    /\ WF_vars(Running(NetStep))
    /\ WF_vars(Running(WaitStep))

Spec == Init /\ [][Next]_vars
FairSpec == Spec /\ Fairness

-----------------------------------------------------------------------------
(* Properties.                                                             *)

(* What has left the list, in order.                                       *)
Taken == IF current = NULL THEN handed ELSE Append(handed, current)

(***************************************************************************)
(* The list is what was appended and not yet taken, in the order of the    *)
(* appends: picoquic gets every item once, in order, and send_tail never   *)
(* points to an item that was freed.                                       *)
(***************************************************************************)
QueueIntact ==
    /\ \A j \in 1 .. Len(Taken) : Taken[j] = j
    /\ send_head = NULL => send_tail = NULL /\ Len(Taken) = allocated
    /\ send_head # NULL =>
          /\ send_head = Len(Taken) + 1
          /\ send_tail = allocated
          /\ send_head <= send_tail
          /\ next[send_tail] = NULL
          /\ \A i \in send_head .. send_tail - 1 : next[i] = i + 1

(***************************************************************************)
(* No lost wake-up: while there are items on the list of an open           *)
(* connection, the network thread is in the loop that empties it, is about *)
(* to be, or a thread is about to ask for it.                              *)
(***************************************************************************)
QueueWillBeServed ==
    send_head # NULL /\ cnx =>
        \/ wake
        \/ net \in {"pass", "loop", "item", "crashed"}
        \/ \E s \in Senders : sender[s] = "wake"

(***************************************************************************)
(* The list keeps what is appended until the network thread takes it, and  *)
(* the network thread will come.                                           *)
(***************************************************************************)
QueueDelivers == QueueIntact /\ QueueWillBeServed

(***************************************************************************)
(* Once Main has called pq_finish_stream no stream item follows the FIN,   *)
(* and pq_wait_stream_complete returns 0 on an open connection only when   *)
(* every stream item, the FIN too, is off the list.                        *)
(***************************************************************************)
ZeroMeansTaken ==
    waiter = "zero" /\ ~is_closed =>
        \A i \in 1 .. allocated :
            kind[i] # "dgram" => \E j \in 1 .. Len(Taken) : Taken[j] = i

(***************************************************************************)
(* An item that was appended is given to picoquic, unless the connection   *)
(* is closed first.                                                        *)
(***************************************************************************)
EveryItemIsHandedOver ==
    \A i \in Items :
        allocated >= i ~> is_closed \/ \E j \in 1 .. Len(handed) : handed[j] = i

(***************************************************************************)
(* pq_wait_stream_complete returns, whatever the network does.             *)
(***************************************************************************)
WaitReturns ==
    waiter = "test" ~> waiter \in {"zero", "error", "crashed"} \/ net = "crashed"

(***************************************************************************)
(* "Wait for stream 0 to be fully sent and acknowledged ... Returns 0 on   *)
(* success": with a result of 0 on an open connection the whole stream is  *)
(* acknowledged.                                                           *)
(***************************************************************************)
ZeroMeansAcknowledged ==
    waiter = "zero" /\ ~is_closed => acked

(***************************************************************************)
(* Shutting down is graceful: closing a connection while items are being   *)
(* sent or waited for does not end the process.                            *)
(***************************************************************************)
ShutdownIsGraceful == ~Crashed
=============================================================================
