---------------------------- MODULE PqSendProofs ----------------------------
(***************************************************************************)
(* Proofs about PqSend, for every number of sending and closing threads,   *)
(* of items and of sleeps: the type invariant, the integrity of the linked *)
(* list of send items, and that no wake-up of the network thread is lost.  *)
(***************************************************************************)
EXTENDS PqSend, SequenceTheorems, TLAPS

CloseStep == \E t \in Closers : CloseTake(t) \/ QuicClose(t)
                               \/ LeaveRecvSection(t) \/ LeaveDgramSection(t)

(***************************************************************************)
(* The type invariant needs this much of the control state: inside a       *)
(* wake_up a call of process_send_queue is left, and the network thread    *)
(* has an item in its hands exactly between taking and handing it over.    *)
(***************************************************************************)
NetInv ==
    /\ net \in {"pass", "loop", "item"} => passes # 0
    /\ net \in {"item", "crashed"} <=> current # NULL

(* The types hold at the beginning.                                        *)
LEMMA TypeInit == Init => TypeOK /\ NetInv
<1> SUFFICES ASSUME Init PROVE TypeOK /\ NetInv
    OBVIOUS
<1>1. CloseTypeOK
      BY DEF Init, CloseInit, CloseTypeOK, CloserPc
<1>2. handed \in Seq(Items)
      BY EmptySeq, Zenon DEF Init
<1>3. allocated \in 0 .. MaxItems /\ passes \in 0 .. 2 /\ waited \in Nat
      BY PqSendAssumption DEF Init
<1>4. sender \in [Senders -> SenderPc] /\ kind \in [Items -> Kinds]
      /\ next \in [Items -> Items \cup {NULL}]
      BY DEF Init, SenderPc, Kinds
<1> QED BY <1>1, <1>2, <1>3, <1>4 DEF Init, TypeOK, NetInv, NetPc, WaiterPc

(* The steps of the close keep its types.                                  *)
LEMMA CloseType == CloseTypeOK /\ CloseStep => CloseTypeOK'
BY DEF CloseStep, CloseTypeOK, CloserPc, CloseTake, QuicClose, LeaveRecvSection,
       LeaveDgramSection

(* Every step keeps the types.                                             *)
LEMMA TypeNext == TypeOK /\ NetInv /\ [Next]_vars => TypeOK'
<1> SUFFICES ASSUME TypeOK, NetInv, [Next]_vars PROVE TypeOK'
    OBVIOUS
<1> USE PqSendAssumption DEF TypeOK, queueVars, netVars, waitVars
<1>0. UNCHANGED closeVars => CloseTypeOK'
      BY DEF CloseTypeOK, closeVars
<1>1. ASSUME NEW s \in Senders, Send(s) PROVE TypeOK'
  <2>1. ASSUME NEW k \in Kinds, SendCall(s, k) PROVE TypeOK'
        BY <1>0, <2>1 DEF SendCall, SenderPc
  <2>2. CASE queue_send(s)
    <3>1. /\ allocated' \in 0 .. MaxItems
          /\ allocated + 1 \in Items
          BY <2>2 DEF queue_send, Items
    <3>2. kind' \in [Items -> Kinds] /\ next' \in [Items -> Items \cup {NULL}]
          BY <2>2, <3>1 DEF queue_send
    <3>3. sender' \in [Senders -> SenderPc]
          BY <2>2 DEF queue_send, SenderPc
    <3> QED BY <1>0, <2>2, <3>1, <3>2, <3>3 DEF queue_send
  <2>3. CASE WakeNetwork(s)
        BY <1>0, <2>3 DEF WakeNetwork, SenderPc
  <2> QED BY <1>1, <2>1, <2>2, <2>3 DEF Send
<1>2. CASE NetStep
  <2>1. CASE WakeUp
    <3>1. passes' \in 0 .. 2 /\ net' \in NetPc
          BY <2>1 DEF WakeUp, NetPc
    <3> QED BY <1>0, <2>1, <3>1 DEF WakeUp
  <2>2. CASE StartPass
        BY <1>0, <2>2 DEF StartPass, NextPass, NetPc, NetInv
  <2>3. CASE TakeItem
        BY <1>0, <2>3 DEF TakeItem, NetPc
  <2>4. CASE HandOver
    <3>1. current \in Items
          BY <2>4 DEF HandOver, NetInv
    <3>2. Append(handed, current) \in Seq(Items)
          BY <3>1, AppendProperties
    <3>3. handed' \in Seq(Items) /\ net' \in NetPc /\ current' \in Items \cup {NULL}
          BY <2>4, <3>2 DEF HandOver, NetPc
    <3> QED BY <1>0, <2>4, <3>3 DEF HandOver
  <2>5. CASE EndPass
        BY <1>0, <2>5 DEF EndPass, NextPass, NetPc, NetInv
  <2> QED BY <1>2, <2>1, <2>2, <2>3, <2>4, <2>5 DEF NetStep
<1>3. CASE Acknowledge
      BY <1>0, <1>3 DEF Acknowledge
<1>4. CASE CallbackClose
      BY <1>4 DEF CallbackClose, CallbackCloseFlags, CloseTypeOK
<1>5. ASSUME NEW t \in Closers, Close(t) PROVE TypeOK'
  <2>1. CloseTypeOK'
        BY <1>5, CloseType DEF Close, CloseStep
  <2> QED BY <1>5, <2>1 DEF Close
<1>6. CASE WaitCall
      BY <1>0, <1>6 DEF WaitCall, WaitFrame, WaiterPc
<1>7. CASE WaitStep
      BY <1>0, <1>7 DEF WaitStep, WaitTest, WaitState, WaitSleep, WaitFrame, WaiterPc
<1>8. CASE UNCHANGED vars
      BY <1>0, <1>8 DEF vars
<1> QED BY <1>1, <1>2, <1>3, <1>4, <1>5, <1>6, <1>7, <1>8 DEF Next

(* The network thread holds an item between taking it and handing it over  *)
(* only.                                                                   *)
LEMMA NetNext == TypeOK /\ NetInv /\ [Next]_vars => NetInv'
<1> SUFFICES ASSUME TypeOK, NetInv, [Next]_vars PROVE NetInv'
    OBVIOUS
<1> USE DEF NetInv, netVars, queueVars
<1>1. CASE UNCHANGED <<net, passes, current>>
      BY <1>1
<1>2. ASSUME NEW s \in Senders, Send(s) PROVE NetInv'
      BY <1>1, <1>2 DEF Send, SendCall, queue_send, WakeNetwork
<1>3. CASE NetStep
  <2>1. CASE WakeUp
        BY <2>1 DEF WakeUp
  <2>2. CASE StartPass
        BY <2>2 DEF StartPass, NextPass, TypeOK
  <2>3. CASE TakeItem
        BY <2>3 DEF TakeItem
  <2>4. CASE HandOver
        BY <2>4 DEF HandOver
  <2>5. CASE EndPass
        BY <2>5 DEF EndPass, NextPass, TypeOK
  <2> QED BY <1>3, <2>1, <2>2, <2>3, <2>4, <2>5 DEF NetStep
<1>4. CASE Acknowledge \/ CallbackClose \/ WaitCall \/ WaitStep
      BY <1>1, <1>4 DEF Acknowledge, CallbackClose, WaitCall, WaitStep, WaitTest,
                        WaitState, WaitSleep, WaitFrame
<1>5. ASSUME NEW t \in Closers, Close(t) PROVE NetInv'
      BY <1>1, <1>5 DEF Close
<1>6. CASE UNCHANGED vars
      BY <1>1, <1>6 DEF vars
<1> QED BY <1>2, <1>3, <1>4, <1>5, <1>6 DEF Next

(***************************************************************************)
(* The type invariant, for every value of the constants.                   *)
(***************************************************************************)
THEOREM TypeCorrect == Spec => []TypeOK
BY TypeInit, TypeNext, NetNext, PTL DEF Spec

-----------------------------------------------------------------------------
(***************************************************************************)
(* The linked list.  QueueIntact is inductive with one more fact: an item  *)
(* that is not in the list yet, or is its last one, has no successor.      *)
(***************************************************************************)
QueueInv ==
    /\ QueueIntact
    /\ \A i \in Items : i >= allocated => next[i] = NULL

(* What has left the list is a sequence of items.                          *)
LEMMA TakenType ==
    ASSUME TypeOK, NetInv
    PROVE  Taken \in Seq(Items) /\ Len(Taken) \in Nat
<1>1. CASE current = NULL
      BY <1>1, LenProperties DEF Taken, TypeOK
<1>2. CASE current # NULL
  <2>1. current \in Items /\ handed \in Seq(Items)
        BY <1>2 DEF TypeOK
  <2> QED BY <1>2, <2>1, AppendProperties, LenProperties DEF Taken
<1> QED BY <1>1, <1>2

(* The list is empty at the beginning.                                     *)
LEMMA QueueInit == Init => QueueInv
<1> SUFFICES ASSUME Init PROVE QueueInv
    OBVIOUS
<1>1. Taken = << >> /\ Len(Taken) = 0
      BY DEF Init, Taken
<1>2. \A j \in 1 .. Len(Taken) : Taken[j] = j
      BY <1>1
<1>3. \A i \in Items : next[i] = NULL
      BY DEF Init
<1>4. send_head = NULL /\ send_tail = NULL /\ Len(Taken) = allocated
      BY <1>1 DEF Init
<1> QED BY <1>2, <1>3, <1>4 DEF QueueInv, QueueIntact

(* Every append and every removal keeps the order of the list.             *)
LEMMA QueueNext == TypeOK /\ NetInv /\ QueueInv /\ [Next]_vars => QueueInv'
<1> SUFFICES ASSUME TypeOK, NetInv, QueueInv, [Next]_vars PROVE QueueInv'
    OBVIOUS
<1> USE DEF netVars, queueVars
<1>0. /\ allocated \in Nat /\ MaxItems \in Nat
      /\ send_head \in Items \cup {NULL} /\ send_tail \in Items \cup {NULL}
      /\ next \in [Items -> Items \cup {NULL}]
      /\ handed \in Seq(Items) /\ Len(Taken) \in Nat
      BY PqSendAssumption, TakenType DEF TypeOK
<1>1. CASE UNCHANGED <<send_head, send_tail, next, allocated, handed, current>>
      BY <1>1 DEF QueueInv, QueueIntact, Taken
<1>2. ASSUME NEW s \in Senders, queue_send(s) PROVE QueueInv'
  <2>1. Taken' = Taken /\ allocated' = allocated + 1 /\ allocated + 1 \in Items
        BY <1>2 DEF queue_send, Taken
  <2>2. CASE send_tail = NULL
    <3>1. send_head = NULL /\ Len(Taken) = allocated
          BY <1>0, <2>2 DEF QueueInv, QueueIntact, Items, NULL
    <3>2. next' = next /\ send_head' = allocated + 1 /\ send_tail' = allocated + 1
          BY <1>2, <2>2 DEF queue_send
    <3> QED BY <1>0, <2>1, <3>1, <3>2 DEF QueueInv, QueueIntact, NULL
  <2>3. CASE send_tail # NULL
    <3>1. /\ send_head # NULL /\ send_head = Len(Taken) + 1 /\ send_tail = allocated
          /\ send_head <= send_tail
          /\ \A i \in send_head .. send_tail - 1 : next[i] = i + 1
          BY <2>3 DEF QueueInv, QueueIntact
    <3>2. /\ next' = [next EXCEPT ![allocated] = allocated + 1]
          /\ send_head' = send_head /\ send_tail' = allocated + 1
          BY <1>2, <2>3, <3>1 DEF queue_send
    <3>3. allocated \in Items
          BY <1>0, <2>3, <3>1
    <3>4. \A i \in Items : i >= allocated + 1 => next'[i] = NULL
          BY <1>0, <3>2, <3>3 DEF QueueInv, Items
    <3>5. \A i \in send_head .. allocated : next'[i] = i + 1
      <4> TAKE i \in send_head .. allocated
      <4>1. i \in Items
            BY <1>0, <3>1, <3>3 DEF Items
      <4>2. CASE i = allocated
            BY <1>0, <3>2, <3>3, <4>2
      <4>3. CASE i # allocated
            BY <1>0, <3>1, <3>2, <3>3, <4>1, <4>3
      <4> QED BY <4>2, <4>3
    <3>6. next'[send_tail'] = NULL
          BY <1>0, <2>1, <3>2, <3>4
    <3> QED BY <1>0, <2>1, <3>1, <3>2, <3>4, <3>5, <3>6 DEF QueueInv, QueueIntact
  <2> QED BY <2>2, <2>3
<1>3. CASE TakeItem
  <2>1. /\ send_head # NULL /\ current = NULL /\ current' = send_head
        /\ send_head' = next[send_head]
        /\ send_tail' = IF send_head' = NULL THEN NULL ELSE send_tail
        /\ UNCHANGED <<next, allocated, handed>>
        BY <1>3 DEF TakeItem, NetInv
  <2>2. Taken = handed /\ Taken' = Append(handed, send_head)
        BY <1>0, <2>1 DEF Taken
  <2>3. /\ send_head \in Items /\ send_head = Len(handed) + 1
        /\ send_tail = allocated /\ next[send_tail] = NULL
        /\ \A i \in send_head .. send_tail - 1 : next[i] = i + 1
        /\ \A j \in 1 .. Len(handed) : handed[j] = j
        BY <1>0, <2>1, <2>2 DEF QueueInv, QueueIntact
  <2>4. /\ Len(Taken') = Len(handed) + 1
        /\ \A j \in 1 .. Len(Taken') : Taken'[j] = j
        BY <1>0, <2>2, <2>3, AppendProperties
  <2>5. send_head <= send_tail
        BY <2>1 DEF QueueInv, QueueIntact
  <2>6. CASE send_head = send_tail
        BY <1>0, <2>1, <2>2, <2>3, <2>4, <2>6 DEF QueueInv, QueueIntact
  <2>7. CASE send_head < send_tail
    <3>1. send_head' = send_head + 1 /\ send_head' # NULL
          BY <1>0, <2>1, <2>3, <2>7 DEF Items, NULL
    <3> QED BY <1>0, <2>1, <2>3, <2>4, <2>7, <3>1 DEF QueueInv, QueueIntact, Items
  <2> QED BY <2>3, <2>5, <2>6, <2>7, <1>0 DEF Items
<1>4. CASE HandOver
  <2>1. CASE cnx
    <3>1. Taken' = Taken
          BY <1>4, <2>1 DEF HandOver, NetInv, Taken
    <3> QED BY <1>4, <3>1 DEF HandOver, QueueInv, QueueIntact
  <2>2. CASE ~cnx
        BY <1>1, <1>4, <2>2 DEF HandOver
  <2> QED BY <2>1, <2>2
<1>5. ASSUME NEW s \in Senders, (\E k \in Kinds : SendCall(s, k)) \/ WakeNetwork(s)
      PROVE  QueueInv'
      BY <1>1, <1>5 DEF SendCall, WakeNetwork
<1>6. CASE WakeUp \/ StartPass \/ EndPass \/ Acknowledge \/ CallbackClose
      BY <1>1, <1>6 DEF WakeUp, StartPass, EndPass, Acknowledge, CallbackClose
<1>7. ASSUME NEW t \in Closers, Close(t) PROVE QueueInv'
      BY <1>1, <1>7 DEF Close
<1>8. CASE WaitCall \/ WaitStep
      BY <1>1, <1>8 DEF WaitCall, WaitStep, WaitTest, WaitState, WaitSleep, WaitFrame
<1>9. CASE UNCHANGED vars
      BY <1>1, <1>9 DEF vars
<1> QED BY <1>2, <1>3, <1>4, <1>5, <1>6, <1>7, <1>8, <1>9 DEF Next, Send, NetStep

(***************************************************************************)
(* Items reach picoquic in the order of the calls, each once, and the list *)
(* is never left pointing to an item that was freed.                       *)
(***************************************************************************)
THEOREM QueueCorrect == Spec => []QueueIntact
<1>1. QueueInv => QueueIntact
      BY DEF QueueInv
<1> QED BY TypeInit, TypeNext, NetNext, QueueInit, QueueNext, <1>1, PTL DEF Spec

-----------------------------------------------------------------------------

(***************************************************************************)
(* Once picoquic has reported the end of the connection, cnx is NULL: the  *)
(* network thread skips only connections nobody may send on.               *)
(***************************************************************************)
ServedInv ==
    /\ QueueWillBeServed
    /\ quic = "disconnected" => ~cnx

(* Nothing waits on the list at the beginning.                             *)
LEMMA ServedInit == Init => ServedInv
BY DEF Init, CloseInit, ServedInv, QueueWillBeServed

(* What is on the list keeps a wake-up or a pass before it.                *)
LEMMA ServedNext == TypeOK /\ ServedInv /\ [Next]_vars => ServedInv'
<1> SUFFICES ASSUME TypeOK, ServedInv, [Next]_vars PROVE ServedInv'
    OBVIOUS
<1> USE DEF ServedInv, QueueWillBeServed, netVars, queueVars, closeVars
<1>0. sender \in [Senders -> SenderPc]
      BY DEF TypeOK
<1>1. ASSUME NEW s \in Senders, Send(s) PROVE ServedInv'
  <2>1. ASSUME NEW k \in Kinds, SendCall(s, k) PROVE ServedInv'
        BY <1>0, <2>1 DEF SendCall
  <2>2. CASE queue_send(s)
        BY <1>0, <2>2 DEF queue_send
  <2>3. CASE WakeNetwork(s)
        BY <2>3 DEF WakeNetwork
  <2> QED BY <1>1, <2>1, <2>2, <2>3 DEF Send
<1>2. CASE WakeUp
  <2>1. CASE quic # "disconnected"
    <3>1. passes' # 0
          BY <1>2, <2>1 DEF WakeUp
    <3> QED BY <1>2, <3>1 DEF WakeUp
  <2>2. CASE quic = "disconnected"
        BY <1>2, <2>2 DEF WakeUp
  <2> QED BY <2>1, <2>2
<1>3. CASE StartPass
      BY <1>3 DEF StartPass, NextPass
<1>4. CASE TakeItem \/ HandOver
      BY <1>4 DEF TakeItem, HandOver
<1>5. CASE EndPass
      BY <1>5 DEF EndPass, NextPass
<1>6. CASE Acknowledge \/ CallbackClose
      BY <1>6 DEF Acknowledge, CallbackClose, CallbackCloseFlags
<1>7. ASSUME NEW t \in Closers, Close(t) PROVE ServedInv'
      BY <1>7 DEF Close, CloseTake, QuicClose, LeaveRecvSection, LeaveDgramSection
<1>8. CASE WaitCall \/ WaitStep
      BY <1>8 DEF WaitCall, WaitStep, WaitTest, WaitState, WaitSleep, WaitFrame
<1>9. CASE UNCHANGED vars
      BY <1>9 DEF vars
<1> QED BY <1>1, <1>2, <1>3, <1>4, <1>5, <1>6, <1>7, <1>8, <1>9 DEF Next, NetStep

(***************************************************************************)
(* No item waits on the list of an open connection without the network     *)
(* thread being at work on it or asked to be.                              *)
(***************************************************************************)
THEOREM WakeUpNotLost == Spec => []QueueWillBeServed
<1>1. ServedInv => QueueWillBeServed
      BY DEF ServedInv
<1> QED BY TypeInit, TypeNext, NetNext, ServedInit, ServedNext, <1>1, PTL DEF Spec

(***************************************************************************)
(* Both together: the list is intact and has the network thread before it. *)
(***************************************************************************)
THEOREM QueueIsServed == Spec => []QueueDelivers
<1>1. QueueIntact /\ QueueWillBeServed => QueueDelivers
      BY DEF QueueDelivers
<1> QED BY QueueCorrect, WakeUpNotLost, <1>1, PTL

-----------------------------------------------------------------------------
(***************************************************************************)
(* However many threads close the connection, and whatever the network     *)
(* thread does meanwhile, one of them at most calls picoquic_close.        *)
(***************************************************************************)
LEMMA SingleNext == TypeOK /\ SingleQuicClose /\ [Next]_vars => SingleQuicClose'
<1> SUFFICES ASSUME TypeOK, SingleQuicClose, [Next]_vars PROVE SingleQuicClose'
    OBVIOUS
<1> USE DEF SingleQuicClose, closeVars
<1>0. closer \in [Closers -> CloserPc]
      BY DEF TypeOK, CloseTypeOK
<1>1. CASE UNCHANGED closeVars
      BY <1>1
<1>2. ASSUME NEW t \in Closers, Close(t) PROVE SingleQuicClose'
      BY <1>0, <1>2 DEF Close, CloseTake, QuicClose, LeaveRecvSection, LeaveDgramSection
<1>3. CASE CallbackClose
      BY <1>3 DEF CallbackClose, CallbackCloseFlags
<1>4. ASSUME NEW s \in Senders, Send(s) PROVE SingleQuicClose'
      BY <1>1, <1>4 DEF Send, SendCall, queue_send, WakeNetwork
<1>5. CASE NetStep
      BY <1>1, <1>5 DEF NetStep, WakeUp, StartPass, TakeItem, HandOver, EndPass
<1>6. CASE Acknowledge \/ WaitCall \/ WaitStep
      BY <1>1, <1>6 DEF Acknowledge, WaitCall, WaitStep, WaitTest, WaitState,
                        WaitSleep, WaitFrame
<1>7. CASE UNCHANGED vars
      BY <1>1, <1>7 DEF vars
<1> QED BY <1>2, <1>3, <1>4, <1>5, <1>6, <1>7 DEF Next

(* Of all that close a connection, one at most calls picoquic_close.       *)
THEOREM ClosedOnce == Spec => []SingleQuicClose
<1>1. Init => SingleQuicClose
      BY DEF Init, CloseInit, SingleQuicClose
<1> QED BY TypeInit, TypeNext, NetNext, SingleNext, <1>1, PTL DEF Spec

-----------------------------------------------------------------------------
(***************************************************************************)
(* The wait for the stream.  The last item of the stream was appended when *)
(* Main starts to wait, so the test that finds the list empty speaks of    *)
(* the whole stream, and what is sent afterwards are datagrams only.       *)
(***************************************************************************)
StreamTaken == \A i \in 1 .. allocated : kind[i] # "dgram" => i <= Len(Taken)

WaitInv ==
    /\ \A s \in Senders : sender[s] \in {"data", "fin"} => s = Main /\ waiter = "idle"
    /\ waiter # "idle" => finished
    /\ waiter \in {"state", "settle"} \/ (waiter = "zero" /\ ~is_closed) => StreamTaken

(* What leaves the list stays out of it.                                   *)
LEMMA TakenGrows ==
    ASSUME TypeOK, NetInv, QueueInv, NetStep
    PROVE  Len(Taken') >= Len(Taken)
<1>1. handed \in Seq(Items) /\ Len(Taken) \in Nat
      BY TakenType DEF TypeOK
<1>2. CASE UNCHANGED <<current, handed>>
      BY <1>1, <1>2 DEF Taken
<1>3. CASE TakeItem
  <2>1. /\ current = NULL /\ current' = send_head /\ send_head # NULL
        /\ handed' = handed /\ send_head \in Items
        BY <1>3 DEF TakeItem, NetInv, TypeOK, queueVars
  <2>2. Taken = handed /\ Taken' = Append(handed, send_head)
        BY <2>1 DEF Taken
  <2>3. Len(Append(handed, send_head)) = Len(handed) + 1
        BY <1>1, <2>1, AppendProperties
  <2> QED BY <1>1, <2>2, <2>3
<1>4. CASE HandOver /\ cnx
  <2>1. current # NULL /\ handed' = Append(handed, current) /\ current' = NULL
        BY <1>4 DEF HandOver, NetInv
  <2>2. Taken' = Taken
        BY <2>1 DEF Taken
  <2> QED BY <1>1, <2>2
<1> QED BY <1>2, <1>3, <1>4 DEF NetStep, WakeUp, StartPass, HandOver, EndPass

(* Once the list has been seen empty, what was waited for stays taken.     *)
LEMMA WaitNext ==
    TypeOK /\ NetInv /\ QueueInv /\ WaitInv /\ [Next]_vars => WaitInv'
<1> SUFFICES ASSUME TypeOK, NetInv, QueueInv, WaitInv, [Next]_vars PROVE WaitInv'
    OBVIOUS
<1> USE DEF WaitInv, queueVars, netVars, waitVars
<1>0. /\ sender \in [Senders -> SenderPc] /\ Main \in Senders
      /\ allocated \in Nat /\ Len(Taken) \in Nat
      /\ kind \in [Items -> Kinds]
      BY PqSendAssumption, TakenType DEF TypeOK
<1>1. ASSUME UNCHANGED <<sender, finished, allocated, kind, current, handed, waitVars>>,
             is_closed => is_closed'
      PROVE  WaitInv'
  <2>1. StreamTaken' <=> StreamTaken
        BY <1>1 DEF StreamTaken, Taken
  <2> QED BY <1>1, <2>1
<1>2. ASSUME NEW s \in Senders, NEW k \in Kinds, SendCall(s, k) PROVE WaitInv'
  <2>1. StreamTaken' <=> StreamTaken
        BY <1>2 DEF SendCall, StreamTaken, Taken
  <2>2. /\ sender' = [sender EXCEPT ![s] = k]
        /\ UNCHANGED <<waiter, is_closed>>
        /\ finished => finished'
        /\ k # "dgram" => s = Main /\ ~finished
        BY <1>2 DEF SendCall, closeVars
  <2> QED BY <1>0, <2>1, <2>2
<1>3. ASSUME NEW s \in Senders, queue_send(s) PROVE WaitInv'
  <2>1. /\ sender' = [sender EXCEPT ![s] = "wake"]
        /\ UNCHANGED <<waiter, is_closed, finished>>
        /\ sender[s] \in Kinds
        BY <1>3 DEF queue_send, closeVars
  <2>2. ASSUME waiter # "idle", StreamTaken PROVE StreamTaken'
    <3>1. sender[s] = "dgram"
          BY <2>1, <2>2 DEF Kinds
    <3>2. /\ Len(Taken') = Len(Taken)
          /\ allocated' = allocated + 1 /\ allocated + 1 \in Items
          /\ kind' = [kind EXCEPT ![allocated + 1] = "dgram"]
          BY <1>3, <3>1 DEF queue_send, Taken
    <3>3. \A i \in 1 .. allocated + 1 : i \in Items
          BY <1>0, <3>2, PqSendAssumption DEF Items
    <3>4. \A i \in 1 .. allocated + 1 :
             kind'[i] # "dgram" => i \in 1 .. allocated /\ kind[i] # "dgram"
          BY <1>0, <3>2, <3>3
    <3> QED BY <2>2, <3>2, <3>4 DEF StreamTaken
  <2> QED BY <1>0, <2>1, <2>2
<1>4. ASSUME NEW s \in Senders, WakeNetwork(s) PROVE WaitInv'
  <2>1. StreamTaken' <=> StreamTaken
        BY <1>4 DEF WakeNetwork, StreamTaken, Taken
  <2> QED BY <1>0, <1>4, <2>1 DEF WakeNetwork, closeVars
<1>5. CASE NetStep
  <2>1. UNCHANGED <<sender, finished, allocated, kind, waiter, is_closed>>
        BY <1>5 DEF NetStep, WakeUp, StartPass, TakeItem, HandOver, EndPass, closeVars
  <2>2. Len(Taken') \in Nat
        BY TypeNext, NetNext, TakenType
  <2>3. ASSUME StreamTaken PROVE StreamTaken'
        BY <1>0, <1>5, <2>1, <2>2, <2>3, TakenGrows DEF StreamTaken
  <2> QED BY <2>1, <2>3
<1>6. CASE Acknowledge \/ CallbackClose
      BY <1>1, <1>6 DEF Acknowledge, CallbackClose, CallbackCloseFlags, closeVars
<1>7. ASSUME NEW t \in Closers, Close(t) PROVE WaitInv'
      BY <1>1, <1>7 DEF Close, CloseTake, QuicClose, LeaveRecvSection, LeaveDgramSection
<1>8. CASE WaitCall \/ WaitStep
  <2>1. StreamTaken' <=> StreamTaken
        BY <1>8 DEF WaitCall, WaitStep, WaitTest, WaitState, WaitSleep, WaitFrame,
                    StreamTaken, Taken
  <2>2. UNCHANGED <<sender, finished, is_closed>>
        BY <1>8 DEF WaitCall, WaitStep, WaitTest, WaitState, WaitSleep, WaitFrame,
                    closeVars
  <2>3. CASE WaitCall
        BY <1>0, <2>1, <2>2, <2>3 DEF WaitCall
  <2>4. CASE WaitTest
    <3>1. ASSUME send_head = NULL PROVE StreamTaken
          BY <1>0, <3>1 DEF QueueInv, QueueIntact, StreamTaken
    <3> QED BY <2>1, <2>2, <2>4, <3>1 DEF WaitTest
  <2>5. CASE WaitState
        BY <2>1, <2>2, <2>5 DEF WaitState
  <2>6. CASE WaitSleep
        BY <2>1, <2>2, <2>6 DEF WaitSleep
  <2> QED BY <1>8, <2>3, <2>4, <2>5, <2>6 DEF WaitStep
<1>9. CASE UNCHANGED vars
      BY <1>1, <1>9 DEF vars, closeVars
<1> QED BY <1>2, <1>3, <1>4, <1>5, <1>6, <1>7, <1>8, <1>9 DEF Next, Send

(***************************************************************************)
(* A wait that returns 0 on an open connection has seen the whole stream   *)
(* leave the list, for any number of threads that send datagrams.          *)
(***************************************************************************)
THEOREM WaitCorrect == Spec => []ZeroMeansTaken
<1>1. Init => WaitInv
      BY DEF Init, WaitInv
<1>2. TypeOK /\ NetInv /\ QueueInv /\ WaitInv => ZeroMeansTaken
  <2> SUFFICES ASSUME TypeOK, NetInv, QueueInv, WaitInv, waiter = "zero", ~is_closed,
                      NEW i \in 1 .. allocated, kind[i] # "dgram"
               PROVE  \E j \in 1 .. Len(Taken) : Taken[j] = i
      BY DEF ZeroMeansTaken
  <2>1. i <= Len(Taken) /\ Len(Taken) \in Nat
        BY TakenType DEF WaitInv, StreamTaken
  <2>2. i \in 1 .. Len(Taken)
        BY <2>1
  <2>3. Taken[i] = i
        BY <2>2 DEF QueueInv, QueueIntact
  <2> QED BY <2>2, <2>3
<1> QED BY TypeInit, TypeNext, NetNext, QueueInit, QueueNext, WaitNext, <1>1, <1>2, PTL DEF Spec
=============================================================================
