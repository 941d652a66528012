-------------------------- MODULE PqConnectProofs --------------------------
(***************************************************************************)
(* Proofs about PqContext and PqConnect, for every number of connections,  *)
(* of threads in pq_accept and of polls: the type invariant, that a        *)
(* connection has one wrapper which misses no event, and that it is        *)
(* accepted once.  Next to a client the server takes the steps that        *)
(* PqContext gives it or none, so what is proved of a server alone holds   *)
(* of it there; and a connection the client gives up does not stay open.   *)
(***************************************************************************)
EXTENDS PqConnect, SequenceTheorems, TLAPS

(***************************************************************************)
(* The moves a connection's state and wrapper make, whichever path takes   *)
(* them: nothing, or a first wrapper that goes to the pending slot.        *)
(***************************************************************************)
Unpublished == UNCHANGED <<wrapped, wrappers, acceptVars>>

Published(c) == ~wrapped[c] /\ create_connection(c) /\ Publish(c)

(* What the network thread does, seen from the wrappers and the slot.      *)
LEMMA NetworkCases ==
    ASSUME NEW c \in Conns,
           \/ Handshake(c)
           \/ \E event \in {"other", "ready", "close"} : Event(c, event)
           \/ AfterReceive(c)
    PROVE  Unpublished \/ Published(c)
<1>1. CASE Handshake(c)
      BY <1>1 DEF Handshake, Unpublished
<1>2. ASSUME NEW event \in {"other", "ready", "close"}, Event(c, event)
      PROVE  Unpublished \/ Published(c)
      BY <1>2 DEF Event, StreamCallback, Unpublished, Published
<1>3. CASE AfterReceive(c)
      BY <1>3 DEF AfterReceive, Published
<1> QED BY <1>1, <1>2, <1>3

(* The signal wakes one thread, if one waits.                              *)
LEMMA SignalCases ==
    ASSUME TypeOK, SignalAccept
    PROVE  /\ acceptor' \in [Acceptors -> {"idle", "waiting", "woken", "poll"}]
           /\ \A a \in Acceptors :
                 acceptor'[a] = acceptor[a]
                 \/ (acceptor[a] = "waiting" /\ acceptor'[a] = "woken")
           /\ Acceptors # {} => \E a \in Acceptors : acceptor'[a] # "waiting"
<1>1. CASE {a \in Acceptors : acceptor[a] = "waiting"} = {}
      BY <1>1 DEF SignalAccept, TypeOK
<1>2. CASE {a \in Acceptors : acceptor[a] = "waiting"} # {}
  <2>1. PICK a \in Acceptors : /\ acceptor[a] = "waiting"
                               /\ acceptor' = [acceptor EXCEPT ![a] = "woken"]
        BY <1>2 DEF SignalAccept
  <2> QED BY <2>1 DEF TypeOK
<1> QED BY <1>1, <1>2

-----------------------------------------------------------------------------
(* Every variable of the context keeps its type.                           *)

(* A thread that polls has a connection.                                   *)
PollInv == \A a \in Acceptors : acceptor[a] = "poll" <=> conn[a] # None

SlotInv == has_pending_conn <=> pending_conn # None

(* The types hold at the beginning.                                        *)
LEMMA TypeInit == Init => TypeOK /\ PollInv /\ SlotInv
<1> SUFFICES ASSUME Init PROVE TypeOK /\ PollInv /\ SlotInv
    OBVIOUS
<1>1. << >> \in Seq(Conns)
      BY EmptySeq, Zenon
<1> QED BY <1>1 DEF Init, TypeOK, PollInv, SlotInv

(* Publishing a connection fills the slot with a connection that exists.   *)
LEMMA PublishType ==
    ASSUME TypeOK, PollInv, SlotInv, NEW c \in Conns, Published(c)
    PROVE  /\ wrapped' \in [Conns -> BOOLEAN]
           /\ wrappers' \in [Conns -> Nat]
           /\ pending_conn' \in Conns \cup {None}
           /\ has_pending_conn' \in BOOLEAN
           /\ acceptor' \in [Acceptors -> {"idle", "waiting", "woken", "poll"}]
           /\ UNCHANGED <<conn, timeout, accepted>>
           /\ PollInv' /\ SlotInv'
<1>1. SignalAccept /\ UNCHANGED <<conn, timeout, accepted>>
      BY DEF Published, Publish
<1>2. /\ acceptor' \in [Acceptors -> {"idle", "waiting", "woken", "poll"}]
      /\ \A a \in Acceptors :
            acceptor'[a] = acceptor[a]
            \/ (acceptor[a] = "waiting" /\ acceptor'[a] = "woken")
      BY <1>1, SignalCases
<1>3. PollInv'
      BY <1>1, <1>2 DEF PollInv
<1>4. wrappers' \in [Conns -> Nat] /\ wrapped' \in [Conns -> BOOLEAN]
      BY DEF Published, create_connection, TypeOK
<1>5. pending_conn' \in Conns \cup {None} /\ has_pending_conn' \in BOOLEAN /\ SlotInv'
      BY PqContextAssumption DEF Published, Publish, SlotInv, None
<1> QED BY <1>1, <1>2, <1>3, <1>4, <1>5

(* Every step keeps the types.                                             *)
LEMMA TypeNext ==
    TypeOK /\ PollInv /\ SlotInv /\ [Next]_vars => TypeOK' /\ PollInv' /\ SlotInv'
<1> SUFFICES ASSUME TypeOK, PollInv, SlotInv, [Next]_vars
             PROVE  TypeOK' /\ PollInv' /\ SlotInv'
    OBVIOUS
<1>1. CASE Network
  <2>1. PICK c \in Conns : \/ Handshake(c)
                           \/ \E event \in {"other", "ready", "close"} : Event(c, event)
                           \/ AfterReceive(c)
        BY <1>1 DEF Network
  <2>2. /\ state' \in [Conns -> {"absent", "early"} \cup AlmostReadyOrLater]
        /\ handshake_done' \in [Conns -> BOOLEAN]
        /\ is_closed' \in [Conns -> BOOLEAN]
        /\ UNCHANGED context
    <3>1. CASE Handshake(c)
          BY <3>1 DEF Handshake, TypeOK, AlmostReadyOrLater
    <3>2. ASSUME NEW event \in {"other", "ready", "close"}, Event(c, event)
          PROVE  /\ state' \in [Conns -> {"absent", "early"} \cup AlmostReadyOrLater]
                 /\ handshake_done' \in [Conns -> BOOLEAN]
                 /\ is_closed' \in [Conns -> BOOLEAN]
                 /\ UNCHANGED context
      <4>1. state' \in [Conns -> {"absent", "early"} \cup AlmostReadyOrLater]
            BY <3>2 DEF Event, TypeOK, AlmostReadyOrLater
      <4>2. /\ handshake_done' \in [Conns -> BOOLEAN]
            /\ is_closed' \in [Conns -> BOOLEAN]
            BY <3>2 DEF Event, StreamCallback, HandleEvent, TypeOK
      <4> QED BY <3>2, <4>1, <4>2 DEF Event
    <3>3. CASE AfterReceive(c)
          BY <3>3 DEF AfterReceive, TypeOK
    <3> QED BY <2>1, <3>1, <3>2, <3>3
  <2>3. CASE Unpublished
        BY <2>2, <2>3 DEF Unpublished, acceptVars, TypeOK, PollInv, SlotInv
  <2>4. CASE Published(c)
        BY <2>2, <2>4, PublishType DEF TypeOK
  <2> QED BY <2>1, <2>3, <2>4, NetworkCases
<1>2. ASSUME NEW a \in Acceptors, Accept(a) PROVE TypeOK' /\ PollInv' /\ SlotInv'
  <2> USE PqContextAssumption DEF TypeOK, PollInv, SlotInv, None, connVars
  <2>1. CASE Take(a)
        BY <2>1 DEF Take
  <2>2. CASE Wait(a) \/ SpuriousWake(a)
        BY <2>2 DEF Wait, SpuriousWake
  <2>3. CASE Poll(a)
    <3>1. timeout[a] # 0 /\ timeout[a] \in Nat
          BY <2>3 DEF Poll, Settled
    <3>2. timeout' \in [Acceptors -> Nat]
          BY <2>3, <3>1 DEF Poll
    <3> QED BY <2>3, <3>2 DEF Poll
  <2>4. CASE Return(a)
    <3>1. conn[a] \in Conns
          BY <2>4 DEF Return
    <3>2. accepted' \in Seq(Conns)
          BY <2>4, <3>1, AppendProperties DEF Return
    <3> QED BY <2>4, <3>2 DEF Return
  <2> QED BY <1>2, <2>1, <2>2, <2>3, <2>4 DEF Accept
<1>3. CASE StopNetwork \/ Destroy \/ UNCHANGED vars
      BY <1>3 DEF StopNetwork, Destroy, vars, connVars, acceptVars, TypeOK, PollInv, SlotInv
<1> QED BY <1>1, <1>2, <1>3 DEF Next

(***************************************************************************)
(* The type invariant, for any number of connections and threads.          *)
(***************************************************************************)
THEOREM TypeCorrect == Spec => []TypeOK
BY TypeInit, TypeNext, PTL DEF Spec

-----------------------------------------------------------------------------
(***************************************************************************)
(* The wrapper is the callback context from the moment it is made, which   *)
(* is what both paths look at.                                             *)
(***************************************************************************)
WrapperInv == \A c \in Conns : wrappers[c] = IF wrapped[c] THEN 1 ELSE 0

(* No step makes a second wrapper.                                         *)
LEMMA WrapperNext == TypeOK /\ WrapperInv /\ [Next]_vars => WrapperInv'
<1> SUFFICES ASSUME TypeOK, WrapperInv, [Next]_vars PROVE WrapperInv'
    OBVIOUS
<1>1. CASE UNCHANGED <<wrapped, wrappers>>
      BY <1>1 DEF WrapperInv
<1>2. CASE Network
  <2>1. PICK c \in Conns : Unpublished \/ Published(c)
        BY <1>2, NetworkCases DEF Network
  <2>2. CASE Published(c)
        BY <2>2 DEF Published, create_connection, WrapperInv, TypeOK
  <2> QED BY <1>1, <2>1, <2>2 DEF Unpublished
<1>3. ASSUME NEW a \in Acceptors, Accept(a) PROVE WrapperInv'
      BY <1>1, <1>3 DEF Accept, Take, Wait, SpuriousWake, Poll, Return, connVars
<1>4. CASE StopNetwork \/ Destroy \/ UNCHANGED vars
      BY <1>1, <1>4 DEF StopNetwork, Destroy, vars, connVars
<1> QED BY <1>2, <1>3, <1>4 DEF Next

(***************************************************************************)
(* The two paths to create_connection never make a second wrapper.         *)
(***************************************************************************)
THEOREM WrapperCorrect == Spec => []OneWrapper
<1>1. Init => WrapperInv
      BY DEF Init, WrapperInv
<1>2. WrapperInv => OneWrapper
      BY DEF WrapperInv, OneWrapper
<1> QED BY TypeInit, TypeNext, WrapperNext, <1>1, <1>2, PTL DEF Spec

(* StateIsSeen is inductive: a state and its event come in one callback.   *)
LEMMA SeenNext == TypeOK /\ StateIsSeen /\ [Next]_vars => StateIsSeen'
<1> SUFFICES ASSUME TypeOK, StateIsSeen, [Next]_vars PROVE StateIsSeen'
    OBVIOUS
<1>1. CASE UNCHANGED <<state, handshake_done, is_closed>>
      BY <1>1 DEF StateIsSeen
<1>2. ASSUME NEW c \in Conns, Handshake(c) PROVE StateIsSeen'
      BY <1>2 DEF Handshake, StateIsSeen, TypeOK
<1>3. ASSUME NEW c \in Conns, NEW event \in {"other", "ready", "close"}, Event(c, event)
      PROVE  StateIsSeen'
  <2>1. CASE event = "other"
        BY <1>3, <2>1 DEF Event, StreamCallback, HandleEvent, StateIsSeen, TypeOK
  <2>2. CASE event \in {"ready", "close"}
    <3>1. state'[c] \in AlmostReadyOrLater
          BY <1>3, <2>2 DEF Event, TypeOK, AlmostReadyOrLater
    <3>2. HandleEvent(c, event)
          BY <1>3, <3>1 DEF Event, StreamCallback
    <3> QED BY <1>3, <2>2, <3>2 DEF Event, HandleEvent, StateIsSeen, TypeOK
  <2> QED BY <2>1, <2>2
<1>4. ASSUME NEW c \in Conns, AfterReceive(c) PROVE StateIsSeen'
      BY <1>1, <1>4 DEF AfterReceive
<1>5. ASSUME NEW a \in Acceptors, Accept(a) PROVE StateIsSeen'
      BY <1>1, <1>5 DEF Accept, Take, Wait, SpuriousWake, Poll, Return, connVars
<1>6. CASE StopNetwork \/ Destroy \/ UNCHANGED vars
      BY <1>1, <1>6 DEF StopNetwork, Destroy, vars, connVars
<1> QED BY <1>2, <1>3, <1>4, <1>5, <1>6 DEF Next, Network

(***************************************************************************)
(* The ready and close events reach the wrapper although one of them may   *)
(* be what it is made for.                                                 *)
(***************************************************************************)
THEOREM EventsCorrect == Spec => []StateIsSeen
<1>1. Init => StateIsSeen
      BY DEF Init, StateIsSeen
<1> QED BY TypeInit, TypeNext, SeenNext, <1>1, PTL DEF Spec

-----------------------------------------------------------------------------
(***************************************************************************)
(* A connection goes from the slot to one thread to its caller: it is in   *)
(* one of the three places at most, and has a wrapper in any of them.      *)
(***************************************************************************)
HandInv ==
    /\ pending_conn # None => wrapped[pending_conn]
    /\ \A a \in Acceptors : conn[a] # None => wrapped[conn[a]] /\ conn[a] # pending_conn
    /\ \A i \in 1 .. Len(accepted) : wrapped[accepted[i]] /\ accepted[i] # pending_conn
    /\ \A a, b \in Acceptors : conn[a] # None /\ conn[a] = conn[b] => a = b
    /\ \A a \in Acceptors, i \in 1 .. Len(accepted) : conn[a] # accepted[i]
    /\ \A i, j \in 1 .. Len(accepted) : accepted[i] = accepted[j] => i = j

(* A connection is handed on and never copied.                             *)
LEMMA HandNext ==
    TypeOK /\ PollInv /\ SlotInv /\ HandInv /\ [Next]_vars => HandInv'
<1> SUFFICES ASSUME TypeOK, PollInv, SlotInv, HandInv, [Next]_vars PROVE HandInv'
    OBVIOUS
<1> USE PqContextAssumption DEF None
<1>0. \A i \in 1 .. Len(accepted) : accepted[i] \in Conns
      BY ElementOfSeq DEF TypeOK
<1>1. CASE UNCHANGED <<wrapped, pending_conn, conn, accepted>>
      BY <1>1 DEF HandInv
<1>2. CASE Network
  <2>1. PICK c \in Conns : Unpublished \/ Published(c)
        BY <1>2, NetworkCases DEF Network
  <2>2. CASE Published(c)
    <3>1. /\ ~wrapped[c]
          /\ wrapped' = [wrapped EXCEPT ![c] = TRUE]
          /\ pending_conn' = c
          /\ UNCHANGED <<conn, accepted>>
          BY <2>2 DEF Published, create_connection, Publish
    <3>2. /\ wrapped'[c]
          /\ \A d \in Conns : wrapped[d] => wrapped'[d] /\ d # c
          BY <3>1 DEF TypeOK
    <3>3. \A a \in Acceptors : conn[a] # None => wrapped'[conn[a]] /\ conn[a] # c
          BY <3>1, <3>2 DEF HandInv, TypeOK
    <3>4. \A i \in 1 .. Len(accepted) : wrapped'[accepted[i]] /\ accepted[i] # c
          BY <1>0, <3>1, <3>2 DEF HandInv
    <3> QED BY <3>1, <3>2, <3>3, <3>4 DEF HandInv
  <2> QED BY <1>1, <2>1, <2>2 DEF Unpublished, acceptVars
<1>3. ASSUME NEW a \in Acceptors, Take(a) PROVE HandInv'
  <2>1. /\ conn' = [conn EXCEPT ![a] = pending_conn]
        /\ pending_conn' = None /\ pending_conn # None
        /\ UNCHANGED <<wrapped, accepted>>
        BY <1>3 DEF Take, SlotInv, connVars
  <2>2. /\ conn'[a] = pending_conn
        /\ \A b \in Acceptors : b # a => conn'[b] = conn[b]
        BY <2>1 DEF TypeOK
  <2>3. \A b \in Acceptors : b # a => conn'[b] # conn'[a] \/ conn'[b] = None
        BY <2>2 DEF HandInv
  <2> QED BY <1>0, <2>1, <2>2, <2>3 DEF HandInv
<1>4. ASSUME NEW a \in Acceptors, Return(a) PROVE HandInv'
  <2> DEFINE n == Len(accepted)
  <2>1. /\ accepted' = Append(accepted, conn[a])
        /\ conn' = [conn EXCEPT ![a] = None]
        /\ UNCHANGED <<wrapped, pending_conn>>
        /\ conn[a] # None /\ conn[a] \in Conns
        BY <1>4 DEF Return, connVars, PollInv, TypeOK
  <2>2. /\ n \in Nat /\ Len(accepted') = n + 1
        /\ accepted'[n + 1] = conn[a]
        /\ \A i \in 1 .. n : accepted'[i] = accepted[i]
        BY <2>1, AppendProperties, LenProperties DEF TypeOK
  <2>3. conn'[a] = None /\ \A b \in Acceptors : b # a => conn'[b] = conn[b]
        BY <2>1 DEF TypeOK
  <2>4. \A i \in 1 .. n + 1 : i \in 1 .. n \/ i = n + 1
        BY <2>2
  <2> HIDE DEF n
  <2>5. \A i \in 1 .. n + 1 : wrapped[accepted'[i]] /\ accepted'[i] # pending_conn
        BY <2>1, <2>2, <2>4 DEF HandInv, n
  <2>6. \A i \in 1 .. n + 1 : accepted'[i] \in Conns
        BY <1>0, <2>1, <2>2, <2>4 DEF n
  <2>7. \A b \in Acceptors, i \in 1 .. n + 1 : conn'[b] # accepted'[i]
    <3> SUFFICES ASSUME NEW b \in Acceptors, NEW i \in 1 .. n + 1
                 PROVE  conn'[b] # accepted'[i]
        OBVIOUS
    <3>1. CASE b = a
          BY <2>3, <2>6, <3>1
    <3>2. CASE b # a /\ i = n + 1
          BY <2>1, <2>2, <2>3, <3>2 DEF HandInv
    <3>3. CASE b # a /\ i \in 1 .. n
          BY <2>2, <2>3, <3>3 DEF HandInv, n
    <3> QED BY <2>4, <3>1, <3>2, <3>3
  <2>8. \A i, j \in 1 .. n + 1 : accepted'[i] = accepted'[j] => i = j
    <3>1. \A i \in 1 .. n : accepted'[i] # accepted'[n + 1]
          BY <2>2 DEF HandInv, n
    <3>2. \A i, j \in 1 .. n : accepted'[i] = accepted'[j] => i = j
          BY <2>2 DEF HandInv, n
    <3> QED BY <2>4, <3>1, <3>2
  <2>9. \A b \in Acceptors : conn'[b] # None => wrapped[conn'[b]] /\ conn'[b] # pending_conn
        BY <2>3 DEF HandInv
  <2>10. \A b, d \in Acceptors : conn'[b] # None /\ conn'[b] = conn'[d] => b = d
        BY <2>3 DEF HandInv
  <2> QED BY <2>1, <2>2, <2>5, <2>7, <2>8, <2>9, <2>10 DEF HandInv, n
<1>5. ASSUME NEW a \in Acceptors, Wait(a) \/ SpuriousWake(a) \/ Poll(a) PROVE HandInv'
      BY <1>1, <1>5 DEF Wait, SpuriousWake, Poll, connVars
<1>6. CASE StopNetwork \/ Destroy \/ UNCHANGED vars
      BY <1>1, <1>6 DEF StopNetwork, Destroy, vars, connVars, acceptVars
<1> QED BY <1>2, <1>3, <1>4, <1>5, <1>6 DEF Next, Accept

(***************************************************************************)
(* pq_accept returns a connection to one caller, once, for any number of   *)
(* threads that call it.                                                   *)
(***************************************************************************)
THEOREM AcceptCorrect == Spec => []AcceptedOnce
<1>1. Init => HandInv
      BY DEF Init, HandInv, None
<1>2. PollInv /\ HandInv => AcceptedOnce
      BY DEF PollInv, HandInv, AcceptedOnce
<1> QED BY TypeInit, TypeNext, HandNext, <1>1, <1>2, PTL DEF Spec

-----------------------------------------------------------------------------
(* Publishing signals, and only a thread that found the slot empty sleeps. *)
LEMMA HeardNext ==
    ASSUME Acceptors # {}
    PROVE  TypeOK /\ SlotInv /\ PendingIsHeard /\ [Next]_vars => PendingIsHeard'
<1> SUFFICES ASSUME TypeOK, SlotInv, PendingIsHeard, [Next]_vars PROVE PendingIsHeard'
    OBVIOUS
<1> USE DEF PendingIsHeard
<1>1. CASE UNCHANGED <<pending_conn, has_pending_conn, acceptor>>
      BY <1>1
<1>2. CASE Network
  <2>1. PICK c \in Conns : Unpublished \/ Published(c)
        BY <1>2, NetworkCases DEF Network
  <2>2. CASE Published(c)
        BY <2>2, SignalCases DEF Published, Publish
  <2> QED BY <1>1, <2>1, <2>2 DEF Unpublished, acceptVars
<1>3. ASSUME NEW a \in Acceptors, Accept(a) PROVE PendingIsHeard'
      BY <1>3 DEF Accept, Take, Wait, SpuriousWake, Poll, Return, TypeOK
<1>4. CASE StopNetwork \/ Destroy \/ UNCHANGED vars
      BY <1>1, <1>4 DEF StopNetwork, Destroy, vars, acceptVars
<1> QED BY <1>2, <1>3, <1>4 DEF Next

(***************************************************************************)
(* A pending connection never finds every thread in pq_accept asleep.      *)
(***************************************************************************)
THEOREM PendingHeard ==
    ASSUME Acceptors # {}
    PROVE  Spec => []PendingIsHeard
<1>1. Init => PendingIsHeard
      BY DEF Init, PendingIsHeard
<1>2. TypeOK /\ SlotInv /\ PendingIsHeard /\ [Next]_vars => PendingIsHeard'
      BY HeardNext
<1> QED BY TypeInit, TypeNext, <1>1, <1>2, PTL DEF Spec

(***************************************************************************)
(* What picoquic tells of a connection is all told to one wrapper.         *)
(***************************************************************************)
THEOREM EventsReachWrapper == Spec => []EventsReachOneWrapper
<1>1. OneWrapper /\ StateIsSeen => EventsReachOneWrapper
      BY DEF EventsReachOneWrapper
<1> QED BY WrapperCorrect, EventsCorrect, <1>1, PTL

(***************************************************************************)
(* The slot hands a connection to one thread, once, and one is awake.      *)
(***************************************************************************)
THEOREM SlotCorrect ==
    ASSUME Acceptors # {}
    PROVE  Spec => []SlotHandsOver
<1>1. AcceptedOnce /\ PendingIsHeard => SlotHandsOver
      BY DEF SlotHandsOver
<1> QED BY AcceptCorrect, PendingHeard, <1>1, PTL

-----------------------------------------------------------------------------
(* A server that may have a client.                                        *)

(* The server implements the specification of a server alone.              *)
LEMMA ServerStepIsStep == [ConnectNext]_connectVars => [Next]_vars
BY DEF ConnectNext, ClientStep, ServerStep, connectVars

(* A server that may have this client behaves as PqContext says.           *)
LEMMA ServerRefines == ConnectSpec => Spec
<1>1. ConnectInit => Init
      BY DEF ConnectInit
<1> QED BY <1>1, ServerStepIsStep, PTL DEF ConnectSpec, Spec

(***************************************************************************)
(* With a client that comes and goes, what picoquic tells of a connection  *)
(* is still all told to one wrapper.                                       *)
(***************************************************************************)
THEOREM ClientEventsReachWrapper == ConnectSpec => []EventsReachOneWrapper
BY ServerRefines, EventsReachWrapper, PTL

(***************************************************************************)
(* With a client that comes and goes, the slot still hands a connection to *)
(* one thread, once, and one is awake.                                     *)
(***************************************************************************)
THEOREM ClientSlotCorrect ==
    ASSUME Acceptors # {}
    PROVE  ConnectSpec => []SlotHandsOver
BY ServerRefines, SlotCorrect, PTL

-----------------------------------------------------------------------------
(* The client.                                                             *)

ClientTypeOK ==
    /\ client \in Connecting
         \cup {"start", "null", "connected", "end_quic", "closed", "ended"}
    /\ polls \in 0 .. Handshaking
    /\ cnxState \in Open \cup {"none", "closing", "disconnected", "freed"}
    /\ clientDone \in BOOLEAN /\ clientClosed \in BOOLEAN
    /\ clientCnx \in BOOLEAN

(* Before pq_connect there is nothing to close; cnx is looked at only      *)
(* while there are polls left.                                             *)
StartInv == client = "start" => cnxState = "none" /\ ~clientClosed
LookInv == client = "look" => polls > 0

(***************************************************************************)
(* An open connection can be found through the wrapper, which is not       *)
(* closed then, or the main thread holds it and is about to close it.      *)
(***************************************************************************)
Holding == client \in {"close_quic", "end_quic"}
OpenInv == cnxState \in Open => Holding \/ (clientCnx /\ ~clientClosed)

ClientInv == ClientTypeOK /\ StartInv /\ LookInv /\ OpenInv /\ NothingStaysOpen

(* pq_connect has not been called at the beginning.                        *)
LEMMA ClientInit == ConnectInit => ClientInv /\ answered \in BOOLEAN
<1>1. 0 \in 0 .. Handshaking
      BY PqConnectAssumption
<1> QED
    BY <1>1
    DEF ConnectInit, ClientInv, ClientTypeOK, StartInv, LookInv, OpenInv, NothingStaysOpen,
        Connecting, Open

(***************************************************************************)
(* pq_close_connection: whoever takes an open connection goes on to close  *)
(* it, and finding none to take means that there is none open.             *)
(***************************************************************************)
LEMMA TakeNext ==
    ASSUME ClientInv, NEW from \in {"close", "connected"},
           NEW holding \in {"close_quic", "end_quic"}, NEW empty \in {"null", "closed"},
           CloseTake(from, holding, empty)
    PROVE  ClientInv'
<1> USE DEF ClientInv, CloseTake
<1>1. client' \in {holding, empty} /\ UNCHANGED cnxState
      OBVIOUS
<1>2. cnxState' \in Open => client' = holding
      BY DEF OpenInv, Holding
<1>3. ClientTypeOK'
      BY <1>1 DEF ClientTypeOK, Connecting
<1>4. StartInv' /\ LookInv'
      BY <1>1 DEF StartInv, LookInv
<1>5. OpenInv' /\ NothingStaysOpen'
      BY <1>2 DEF OpenInv, Holding, NothingStaysOpen
<1> QED BY <1>3, <1>4, <1>5

(* After picoquic_close the connection is past being open.                 *)
LEMMA QuicCloseNext ==
    ASSUME ClientInv, NEW from \in {"close_quic", "end_quic"}, NEW to \in {"null", "closed"},
           QuicClose(from, to)
    PROVE  ClientInv'
<1>1. cnxState' \notin Open /\ client' = to
      BY DEF QuicClose, Open
<1>2. ClientTypeOK' /\ StartInv' /\ LookInv'
      BY <1>1 DEF ClientInv, QuicClose, ClientTypeOK, StartInv, LookInv, Connecting
<1> QED BY <1>1, <1>2 DEF ClientInv, OpenInv, NothingStaysOpen

(* Every step keeps what is known of the handshake and its end.            *)
LEMMA ClientNext == ClientInv /\ [ConnectNext]_connectVars => ClientInv'
<1> SUFFICES ASSUME ClientInv, [ConnectNext]_connectVars PROVE ClientInv'
    OBVIOUS
<1>a. CASE CloseFailed
      BY <1>a, TakeNext, QuicCloseNext DEF CloseFailed
<1>b. CASE CloseClient
      BY <1>b, TakeNext, QuicCloseNext DEF CloseClient
<1> USE DEF ClientInv, ClientTypeOK, StartInv, LookInv, OpenInv, NothingStaysOpen,
            Holding, Connecting, Open
<1>1. CASE ClientReady
      BY <1>1 DEF ClientReady, Online
<1>2. CASE ClientClose
      BY <1>2 DEF ClientClose, Online
<1>3. CASE ClientFree
      BY <1>3 DEF ClientFree
<1>4. CASE Start
  <2>1. Handshaking \in 0 .. Handshaking
        BY PqConnectAssumption
  <2>2. clientCnx' \in BOOLEAN /\ polls' \in 0 .. Handshaking
        BY <1>4, <2>1 DEF Start
  <2> QED BY <1>4, <2>2 DEF Start
<1>5. CASE Look
      BY <1>5 DEF Look, Waiting
<1>6. CASE Sleep
      BY <1>6, PqConnectAssumption DEF Sleep, Waiting
<1>7. CASE LeavePolls
      BY <1>7, PqConnectAssumption DEF LeavePolls
<1>8. CASE Check
      BY <1>8 DEF Check
<1>9. CASE EndClient
      BY <1>9 DEF EndClient
<1>10. CASE UNCHANGED clientVars
      BY <1>10 DEF clientVars
<1> QED BY <1>a, <1>b, <1>1, <1>2, <1>3, <1>4, <1>5, <1>6, <1>7, <1>8, <1>9, <1>10
        DEF ConnectNext, ClientStep, ServerStep, Connect, connectVars

(***************************************************************************)
(* Every variable of the client and of the server keeps its type.          *)
(***************************************************************************)
THEOREM ConnectTypeCorrect == ConnectSpec => []ConnectTypeOK
<1>1. answered \in BOOLEAN /\ [ConnectNext]_connectVars => (answered \in BOOLEAN)'
      BY DEF ConnectNext, ClientStep, ServerStep, connectVars
<1>2. TypeOK /\ ClientInv /\ answered \in BOOLEAN => ConnectTypeOK
      BY DEF ConnectTypeOK, ClientInv, ClientTypeOK
<1> QED BY ServerRefines, TypeCorrect, ClientInit, ClientNext, <1>1, <1>2, PTL DEF ConnectSpec

(***************************************************************************)
(* A connection that was given up is not left open in picoquic, whatever   *)
(* the network thread did while pq_close_connection took it and closed it, *)
(* for any number of polls.                                                *)
(***************************************************************************)
THEOREM GivenUpIsClosed == ConnectSpec => []NothingStaysOpen
<1>1. ClientInv => NothingStaysOpen
      BY DEF ClientInv
<1> QED BY ClientInit, ClientNext, <1>1, PTL DEF ConnectSpec
=============================================================================
