----------------------------- MODULE PqContext -----------------------------
(***************************************************************************)
(* A server's pq_context_t (pkg/picoquic): how the network thread gives a  *)
(* picoquic connection its pq_connection_t, how the one pending slot hands *)
(* it to pq_accept, and how pq_destroy_context ends it all.                *)
(*                                                                         *)
(* A wrapper is made on one of two paths, whichever the network thread     *)
(* takes first: when an event reaches a connection whose callback context  *)
(* is still the pq_context_t, or in the scan after every received packet.  *)
(* A wrapper is named by its connection, and wrappers counts the calls of  *)
(* create_connection, so that a second one would show.                     *)
(***************************************************************************)
EXTENDS Integers, Sequences, FiniteSets

CONSTANTS
    Conns,      \* picoquic connections that reach the server
    Acceptors,  \* threads in pq_accept
    Patience    \* the 5000 polls of pq_accept for handshake_done

ASSUME PqContextAssumption ==
    /\ Patience \in Nat
    /\ "none" \notin Conns

VARIABLES
    state,          \* picoquic_get_cnx_state of a connection
    wrapped,        \* its callback context is a pq_connection_t
    wrappers,       \* history: how often create_connection was called for it
    handshake_done, is_closed,
    pending_conn, has_pending_conn,
    acceptor,       \* where each thread is in pq_accept
    conn,           \* its local variable
    timeout,        \* and its other one: polls left
    accepted,       \* history: what pq_accept returned, in order
    context         \* the pq_context_t: live, stopped, hung or freed

connVars   == <<state, wrapped, wrappers, handshake_done, is_closed>>
acceptVars == <<pending_conn, has_pending_conn, acceptor, conn, timeout, accepted>>
vars       == <<connVars, acceptVars, context>>

None == "none"

(***************************************************************************)
(* picoquic's enumeration is ordered, and the states of a connection that  *)
(* is ending come after server_almost_ready and ready.                     *)
(***************************************************************************)
AlmostReadyOrLater == {"almost_ready", "ready", "disconnected"}

TypeOK ==
    /\ state \in [Conns -> {"absent", "early"} \cup AlmostReadyOrLater]
    /\ wrapped \in [Conns -> BOOLEAN]
    /\ wrappers \in [Conns -> Nat]
    /\ handshake_done \in [Conns -> BOOLEAN]
    /\ is_closed \in [Conns -> BOOLEAN]
    /\ pending_conn \in Conns \cup {None}
    /\ has_pending_conn \in BOOLEAN
    /\ acceptor \in [Acceptors -> {"idle", "waiting", "woken", "poll"}]
    /\ conn \in [Acceptors -> Conns \cup {None}]
    /\ timeout \in [Acceptors -> Nat]
    /\ accepted \in Seq(Conns)
    /\ context \in {"live", "stopped", "hung", "freed"}

Init ==
    /\ state = [c \in Conns |-> "absent"]
    /\ wrapped = [c \in Conns |-> FALSE]
    /\ wrappers = [c \in Conns |-> 0]
    /\ handshake_done = [c \in Conns |-> FALSE]
    /\ is_closed = [c \in Conns |-> FALSE]
    /\ pending_conn = None
    /\ has_pending_conn = FALSE
    /\ acceptor = [a \in Acceptors |-> "idle"]
    /\ conn = [a \in Acceptors |-> None]
    /\ timeout = [a \in Acceptors |-> 0]
    /\ accepted = << >>
    /\ context = "live"

-----------------------------------------------------------------------------
(* The network thread.                                                     *)

(* pthread_cond_signal(&accept_cond).                                      *)
SignalAccept ==
    LET waiting == {a \in Acceptors : acceptor[a] = "waiting"}
    IN  IF waiting = {} THEN UNCHANGED acceptor
        ELSE \E a \in waiting : acceptor' = [acceptor EXCEPT ![a] = "woken"]

(* create_connection makes the wrapper the callback context of cnx.        *)
create_connection(c) ==
    /\ wrappers' = [wrappers EXCEPT ![c] = @ + 1]
    /\ wrapped' = [wrapped EXCEPT ![c] = TRUE]

(* Mutant: the slot is filled without a signal.                            *)
PublishSilently(c) ==
    /\ pending_conn' = c
    /\ has_pending_conn' = TRUE
    /\ UNCHANGED <<acceptor, conn, timeout, accepted>>

(* The pending slot takes the newest connection, an older one or not.      *)
Publish(c) ==
    /\ pending_conn' = c
    /\ has_pending_conn' = TRUE
    /\ SignalAccept
    /\ UNCHANGED <<conn, timeout, accepted>>

(* What picoquic does by itself, without an event for the application.     *)
Handshake(c) ==
    /\ context = "live"
    /\ state' \in {[state EXCEPT ![c] = "early"], [state EXCEPT ![c] = "almost_ready"]}
    /\ \/ state[c] = "absent" /\ state'[c] = "early"
       \/ state[c] = "early" /\ state'[c] = "almost_ready"
    /\ UNCHANGED <<wrapped, wrappers, handshake_done, is_closed, acceptVars, context>>

(* The cases of stream_callback for ready and close.                       *)
HandleEvent(c, event) ==
    /\ handshake_done' = [handshake_done EXCEPT ![c] = @ \/ event = "ready"]
    /\ is_closed' = [is_closed EXCEPT ![c] = @ \/ event = "close"]

(* Mutant: the wrapper is made, but the event is not given to it.          *)
StreamCallbackNoReinvoke(c, event) ==
    /\ IF wrapped[c]
       THEN HandleEvent(c, event) /\ UNCHANGED <<wrapped, wrappers, acceptVars>>
       ELSE /\ UNCHANGED <<handshake_done, is_closed>>
            /\ IF state'[c] \in AlmostReadyOrLater
               THEN create_connection(c) /\ Publish(c)
               ELSE UNCHANGED <<wrapped, wrappers, acceptVars>>

(***************************************************************************)
(* stream_callback: with a wrapper as its context it handles the event;    *)
(* with the pq_context_t it makes the wrapper first, if the connection has *)
(* come far enough, and calls itself again with it.                        *)
(***************************************************************************)
StreamCallback(c, event) ==
    \/ /\ wrapped[c]
       /\ HandleEvent(c, event)
       /\ UNCHANGED <<wrapped, wrappers, acceptVars>>
    \/ /\ ~wrapped[c] /\ state'[c] \in AlmostReadyOrLater
       /\ create_connection(c)
       /\ Publish(c)
       /\ HandleEvent(c, event)
    \/ /\ ~wrapped[c] /\ state'[c] \notin AlmostReadyOrLater
       /\ UNCHANGED <<wrapped, wrappers, handshake_done, is_closed, acceptVars>>

(***************************************************************************)
(* The events of a connection: picoquic moves it to the state it reports   *)
(* before it calls back.  A close event may end a handshake too.           *)
(***************************************************************************)
Event(c, event) ==
    /\ context = "live"
    /\ \/ /\ event = "other"
          /\ state[c] \in {"early", "almost_ready", "ready"}
          /\ UNCHANGED state
       \/ /\ event = "ready"
          /\ state[c] = "almost_ready"
          /\ state' = [state EXCEPT ![c] = "ready"]
       \/ /\ event = "close"
          /\ state[c] \in {"early", "almost_ready", "ready"}
          /\ state' = [state EXCEPT ![c] = "disconnected"]
    /\ StreamCallback(c, event)
    /\ UNCHANGED context

(* loop_callback, packet_loop_after_receive: one connection of the scan.   *)
AfterReceive(c) ==
    /\ context = "live"
    /\ ~wrapped[c]
    /\ state[c] \in AlmostReadyOrLater
    /\ create_connection(c)
    /\ Publish(c)
    /\ UNCHANGED <<state, handshake_done, is_closed, context>>

-----------------------------------------------------------------------------
(* The threads in pq_accept.                                               *)

(* Mutant: the slot is not emptied.                                        *)
TakeKeepsPending(a) ==
    /\ acceptor[a] \in {"idle", "woken"}
    /\ has_pending_conn
    /\ acceptor' = [acceptor EXCEPT ![a] = "poll"]
    /\ conn' = [conn EXCEPT ![a] = pending_conn]
    /\ timeout' = [timeout EXCEPT ![a] = Patience]
    /\ UNCHANGED <<connVars, pending_conn, has_pending_conn, accepted, context>>

(***************************************************************************)
(* The critical section of accept_lock: wait, or empty the slot.  A new    *)
(* call needs the context; a woken thread takes the lock it left.          *)
(***************************************************************************)
Take(a) ==
    /\ acceptor[a] \in {"idle", "woken"}
    /\ has_pending_conn
    /\ acceptor' = [acceptor EXCEPT ![a] = "poll"]
    /\ conn' = [conn EXCEPT ![a] = pending_conn]
    /\ timeout' = [timeout EXCEPT ![a] = Patience]
    /\ pending_conn' = None
    /\ has_pending_conn' = FALSE
    /\ UNCHANGED <<connVars, accepted, context>>

Wait(a) ==
    /\ acceptor[a] \in {"idle", "woken"}
    /\ ~has_pending_conn
    /\ acceptor' = [acceptor EXCEPT ![a] = "waiting"]
    /\ UNCHANGED <<connVars, pending_conn, has_pending_conn, conn, timeout,
                   accepted, context>>

SpuriousWake(a) ==
    /\ acceptor[a] = "waiting"
    /\ acceptor' = [acceptor EXCEPT ![a] = "woken"]
    /\ UNCHANGED <<connVars, pending_conn, has_pending_conn, conn, timeout,
                   accepted, context>>

(* Mutant: the last poll is the one that finds the timeout used up.        *)
SettledLate(a) == handshake_done[conn[a]] \/ is_closed[conn[a]] \/ timeout[a] < 0

(* The polls for handshake_done, outside accept_lock.                      *)
Settled(a) == handshake_done[conn[a]] \/ is_closed[conn[a]] \/ timeout[a] = 0

Poll(a) ==
    /\ acceptor[a] = "poll"
    /\ ~Settled(a)
    /\ timeout' = [timeout EXCEPT ![a] = @ - 1]
    /\ UNCHANGED <<connVars, pending_conn, has_pending_conn, acceptor, conn,
                   accepted, context>>

Return(a) ==
    /\ acceptor[a] = "poll"
    /\ Settled(a)
    /\ acceptor' = [acceptor EXCEPT ![a] = "idle"]
    /\ accepted' = Append(accepted, conn[a])
    /\ conn' = [conn EXCEPT ![a] = None]
    /\ timeout' = [timeout EXCEPT ![a] = 0]
    /\ UNCHANGED <<connVars, pending_conn, has_pending_conn, context>>

-----------------------------------------------------------------------------
(* pq_destroy_context.                                                     *)

(* picoquic_delete_network_thread joins the network thread.                *)
StopNetwork ==
    /\ context = "live"
    /\ context' = "stopped"
    /\ UNCHANGED <<connVars, acceptVars>>

(***************************************************************************)
(* accept_lock and accept_cond are destroyed and the context is freed.     *)
(* With a thread inside the wait this is undefined: the C library of the   *)
(* builds waits for it, another one goes on.                               *)
(***************************************************************************)
InWait == \E a \in Acceptors : acceptor[a] \in {"waiting", "woken"}

Destroy ==
    /\ context = "stopped"
    /\ context' \in IF InWait THEN {"hung", "freed"} ELSE {"freed"}
    /\ UNCHANGED <<connVars, acceptVars>>

-----------------------------------------------------------------------------

Network ==
    \E c \in Conns :
        \/ Handshake(c)
        \/ \E event \in {"other", "ready", "close"} : Event(c, event)
        \/ AfterReceive(c)

Accept(a) ==
    /\ acceptor[a] \in {"idle", "woken"} => context \in {"live", "stopped"}
    /\ Take(a) \/ Wait(a) \/ SpuriousWake(a) \/ Poll(a) \/ Return(a)

Next ==
    \/ Network
    \/ \E a \in Acceptors : Accept(a)
    \/ StopNetwork
    \/ Destroy

(***************************************************************************)
(* Fairness: a thread in pq_accept that is not asleep goes on, and so does *)
(* pq_destroy_context.                                                     *)
(***************************************************************************)
Awake(a) == acceptor[a] # "idle" /\ Accept(a) /\ ~SpuriousWake(a)

Fairness ==
    /\ \A a \in Acceptors : WF_vars(Awake(a))
    /\ WF_vars(Destroy)

Spec == Init /\ [][Next]_vars
FairSpec == Spec /\ Fairness

-----------------------------------------------------------------------------
(* Properties.                                                             *)

(***************************************************************************)
(* The two paths never make a second wrapper for a connection: its buffers *)
(* and its flags exist once.                                               *)
(***************************************************************************)
OneWrapper == \A c \in Conns : wrappers[c] <= 1

(***************************************************************************)
(* No event that matters is lost before the wrapper exists: when picoquic  *)
(* is ready the wrapper has handshake_done set, when it is disconnected    *)
(* is_closed, or pq_accept would poll for nothing.                         *)
(***************************************************************************)
StateIsSeen ==
    \A c \in Conns :
        /\ state[c] = "ready" => handshake_done[c]
        /\ state[c] = "disconnected" => is_closed[c]

(***************************************************************************)
(* Both together: what picoquic tells of a connection is all told to one   *)
(* wrapper.                                                                *)
(***************************************************************************)
EventsReachOneWrapper == OneWrapper /\ StateIsSeen

(***************************************************************************)
(* pq_accept returns a connection to one caller, once.                     *)
(***************************************************************************)
AcceptedOnce ==
    /\ \A i, j \in 1 .. Len(accepted) : accepted[i] = accepted[j] => i = j
    /\ \A a, b \in Acceptors :
          acceptor[a] = "poll" /\ acceptor[b] = "poll" /\ conn[a] = conn[b] => a = b
    /\ \A a \in Acceptors, i \in 1 .. Len(accepted) : conn[a] # accepted[i]

(***************************************************************************)
(* A pending connection does not find all acceptors asleep.                *)
(***************************************************************************)
PendingIsHeard ==
    has_pending_conn =>
        /\ pending_conn \in Conns
        /\ \E a \in Acceptors : acceptor[a] # "waiting"

(***************************************************************************)
(* The slot hands a connection over once, and not to the sleeping.         *)
(***************************************************************************)
SlotHandsOver == AcceptedOnce /\ PendingIsHeard

(***************************************************************************)
(* pq_accept returns once it has a connection, ready or not.               *)
(***************************************************************************)
AcceptReturns ==
    \A a \in Acceptors : acceptor[a] = "poll" ~> acceptor[a] = "idle"

(***************************************************************************)
(* A connection that arrives while a thread waits in pq_accept is taken.   *)
(***************************************************************************)
PendingIsTaken ==
    has_pending_conn /\ InWait ~> ~has_pending_conn \/ context # "live"
=============================================================================
