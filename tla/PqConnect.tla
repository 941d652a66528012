----------------------------- MODULE PqConnect -----------------------------
(***************************************************************************)
(* A client's pq_context_t (pkg/picoquic) next to a server's: pq_connect   *)
(* and the end of the client, as quic-send, quic-bench and quic-test use   *)
(* them.  The two meet in one connection, Ours: a server sees it once the  *)
(* client has started it, a client is ready once the server has answered,  *)
(* and a server is ready after the client is.  A step of the network       *)
(* thread and a picoquic_close of the main thread exclude each other here, *)
(* although the wrapper holds no lock around picoquic_close.               *)
(***************************************************************************)
EXTENDS PqContext

CONSTANTS
    Ours,       \* the connection of this client
    Handshaking \* the 5000 polls of pq_connect for handshake_done

ASSUME PqConnectAssumption == Ours \in Conns /\ Handshaking \in Nat

VARIABLES
    client,         \* where the client's main is
    polls,          \* pq_connect's timeout
    cnxState,       \* the picoquic connection of the client, freed at last
    clientDone, clientClosed,   \* handshake_done and is_closed of its wrapper
    clientCnx,      \* conn->cnx is not NULL
    answered        \* history: the server has answered the client

clientVars == <<client, polls, cnxState, clientDone, clientClosed, clientCnx>>
connectVars == <<vars, clientVars, answered>>

Connecting == {"poll", "look", "check", "close", "close_quic"}

(* Where the connection is in picoquic: open until picoquic_close.         *)
Open == {"started", "ready"}

ConnectTypeOK ==
    /\ TypeOK
    /\ client \in Connecting
         \cup {"start", "null", "connected", "end_quic", "closed", "ended"}
    /\ polls \in 0 .. Handshaking
    /\ cnxState \in Open \cup {"none", "closing", "disconnected", "freed"}
    /\ clientDone \in BOOLEAN /\ clientClosed \in BOOLEAN
    /\ clientCnx \in BOOLEAN
    /\ answered \in BOOLEAN

ConnectInit ==
    /\ Init
    /\ client = "start"
    /\ polls = 0
    /\ cnxState = "none"
    /\ clientDone = FALSE /\ clientClosed = FALSE
    /\ clientCnx = FALSE
    /\ answered = FALSE

-----------------------------------------------------------------------------
(* The client's network thread.                                            *)

Online == cnxState \in Open \cup {"closing"} /\ client # "ended"

ClientReady ==
    /\ Online /\ cnxState = "started" /\ answered
    /\ cnxState' = "ready"
    /\ clientDone' = TRUE
    /\ UNCHANGED <<client, polls, clientClosed, clientCnx>>

(* The peer closes, a timeout passes, or picoquic_close was called.        *)
ClientClose ==
    /\ Online
    /\ cnxState' = "disconnected"
    /\ clientClosed' = TRUE
    /\ clientCnx' = FALSE
    /\ UNCHANGED <<client, polls, clientDone>>

ClientFree ==
    /\ cnxState = "disconnected" /\ client # "ended"
    /\ cnxState' = "freed"
    /\ UNCHANGED <<client, polls, clientDone, clientClosed, clientCnx>>

-----------------------------------------------------------------------------
(* pq_connect.                                                             *)

(***************************************************************************)
(* The connection, its wrapper and the network thread are made.  Any of    *)
(* them may fail, and a connection made before is deleted; the wrapper is  *)
(* then not there, or freed, so its flags are left.                        *)
(***************************************************************************)
Start ==
    /\ client = "start"
    /\ \/ /\ client' = "poll"
          /\ polls' = Handshaking
          /\ cnxState' = "started"
          /\ clientCnx' = TRUE
       \/ /\ client' = "null"
          /\ cnxState' \in {"none", "freed"}
          /\ UNCHANGED <<polls, clientCnx>>
    /\ UNCHANGED <<clientDone, clientClosed>>

Waiting == ~clientDone /\ ~clientClosed /\ polls > 0

(* Every so often the loop looks at cnx, after its test.                   *)
Look ==
    /\ client = "poll" /\ Waiting
    /\ client' = "look"
    /\ UNCHANGED <<polls, cnxState, clientDone, clientClosed, clientCnx>>

Sleep ==
    /\ client = "look" \/ (client = "poll" /\ Waiting)
    /\ client' = "poll"
    /\ polls' = polls - 1
    /\ UNCHANGED <<cnxState, clientDone, clientClosed, clientCnx>>

LeavePolls ==
    /\ client = "poll" /\ ~Waiting
    /\ client' = "check"
    /\ polls' = 0
    /\ UNCHANGED <<cnxState, clientDone, clientClosed, clientCnx>>

(* A failed handshake is looked at once more before it is closed.          *)
Check ==
    /\ client = "check"
    /\ client' = IF clientDone THEN "connected" ELSE "close"
    /\ UNCHANGED <<polls, cnxState, clientDone, clientClosed, clientCnx>>

-----------------------------------------------------------------------------
(* pq_close_connection, on the main thread.                                *)

(* Mutant: only a connection that is_connected is taken.                   *)
CloseTakeConnected(from, holding, empty) ==
    /\ client = from
    /\ client' = IF ~clientClosed /\ clientDone THEN holding ELSE empty
    /\ clientClosed' = TRUE
    /\ clientCnx' = FALSE
    /\ UNCHANGED <<polls, cnxState, clientDone>>

(***************************************************************************)
(* Inside recv_lock: the connection is taken, unless the close callback    *)
(* was there before.  The wake-ups at the end find readers in PqReceive.   *)
(***************************************************************************)
CloseTake(from, holding, empty) ==
    /\ client = from
    /\ client' = IF ~clientClosed /\ clientCnx THEN holding ELSE empty
    /\ clientClosed' = TRUE
    /\ clientCnx' = FALSE
    /\ UNCHANGED <<polls, cnxState, clientDone>>

(***************************************************************************)
(* picoquic_close outside the lock, on the pointer taken there: it may     *)
(* have become ready in between, or be past closing, or freed.             *)
(***************************************************************************)
QuicClose(from, to) ==
    /\ client = from
    /\ client' = to
    /\ cnxState' = IF cnxState \in Open THEN "closing" ELSE cnxState
    /\ UNCHANGED <<polls, clientDone, clientClosed, clientCnx>>

(* The handshake has failed: NULL is returned after the close.             *)
CloseFailed ==
    CloseTake("close", "close_quic", "null") \/ QuicClose("close_quic", "null")

-----------------------------------------------------------------------------
(* What the programs do with it.                                           *)

(* The deferred conn.Close.                                                *)
CloseClient ==
    CloseTake("connected", "end_quic", "closed") \/ QuicClose("end_quic", "closed")

(* ctx.Close, or log.Fatal if there is no connection: the network thread   *)
(* ends, a close frame sent or not, and picoquic frees what is left.       *)
EndClient ==
    /\ client \in {"null", "closed"}
    /\ client' = "ended"
    /\ cnxState' = "freed"
    /\ UNCHANGED <<polls, clientDone, clientClosed, clientCnx>>

Connect == Start \/ Look \/ Sleep \/ LeavePolls \/ Check \/ CloseFailed
ClientStep ==
    /\ ClientReady \/ ClientClose \/ ClientFree \/ Connect \/ CloseClient \/ EndClient
    /\ UNCHANGED <<vars, answered>>

(* The server answers when it is almost ready.                             *)
ServerStep ==
    /\ Next
    /\ state[Ours] = "absent" /\ state'[Ours] # "absent" => cnxState # "none"
    /\ state[Ours] # "ready" /\ state'[Ours] = "ready" => clientDone
    /\ answered' = (answered \/ state'[Ours] = "almost_ready")
    /\ UNCHANGED clientVars

ConnectNext == ClientStep \/ ServerStep

(***************************************************************************)
(* Fairness: pq_connect goes on, and so does pq_accept; the server's       *)
(* network thread scans its connections, since a client that is not        *)
(* answered sends again.                                                   *)
(***************************************************************************)
ConnectSpec == ConnectInit /\ [][ConnectNext]_connectVars
FairConnectSpec ==
    /\ ConnectSpec
    /\ WF_connectVars(Connect /\ UNCHANGED <<vars, answered>>)
    /\ WF_connectVars(AfterReceive(Ours) /\ UNCHANGED <<clientVars, answered>>)
    /\ \A a \in Acceptors : WF_connectVars(Awake(a) /\ UNCHANGED <<clientVars, answered>>)
    /\ WF_connectVars(Destroy /\ UNCHANGED <<clientVars, answered>>)

-----------------------------------------------------------------------------

(***************************************************************************)
(* A connection that the program has given up, by a pq_connect that        *)
(* returned NULL or by conn.Close, is not left open in picoquic: not when  *)
(* the handshake ends at the last moment, between the test of              *)
(* handshake_done and the close, nor when the close callback comes between *)
(* the taking of cnx and picoquic_close.                                   *)
(***************************************************************************)
NothingStaysOpen ==
    client \in {"null", "closed", "ended"} => cnxState \notin Open

(***************************************************************************)
(* pq_connect returns, with a connection or without.                       *)
(***************************************************************************)
ConnectReturns == client \in Connecting ~> client \notin Connecting

(***************************************************************************)
(* A connection that pq_connect returned gets its wrapper at the server,   *)
(* where pq_accept finds it.                                               *)
(***************************************************************************)
ConnectedIsServed == client = "connected" ~> wrapped[Ours] \/ context # "live"

(***************************************************************************)
(* All together: neither side waits for the other for ever.                *)
(***************************************************************************)
CallsReturn == AcceptReturns /\ PendingIsTaken /\ ConnectReturns /\ ConnectedIsServed
=============================================================================
