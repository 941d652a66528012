------------------------------ MODULE PqClose ------------------------------
(***************************************************************************)
(* How a pq_connection_t of pkg/picoquic ends.  Two sides race: the        *)
(* network thread, whose close callback records that picoquic has          *)
(* disconnected the connection, and the application threads that call      *)
(* pq_close_connection.  Both write is_closed and cnx inside recv_lock;    *)
(* pq_close_connection releases the lock before it calls picoquic_close.   *)
(* What each side does with the waiting readers, or with the send queue,   *)
(* is added by the modules that extend this one.                           *)
(***************************************************************************)
CONSTANT Closers        \* the application threads that call pq_close_connection

VARIABLES
    is_closed,          \* pq_connection_t.is_closed
    cnx,                \* TRUE iff pq_connection_t.cnx is not NULL
    quic,               \* picoquic's own connection: open, closing, disconnected
    closer              \* where each application thread is in pq_close_connection

closeVars == <<is_closed, cnx, quic, closer>>

CloserPc == {"idle", "quic_close", "wake_recv", "wake_dgram", "done"}

CloseTypeOK ==
    /\ is_closed \in BOOLEAN
    /\ cnx \in BOOLEAN
    /\ quic \in {"open", "closing", "disconnected"}
    /\ closer \in [Closers -> CloserPc]

CloseInit ==
    /\ is_closed = FALSE
    /\ cnx = TRUE
    /\ quic = "open"
    /\ closer = [t \in Closers |-> "idle"]

(***************************************************************************)
(* The close and application_close events: picoquic reports them once,     *)
(* whoever closed the connection, and frees the connection afterwards.     *)
(***************************************************************************)
CallbackCloseFlags ==
    /\ quic # "disconnected"
    /\ quic' = "disconnected"
    /\ is_closed' = TRUE
    /\ cnx' = FALSE
    /\ UNCHANGED closer

(* Mutant: the thread does not look at is_closed and cnx.                  *)
CloseTakeUnchecked(t) ==
    /\ closer[t] = "idle"
    /\ closer' = [closer EXCEPT ![t] = "quic_close"]
    /\ is_closed' = TRUE
    /\ cnx' = FALSE
    /\ UNCHANGED quic

(***************************************************************************)
(* pq_close_connection up to the first unlock: the thread that finds the   *)
(* connection open takes cnx with it, every other one skips                *)
(* picoquic_close.                                                         *)
(***************************************************************************)
CloseTake(t) ==
    /\ closer[t] = "idle"
    /\ closer' = [closer EXCEPT ![t] =
                    IF ~is_closed /\ cnx THEN "quic_close" ELSE "wake_recv"]
    /\ is_closed' = TRUE
    /\ cnx' = FALSE
    /\ UNCHANGED quic

(***************************************************************************)
(* picoquic_close(cnx, 0) on the pointer taken before the unlock: it       *)
(* starts the closing exchange unless the connection is past that.         *)
(***************************************************************************)
QuicClose(t) ==
    /\ closer[t] = "quic_close"
    /\ quic' = IF quic = "open" THEN "closing" ELSE quic
    /\ closer' = [closer EXCEPT ![t] = "wake_recv"]
    /\ UNCHANGED <<is_closed, cnx>>

(***************************************************************************)
(* The last two critical sections of pq_close_connection, by the lock each *)
(* takes.                                                                  *)
(***************************************************************************)
LeaveRecvSection(t) ==
    /\ closer[t] = "wake_recv"
    /\ closer' = [closer EXCEPT ![t] = "wake_dgram"]
    /\ UNCHANGED <<is_closed, cnx, quic>>

LeaveDgramSection(t) ==
    /\ closer[t] = "wake_dgram"
    /\ closer' = [closer EXCEPT ![t] = "done"]
    /\ UNCHANGED <<is_closed, cnx, quic>>

-----------------------------------------------------------------------------

(***************************************************************************)
(* At most one thread ever holds the taken pointer and goes on to call     *)
(* picoquic_close, however many threads close the connection and whatever  *)
(* the network thread does ("Prevent double-close").                       *)
(***************************************************************************)
SingleQuicClose ==
    /\ \A t, u \in Closers :
          closer[t] = "quic_close" /\ closer[u] = "quic_close" => t = u
    /\ \A t \in Closers : closer[t] = "quic_close" => is_closed /\ ~cnx
=============================================================================
