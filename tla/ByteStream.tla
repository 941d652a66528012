----------------------------- MODULE ByteStream -----------------------------
(***************************************************************************)
(* What the receiving half of a connection promises the application: the   *)
(* bytes of stream 0 come out in the order they arrived, each at most      *)
(* once; a chunk is buffered whole or not at all; a reader is told that    *)
(* the stream is over only when nothing buffered is left.  How the bytes   *)
(* are held, and who waits for whom, is not said here.                     *)
(***************************************************************************)
EXTENDS Naturals, Sequences

CONSTANTS Readers, MaxStream

VARIABLES
    arrived,    \* bytes delivered by the transport so far
    pending,    \* bytes buffered and not yet read
    read,       \* bytes the application has read
    finished,   \* the sender has finished the stream
    closed,     \* the connection is over
    eof         \* the readers that were told so

streamVars == <<arrived, pending, read, finished, closed, eof>>

Init ==
    /\ arrived = 0
    /\ pending = << >>
    /\ read = << >>
    /\ finished = FALSE
    /\ closed = FALSE
    /\ eof = {}

Arrive ==
    /\ ~finished
    /\ arrived' \in arrived + 1 .. MaxStream
    /\ pending' \in {pending,
                     pending \o [k \in 1 .. arrived' - arrived |-> arrived + k - 1]}
    /\ UNCHANGED <<read, finished, closed, eof>>

Take ==
    /\ \E n \in 1 .. Len(pending) :
          /\ read' = read \o SubSeq(pending, 1, n)
          /\ pending' = SubSeq(pending, n + 1, Len(pending))
    /\ UNCHANGED <<arrived, finished, closed, eof>>

Finish ==
    /\ finished' = TRUE
    /\ UNCHANGED <<arrived, pending, read, closed, eof>>

Close ==
    /\ closed' = TRUE
    /\ UNCHANGED <<arrived, pending, read, finished, eof>>

End(r) ==
    /\ pending = << >>
    /\ finished \/ closed
    /\ eof' = eof \cup {r}
    /\ UNCHANGED <<arrived, pending, read, finished, closed>>

Next == Arrive \/ Take \/ Finish \/ Close \/ \E r \in Readers : End(r)

Spec == Init /\ [][Next]_streamVars
=============================================================================
