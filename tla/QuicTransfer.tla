---------------------------- MODULE QuicTransfer ----------------------------
(***************************************************************************)
(* The video path of quic-send and quic-recv, end to end.  The sender      *)
(* writes a length and the data of every NAL unit to stream 0, the         *)
(* receiver reads both back with io.ReadFull and writes the NAL unit out.  *)
(* The receiver's side of the stream is ByteStream, which PqReceive        *)
(* implements: chunks of any size that are buffered whole or skipped, a    *)
(* FIN, and a close that may come at any time.                             *)
(*                                                                         *)
(* A byte of the stream is a record that says which NAL unit it is of,     *)
(* whether it is of the length or the data, and which byte it is there.    *)
(***************************************************************************)
EXTENDS Integers, Sequences

CONSTANTS
    Nals,           \* how many NAL units stdin holds
    Size,           \* NAL unit -> the length of its data
    LengthBytes,    \* bytes of the length prefix: 4 in the programs
    MaxLength       \* the largest length quic-recv accepts: 10 MB

ASSUME QuicTransferAssumption ==
    /\ Nals \in Nat
    /\ Size \in [1 .. Nals -> 1 .. MaxLength]
    /\ LengthBytes \in Nat \ {0} /\ MaxLength \in Nat

VARIABLES
    sender,             \* where quic-send is
    nal,                \* the NAL units it has read from stdin
    sendDone,           \* its flag done, set by the signal handler
    sendClosed,         \* is_closed of its connection
    senderNALCount,
    stream,             \* history: what it has queued for stream 0
    fin,                \* and that the FIN followed it
    arrived, pending, read, finished, closed, eof,  \* the receiver's ByteStream
    quic,               \* picoquic has not disconnected the receiver's connection
    lost,               \* history: a chunk was skipped
    receiver,           \* where quic-recv is: the field it reads, or after
    from,               \* bytes of the stream read before this field
    nalLen,             \* the length of the data it is about to read
    recvDone,           \* its flag done
    out,                \* the NAL units on stdout
    failed              \* the loop ended with an error, not at the end of the stream

sendVars   == <<sender, nal, sendDone, sendClosed, senderNALCount, stream, fin>>
streamVars == <<arrived, pending, read, finished, closed, eof>>
netVars    == <<quic, lost>>
recvVars   == <<receiver, from, nalLen, recvDone, out, failed>>
vars       == <<sendVars, streamVars, netVars, recvVars>>

MaxStream == Nals * (LengthBytes + MaxLength)   \* ByteStream's bound

Stream == INSTANCE ByteStream WITH Readers <- {"recv"}

(* The bytes of the two writes of a NAL unit.                              *)
Length(i) == [k \in 1 .. LengthBytes |-> [nal |-> i, part |-> "length", byte |-> k]]
Data(i)   == [k \in 1 .. Size[i] |-> [nal |-> i, part |-> "data", byte |-> k]]

Byte == [nal : 1 .. Nals, part : {"length", "data"}, byte : Nat]

TypeOK ==
    /\ sender \in {"read", "length", "data", "count", "finish", "wait", "done"}
    /\ nal \in 0 .. Nals
    /\ sendDone \in BOOLEAN
    /\ sendClosed \in BOOLEAN
    /\ senderNALCount \in 0 .. nal
    /\ stream \in Seq(Byte)
    /\ fin \in BOOLEAN
    /\ arrived \in 0 .. Len(stream)
    /\ Len(pending) + Len(read) <= arrived
    /\ finished \in BOOLEAN
    /\ closed \in BOOLEAN
    /\ eof \subseteq {"recv"}
    /\ quic \in BOOLEAN
    /\ lost \in BOOLEAN
    /\ receiver \in {"length", "data", "done"}
    /\ from \in 0 .. Len(read)
    /\ nalLen \in 0 .. MaxLength
    /\ recvDone \in BOOLEAN
    /\ out \in Seq(Seq(Byte))
    /\ failed \in BOOLEAN

Init ==
    /\ sender = "read"
    /\ nal = 0
    /\ sendDone = FALSE
    /\ sendClosed = FALSE
    /\ senderNALCount = 0
    /\ stream = << >>
    /\ fin = FALSE
    /\ Stream!Init
    /\ quic = TRUE
    /\ lost = FALSE
    /\ receiver = "length"
    /\ from = 0
    /\ nalLen = 0
    /\ recvDone = FALSE
    /\ out = << >>
    /\ failed = FALSE

-----------------------------------------------------------------------------
(* quic-send.                                                              *)

SendFrame == UNCHANGED <<streamVars, netVars, recvVars>>

(* The head of the loop: done, the end of stdin, or the next NAL unit.     *)
ReadNAL ==
    /\ sender = "read"
    /\ \/ /\ ~sendDone /\ nal < Nals
          /\ nal' = nal + 1
          /\ sender' = "length"
       \/ /\ sendDone \/ nal = Nals
          /\ sender' = "finish"
          /\ UNCHANGED nal
    /\ UNCHANGED <<sendDone, sendClosed, senderNALCount, stream, fin>>
    /\ SendFrame

(***************************************************************************)
(* conn.Write queues the bytes for stream 0; on a closed connection it     *)
(* fails, and the loop ends.                                               *)
(***************************************************************************)
Write(bytes, next) ==
    /\ IF sendClosed THEN sender' = "finish" /\ UNCHANGED stream
                     ELSE sender' = next /\ stream' = stream \o bytes
    /\ UNCHANGED <<nal, sendDone, sendClosed, senderNALCount, fin>>
    /\ SendFrame

WriteLength == sender = "length" /\ Write(Length(nal), "data")

(* Mutant: done is looked at between the two writes as well.               *)
WriteDataUnlessDone ==
    /\ sender = "data"
    /\ IF sendDone
       THEN sender' = "finish" /\ SendFrame
            /\ UNCHANGED <<nal, sendDone, sendClosed, senderNALCount, stream, fin>>
       ELSE Write(Data(nal), "count")

WriteData == sender = "data" /\ Write(Data(nal), "count")

Count ==
    /\ sender = "count"
    /\ senderNALCount' = senderNALCount + 1
    /\ sender' = "read"
    /\ UNCHANGED <<nal, sendDone, sendClosed, stream, fin>>
    /\ SendFrame

FinishStream ==
    /\ sender = "finish"
    /\ fin' = ~sendClosed
    /\ sender' = "wait"
    /\ UNCHANGED <<nal, sendDone, sendClosed, senderNALCount, stream>>
    /\ SendFrame

(***************************************************************************)
(* WaitStreamComplete and the wait for the data channel both end, for one  *)
(* reason or another; then the connection is closed.                       *)
(***************************************************************************)
CloseSender ==
    /\ sender = "wait"
    /\ sendClosed' = TRUE
    /\ sender' = "done"
    /\ UNCHANGED <<nal, sendDone, senderNALCount, stream, fin>>
    /\ SendFrame

(* SIGINT or SIGTERM: done is looked at between two NAL units only.        *)
SignalSender ==
    /\ sender # "done"
    /\ ~sendDone
    /\ sendDone' = TRUE
    /\ UNCHANGED <<sender, nal, sendClosed, senderNALCount, stream, fin>>
    /\ SendFrame

-----------------------------------------------------------------------------
(* The connection between them.                                            *)

(***************************************************************************)
(* A stream_data event with what has come in order of the stream.  The     *)
(* buffer of the receiver may have no room for it.                         *)
(***************************************************************************)
Arrive ==
    /\ quic
    /\ Stream!Arrive
    /\ arrived' <= Len(stream)
    /\ lost' = (lost \/ pending' = pending)
    /\ UNCHANGED <<sendVars, quic, recvVars>>

ArriveFin ==
    /\ quic
    /\ fin /\ arrived = Len(stream) /\ ~finished
    /\ Stream!Finish
    /\ UNCHANGED <<sendVars, netVars, recvVars>>

(***************************************************************************)
(* Each side learns that the other has closed the connection, or its idle  *)
(* timer ends it; bytes and a FIN that were under way are lost with it.    *)
(***************************************************************************)
ReceiverDisconnected ==
    /\ quic
    /\ quic' = FALSE
    /\ Stream!Close
    /\ UNCHANGED <<sendVars, lost, recvVars>>

SenderDisconnected ==
    /\ ~sendClosed
    /\ sendClosed' = TRUE
    /\ UNCHANGED <<sender, nal, sendDone, senderNALCount, stream, fin>>
    /\ SendFrame

-----------------------------------------------------------------------------
(* quic-recv.                                                              *)

RecvFrame == UNCHANGED <<sendVars, netVars>>

Wanted == IF receiver = "length" THEN LengthBytes ELSE nalLen
Got    == Len(read) - from
Smaller(a, b) == IF a < b THEN a ELSE b

(* io.ReadFull calls Read for the rest of the field until it is complete.  *)
ReadFull ==
    /\ receiver \in {"length", "data"} /\ Got < Wanted
    /\ Stream!Take
    /\ Len(read') = Len(read) + Smaller(Len(pending), Wanted - Got)
    /\ UNCHANGED recvVars
    /\ RecvFrame

(* Mutant: Read is called again when it returns 0 inside a field.          *)
ReadEOFOnlyAtStart ==
    /\ receiver \in {"length", "data"} /\ Got = 0
    /\ Stream!End("recv")
    /\ receiver' = "done"
    /\ failed' = (receiver = "data")
    /\ UNCHANGED <<from, nalLen, recvDone, out>>
    /\ RecvFrame

(***************************************************************************)
(* Read returns 0 bytes: the end of the stream if it comes before the      *)
(* first byte of a length, an error in the middle of a field or before the *)
(* data.                                                                   *)
(***************************************************************************)
ReadEOF ==
    /\ receiver \in {"length", "data"} /\ Got < Wanted
    /\ Stream!End("recv")
    /\ receiver' = "done"
    /\ failed' = (receiver = "data" \/ Got > 0)
    /\ UNCHANGED <<from, nalLen, recvDone, out>>
    /\ RecvFrame

Field == [k \in 1 .. Got |-> stream[read[from + k] + 1]]

(***************************************************************************)
(* The number the four bytes make: the length that was sent if they are    *)
(* one length, and any number if bytes are missing between them.           *)
(***************************************************************************)
Decoded ==
    LET i == Field[1].nal
    IN  IF Field = Length(i) THEN {Size[i]} ELSE 0 .. MaxLength + 1

(* Mutants: no limit on the length; an off-by-one in it.                   *)
HaveLengthUnlimited ==
    /\ receiver = "length" /\ Got = LengthBytes
    /\ nalLen' \in Decoded
    /\ receiver' = "data"
    /\ from' = Len(read)
    /\ UNCHANGED <<streamVars, recvDone, out, failed>>
    /\ RecvFrame

HaveLengthShort ==
    /\ receiver = "length" /\ Got = LengthBytes
    /\ \E n \in Decoded : n > 0 /\ nalLen' = n - 1
    /\ receiver' = "data"
    /\ from' = Len(read)
    /\ UNCHANGED <<streamVars, recvDone, out, failed>>
    /\ RecvFrame

HaveLength ==
    /\ receiver = "length" /\ Got = LengthBytes
    /\ \E n \in Decoded :
          \/ /\ n \in 1 .. MaxLength
             /\ nalLen' = n
             /\ receiver' = "data"
             /\ from' = Len(read)
             /\ UNCHANGED failed
          \/ /\ n \notin 1 .. MaxLength
             /\ receiver' = "done"
             /\ failed' = TRUE
             /\ UNCHANGED <<nalLen, from>>
    /\ UNCHANGED <<streamVars, recvDone, out>>
    /\ RecvFrame

(* WriteNAL, the counters and the test of done at the head of the loop.    *)
WriteNAL ==
    /\ receiver = "data" /\ Got = nalLen
    /\ out' = Append(out, Field)
    /\ from' = Len(read)
    /\ receiver' = IF recvDone THEN "done" ELSE "length"
    /\ UNCHANGED <<streamVars, nalLen, recvDone, failed>>
    /\ RecvFrame

(* The end of main: datagramStop, and the deferred conn.Close.             *)
CloseReceiver ==
    /\ receiver = "done" /\ ~closed
    /\ Stream!Close
    /\ UNCHANGED <<sendVars, netVars, recvVars>>

(* Mutant: the handler sets done and leaves the connection open.           *)
SignalReceiverOnlySetsDone ==
    /\ receiver # "done" /\ ~recvDone
    /\ recvDone' = TRUE
    /\ UNCHANGED <<streamVars, receiver, from, nalLen, out, failed>>
    /\ RecvFrame

(* The signal handler of quic-recv: done, then conn.Close.                 *)
SignalReceiver ==
    /\ receiver # "done" /\ ~recvDone
    /\ recvDone' = TRUE
    /\ Stream!Close
    /\ UNCHANGED <<receiver, from, nalLen, out, failed>>
    /\ RecvFrame

-----------------------------------------------------------------------------

Send    == ReadNAL \/ WriteLength \/ WriteData \/ Count \/ FinishStream \/ CloseSender
Receive == ReadFull \/ ReadEOF \/ HaveLength \/ WriteNAL \/ CloseReceiver

Next ==
    \/ Send
    \/ SignalSender
    \/ Arrive
    \/ ArriveFin
    \/ ReceiverDisconnected
    \/ SenderDisconnected
    \/ Receive
    \/ SignalReceiver

(***************************************************************************)
(* Fairness: both programs run; a connection one side has closed is, in    *)
(* the end, over on the other side too.  Nothing is assumed of stdin, of   *)
(* the network before a close, or of signals.                              *)
(***************************************************************************)
Fairness ==
    /\ WF_vars(sender # "read" /\ Send)
    /\ WF_vars(Receive)
    /\ WF_vars(sendClosed /\ ReceiverDisconnected)
    /\ WF_vars(closed /\ SenderDisconnected)

Spec == Init /\ [][Next]_vars
FairSpec == Spec /\ Fairness

-----------------------------------------------------------------------------
(* Properties.                                                             *)

(***************************************************************************)
(* The NAL units quic-recv writes are the first ones of stdin, each whole  *)
(* and unchanged, however the stream is cut into chunks and whenever       *)
(* either side closes -- as long as no chunk was skipped for want of room. *)
(***************************************************************************)
OutputIsPrefix ==
    ~lost => /\ Len(out) <= nal
             /\ \A i \in 1 .. Len(out) : out[i] = Data(i)

(***************************************************************************)
(* A FIN ends the stream between two NAL units, and only after all that    *)
(* were counted: a receiver that got it, was not stopped and lost nothing  *)
(* ends without an error, with as many NAL units as the sender reports.    *)
(***************************************************************************)
FinMeansComplete ==
    finished /\ ~lost /\ ~recvDone /\ receiver = "done" =>
        ~failed /\ Len(out) = senderNALCount

(***************************************************************************)
(* When quic-send has reached the end of its input or of its connection,   *)
(* quic-recv ends too, in the middle of a NAL unit if need be.             *)
(***************************************************************************)
TransferEnds == sender = "finish" ~> receiver = "done"

(***************************************************************************)
(* A signal ends quic-recv, whatever it waits for ("graceful shutdown").   *)
(***************************************************************************)
SignalEndsReceiver == recvDone ~> receiver = "done"
=============================================================================
