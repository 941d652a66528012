---------------------------- MODULE WebrtcLink ----------------------------
(***************************************************************************)
(* What webrtc-send and webrtc-recv share: the peer connection of pion,    *)
(* the RTP packets that pkg/h264/rtp.go makes of the NAL units of the      *)
(* input, and the data channel.  RTP packets may be lost and may overtake  *)
(* each other; the data channel, opened without options, is reliable and   *)
(* ordered.                                                                *)
(***************************************************************************)
EXTENDS Integers, Sequences, SequencesExt

CONSTANTS
    Input,      \* the NAL units of stdin: their type and number of payloads
    SeqNums,    \* numbers of the 16-bit sequence number
    Timestamps, \* numbers of the 32-bit timestamp
    Ticks,      \* timestamp units of a frame, at -fps 1000 or less
    MaxTroubles,\* bound: times the connection is interrupted
    MaxReports  \* bound: reports sent on the data channel

NALTypes == {"slice", "idr", "sei", "sps", "pps", "aud"}

(* pion's H264Payloader makes no packet of an access unit delimiter (nor   *)
(* of filler data, for which "aud" stands too), and some of all others.    *)
ASSUME WebrtcAssumption ==
    /\ Input \in Seq([type : NALTypes, payloads : Nat])
    /\ \A n \in 1 .. Len(Input) : Input[n].payloads = 0 => Input[n].type = "aud"
    /\ SeqNums \in Nat \ {0} /\ Timestamps \in Nat \ {0} /\ Ticks \in 1 .. Timestamps - 1
    /\ MaxTroubles \in Nat /\ MaxReports \in Nat

VARIABLES
    seqNum, timestamp,  \* of the RTPPacketizer
    sent,               \* history: the packets made, in order
    flight,             \* the positions in sent of packets on their way
    conn,               \* the state of the peer connection
    troubles,           \* history: how often it was interrupted
    reports             \* messages in the data channel

linkVars == <<seqNum, timestamp, sent, flight, conn, troubles, reports>>

Packet == [nal : 1 .. Len(Input), payload : Nat, marker : BOOLEAN,
           seq : 0 .. SeqNums - 1, ts : 0 .. Timestamps - 1]
Report == [seq : 1 .. MaxReports, nals : Nat]

LinkTypeOK ==
    /\ seqNum \in 0 .. SeqNums - 1
    /\ timestamp \in 0 .. Timestamps - 1
    /\ sent \in Seq(Packet)
    /\ flight \subseteq 1 .. Len(sent)
    /\ conn \in {"new", "connecting", "connected", "disconnected", "failed", "closed"}
    /\ troubles \in 0 .. MaxTroubles
    /\ reports \in Seq(Report)

(* NewRTPPacketizer: both counters begin at 0.                             *)
LinkInit ==
    /\ seqNum = 0
    /\ timestamp = 0
    /\ sent = << >>
    /\ flight = {}
    /\ conn = "new"
    /\ troubles = 0
    /\ reports = << >>

-----------------------------------------------------------------------------
(* The packetizer.                                                         *)

IsKeyframe(nal) == nal.type \in {"sps", "pps", "idr"}

(***************************************************************************)
(* Packetize: a packet for each payload, numbered on, the last one with    *)
(* the marker bit.  The payloads are the payloader's: none for an access   *)
(* unit delimiter, one for a small NAL unit, otherwise fragments.          *)
(***************************************************************************)
Packets(n) ==
    [i \in 1 .. Input[n].payloads |->
        [nal |-> n, payload |-> i, marker |-> i = Input[n].payloads,
         seq |-> (seqNum + i - 1) % SeqNums, ts |-> timestamp]]

(* Mutant: every NAL unit is numbered from 0 again.                        *)
PacketizeRestarts(n) ==
    /\ sent' = sent \o Packets(n)
    /\ seqNum' = 0

Packetize(n) ==
    /\ sent' = sent \o Packets(n)
    /\ seqNum' = (seqNum + Input[n].payloads) % SeqNums

(* NextTimestamp, after a NAL unit that main takes for a frame.            *)
AdvancesClock(nal) == IsKeyframe(nal) \/ nal.type \in {"slice", "idr"}

NextTimestamp(n) ==
    timestamp' = IF AdvancesClock(Input[n]) THEN (timestamp + Ticks) % Timestamps ELSE timestamp

Fragmented(k) == Input[sent[k].nal].payloads > 1

-----------------------------------------------------------------------------

(***************************************************************************)
(* The headers tell a receiver where it is, also where the numbers wrap    *)
(* around: of packets that are not too far apart only neighbours have      *)
(* neighbouring numbers; between neighbours the marker bit tells where a   *)
(* NAL unit ends, and a new timestamp that it was a frame that ended.      *)
(***************************************************************************)
HeadersTell ==
    \A j, k \in 1 .. Len(sent) : j < k /\ k - j <= SeqNums =>
        /\ sent[k].seq = (sent[j].seq + 1) % SeqNums <=> k = j + 1
        /\ k = j + 1 =>
              /\ sent[j].marker <=> sent[j].nal # sent[k].nal
              /\ sent[j].ts # sent[k].ts
                    <=> sent[j].marker /\ AdvancesClock(Input[sent[j].nal])
=============================================================================
