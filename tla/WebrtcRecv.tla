---------------------------- MODULE WebrtcRecv ----------------------------
(***************************************************************************)
(* cmd/webrtc-recv, one session of its WHIP endpoint: OnTrack puts NAL     *)
(* units together from RTP packets in the order they arrive in, writes     *)
(* them to stdout and counts them; a goroutine reports the count on the    *)
(* data channel.                                                           *)
(*                                                                         *)
(* A critical section of statsMu is one action.  totalBytes changes with   *)
(* nalCount in the same sections and is left out; firstPacket and          *)
(* startTime serve only bit rates.                                         *)
(*                                                                         *)
(* The program registers no handler of connection states and closes        *)
(* nothing: it ends when pion makes ReadRTP and Send fail.  The sender's   *)
(* close is a datagram like others and may be lost, so pion may learn of   *)
(* the end late or never.                                                  *)
(***************************************************************************)
EXTENDS WebrtcLink

VARIABLES
    learned,    \* pion here knows that the connection has ended
    track,      \* where the OnTrack goroutine is
    got,        \* history: the packets it has read
    fuaBuffer,  \* fragments held by the depacketizer
    nalBuffer,  \* depacketized data that waits for a marker bit
    output,     \* the NAL units on stdout, as the packets they are made of
    nalCount,   \* under statsMu
    stats,      \* where the goroutine that reports is
    seq         \* the number of its last report

recvVars == <<learned, track, got, fuaBuffer, nalBuffer, output, nalCount, stats, seq>>

RecvTypeOK ==
    /\ learned \in BOOLEAN
    /\ track \in {"read", "count", "done"}
    /\ got \in Seq(1 .. Len(sent))
    /\ fuaBuffer \in Seq(1 .. Len(sent))
    /\ nalBuffer \in Seq(1 .. Len(sent))
    /\ output \in Seq(Seq(1 .. Len(sent)))
    /\ nalCount \in 0 .. Len(output)
    /\ stats \in {"none", "tick", "done"}
    /\ seq \in 0 .. MaxReports + 1

RecvInit ==
    /\ learned = FALSE
    /\ track = "read"
    /\ got = << >>
    /\ fuaBuffer = << >>
    /\ nalBuffer = << >>
    /\ output = << >>
    /\ nalCount = 0
    /\ stats = "none"
    /\ seq = 0

-----------------------------------------------------------------------------

(***************************************************************************)
(* codecs.H264Packet: a NAL unit that fits one packet is returned as it    *)
(* is; fragments are kept until one with the end bit comes.                *)
(***************************************************************************)
Unmarshal(k) ==
    IF ~Fragmented(k) THEN <<k>> ELSE IF sent[k].marker THEN Append(fuaBuffer, k) ELSE << >>
FuaBuffer(k) ==
    IF ~Fragmented(k) THEN fuaBuffer ELSE IF sent[k].marker THEN << >> ELSE Append(fuaBuffer, k)

(* Mutant: nalBuffer is not emptied after a NAL unit was written.          *)
ReadRTPKeepsBuffer(k) ==
    LET data == nalBuffer \o Unmarshal(k)
    IN  /\ fuaBuffer' = FuaBuffer(k)
        /\ nalBuffer' = data
        /\ IF sent[k].marker /\ data # << >>
           THEN output' = Append(output, data) /\ track' = "count"
           ELSE UNCHANGED <<output, track>>

(* What OnTrack does with a packet: write what it has at a marker bit.     *)
Depacketize(k) ==
    LET data == nalBuffer \o Unmarshal(k)
    IN  /\ fuaBuffer' = FuaBuffer(k)
        /\ IF sent[k].marker /\ data # << >>
           THEN output' = Append(output, data) /\ nalBuffer' = << >> /\ track' = "count"
           ELSE nalBuffer' = data /\ UNCHANGED <<output, track>>

PeerFrame == UNCHANGED <<seqNum, timestamp, sent, conn, troubles>>

(* ReadRTP returns any packet that is on its way, in no order.             *)
ReadRTP(k) ==
    /\ track = "read"
    /\ k \in flight
    /\ flight' = flight \ {k}
    /\ got' = Append(got, k)
    /\ Depacketize(k)
    /\ UNCHANGED <<learned, nalCount, stats, seq, reports>> /\ PeerFrame

(* Under statsMu, after WriteNAL.                                          *)
CountNAL ==
    /\ track = "count"
    /\ nalCount' = nalCount + 1
    /\ track' = "read"
    /\ UNCHANGED <<learned, got, fuaBuffer, nalBuffer, output, stats, seq, reports, flight>>
    /\ PeerFrame

(* The sender's close comes to pion here, which closes its end too.  A     *)
(* sender that exits without one is not noticed: pion calls the connection *)
(* failed after a while, and nobody has asked to be told.                  *)
LearnEnd ==
    /\ conn = "closed"
    /\ learned' = TRUE
    /\ UNCHANGED <<track, got, fuaBuffer, nalBuffer, output, nalCount, stats, seq, reports, flight>>
    /\ PeerFrame

(* Mutant: the end is counted also if nothing is left to write.            *)
EndTrackCountsAlways ==
    /\ track = "read" /\ learned
    /\ track' = "done"
    /\ output' = IF nalBuffer = << >> THEN output ELSE Append(output, nalBuffer)
    /\ nalCount' = nalCount + 1
    /\ nalBuffer' = << >>
    /\ UNCHANGED <<learned, got, fuaBuffer, stats, seq, reports, flight>> /\ PeerFrame

(* ReadRTP fails; what waits for a marker bit is written and counted.      *)
EndTrack ==
    /\ track = "read" /\ learned
    /\ track' = "done"
    /\ IF nalBuffer = << >> THEN UNCHANGED <<output, nalCount>>
       ELSE output' = Append(output, nalBuffer) /\ nalCount' = nalCount + 1
    /\ nalBuffer' = << >>
    /\ UNCHANGED <<learned, got, fuaBuffer, stats, seq, reports, flight>> /\ PeerFrame

TrackFrame == UNCHANGED <<learned, track, got, fuaBuffer, nalBuffer, output, nalCount, flight>>

(* dc.OnOpen starts the goroutine.                                         *)
StartReports ==
    /\ stats = "none"
    /\ conn = "connected"
    /\ stats' = "tick"
    /\ UNCHANGED <<seq, reports>> /\ TrackFrame /\ PeerFrame

(* Mutant: a report is numbered before the one before it is sent.          *)
SendReportSkipsNumbers ==
    /\ stats = "tick"
    /\ seq < MaxReports \/ learned
    /\ seq' \in seq + 1 .. MaxReports + 1
    /\ IF learned THEN stats' = "done" /\ UNCHANGED reports
       ELSE reports' = Append(reports, [seq |-> seq', nals |-> nalCount]) /\ UNCHANGED stats
    /\ TrackFrame /\ PeerFrame

(* A tick; the goroutine ends with the first report it cannot send.        *)
SendReport ==
    /\ stats = "tick"
    /\ seq < MaxReports \/ learned
    /\ seq' = seq + 1
    /\ IF learned THEN stats' = "done" /\ UNCHANGED reports
       ELSE reports' = Append(reports, [seq |-> seq', nals |-> nalCount]) /\ UNCHANGED stats
    /\ TrackFrame /\ PeerFrame

Recv ==
    \/ \E k \in flight : ReadRTP(k)
    \/ CountNAL \/ LearnEnd \/ EndTrack \/ StartReports \/ SendReport

-----------------------------------------------------------------------------

(***************************************************************************)
(* The depacketizer has nothing of an unfinished NAL unit left over when   *)
(* it gets the packet after got[i].                                        *)
(***************************************************************************)
Clean(i) ==
    \A j \in 1 .. i :
        Fragmented(got[j]) /\ (\A m \in j + 1 .. i : ~Fragmented(got[m])) => sent[got[j]].marker

(***************************************************************************)
(* Loss and reordering damage only what they hit: a NAL unit whose packets *)
(* were read together and in order, with no fragment left over from one    *)
(* before, is on stdout unchanged.  And a NAL unit is written once.        *)
(***************************************************************************)
DamageIsConfined ==
    /\ \A i \in 1 .. Len(got) :
          LET first == got[i]
              length == Input[sent[first].nal].payloads
              whole == [j \in 1 .. length |-> first + j - 1]
          IN  sent[first].payload = 1 /\ i + length - 1 <= Len(got)
              /\ SubSeq(got, i, i + length - 1) = whole /\ Clean(i - 1)
                => \E o \in 1 .. Len(output) : output[o] = whole
    /\ \A o, p \in 1 .. Len(output) : o # p => ToSet(output[o]) \cap ToSet(output[p]) = {}
=============================================================================
