---------------------------- MODULE SideChannel ----------------------------
(***************************************************************************)
(* The statistics of quic-send and quic-recv: quic-recv counts the NAL     *)
(* units it writes, and a goroutine of it sends the counters back in       *)
(* numbered datagrams; a goroutine of quic-send keeps the last report and  *)
(* counts losses, and summaries are printed from what it keeps.            *)
(*                                                                         *)
(* Datagrams are lost, overtake each other, or find the one-datagram       *)
(* buffer of PqReceive overwritten, which is a loss too.  Bytes are        *)
(* counted in NAL units: totalBytesAtomic = n says that the sizes of the   *)
(* first n have been added to it.  What quic-recv decodes is a prefix of   *)
(* what was sent (QuicTransfer) until a chunk of the stream is skipped     *)
(* (PqReceive), and anything after that.                                   *)
(***************************************************************************)
EXTENDS Integers

CONSTANTS
    MaxNals,        \* bound: NAL units sent
    MaxReports,     \* bound: datagrams sent
    MaxDecoded      \* bound: NAL units decoded once a chunk was skipped

ASSUME SideChannelAssumption ==
    MaxNals \in Nat /\ MaxReports \in Nat /\ MaxDecoded \in Nat

VARIABLES
    sender,             \* where the main goroutine of quic-send is
    queued,             \* history: NAL units it has written to the stream
    senderTotalBytes,   \* and counted
    receiver,           \* where the main goroutine of quic-recv is
    skipped,            \* history: a chunk of the stream was skipped
    nalCountAtomic, totalBytesAtomic,
    firstNALReceived, datagramStop,     \* its two channels: closed or not
    stats,              \* where its goroutine that sends reports is
    report,             \* the report it makes
    datagrams,          \* reports on their way
    closed,             \* the sides whose connection is closed
    reader,             \* where the goroutine of quic-send that reads them is
    incoming,           \* the report it has read
    mutex,              \* that goroutine holds lastRecvStatsMu
    lastRecvStats, latencyCount, lastSeq, packetsLost, packetsReordered,
    firstSeq,           \* history: the first report quic-send got
    summary             \* the last summary printed

sendVars == <<sender, queued, senderTotalBytes, summary>>
recvVars == <<receiver, skipped, nalCountAtomic, totalBytesAtomic, firstNALReceived,
              datagramStop>>
statVars == <<stats, report>>
lastVars == <<reader, incoming, mutex, lastRecvStats, latencyCount, lastSeq,
              packetsLost, packetsReordered, firstSeq>>
vars     == <<sendVars, recvVars, statVars, datagrams, closed, lastVars>>

Report  == [seq : Nat, bytes : Nat, nals : Nat]
Summary == [sent : Nat, stats : Report, samples : Nat, lost : Nat, reordered : Nat]

NoReport == [seq |-> 0, bytes |-> 0, nals |-> 0]

TypeOK ==
    /\ sender \in {"send", "count", "wait", "done"}
    /\ queued \in 0 .. MaxNals
    /\ senderTotalBytes \in 0 .. queued
    /\ receiver \in {"loop", "count", "wait", "done"}
    /\ skipped \in BOOLEAN
    /\ nalCountAtomic \in Nat
    /\ totalBytesAtomic \in 0 .. nalCountAtomic
    /\ firstNALReceived \in BOOLEAN
    /\ datagramStop \in BOOLEAN
    /\ stats \in {"first", "select", "load", "send", "stopped"}
    /\ report \in Report
    /\ datagrams \subseteq Report
    /\ closed \subseteq {"sender", "receiver"}
    /\ reader \in {"read", "lock", "check", "done"}
    /\ incoming \in Report
    /\ mutex \in BOOLEAN
    /\ lastRecvStats \in Report
    /\ latencyCount \in Nat
    /\ lastSeq \in Nat
    /\ packetsLost \in Nat
    /\ packetsReordered \in Nat
    /\ firstSeq \in Nat
    /\ summary \in Summary

Init ==
    /\ sender = "send"
    /\ queued = 0
    /\ senderTotalBytes = 0
    /\ receiver = "loop"
    /\ skipped = FALSE
    /\ nalCountAtomic = 0
    /\ totalBytesAtomic = 0
    /\ firstNALReceived = FALSE
    /\ datagramStop = FALSE
    /\ stats = "first"
    /\ report = NoReport
    /\ datagrams = {}
    /\ closed = {}
    /\ reader = "read"
    /\ incoming = NoReport
    /\ mutex = FALSE
    /\ lastRecvStats = NoReport
    /\ latencyCount = 0
    /\ lastSeq = 0
    /\ packetsLost = 0
    /\ packetsReordered = 0
    /\ firstSeq = 0
    /\ summary = [sent |-> 0, stats |-> NoReport, samples |-> 0, lost |-> 0, reordered |-> 0]

-----------------------------------------------------------------------------
(* quic-recv: the main goroutine.                                          *)

RecvFrame == UNCHANGED <<sendVars, statVars, datagrams, lastVars>>

(***************************************************************************)
(* The network thread skips a chunk that does not fit: lengths are read    *)
(* from the middle of the data from then on.  After the loop nobody sees   *)
(* it.                                                                     *)
(***************************************************************************)
SkipChunk ==
    /\ ~skipped
    /\ receiver \in {"loop", "count"}
    /\ skipped' = TRUE
    /\ UNCHANGED <<receiver, nalCountAtomic, totalBytesAtomic, firstNALReceived,
                   datagramStop, closed>>
    /\ RecvFrame

(* What the loop finds to decode.                                          *)
Decodable == IF skipped THEN MaxDecoded ELSE queued

(* A NAL unit that was written: nalCountAtomic first.                      *)
AddNAL ==
    /\ receiver = "loop"
    /\ nalCountAtomic < Decodable
    /\ nalCountAtomic' = nalCountAtomic + 1
    /\ receiver' = "count"
    /\ UNCHANGED <<skipped, totalBytesAtomic, firstNALReceived, datagramStop, closed>>
    /\ RecvFrame

(* Then totalBytesAtomic; the first one lets the reports begin.            *)
AddBytes ==
    /\ receiver = "count"
    /\ totalBytesAtomic' = totalBytesAtomic + 1
    /\ firstNALReceived' = (firstNALReceived \/ nalCountAtomic = 1)
    /\ receiver' = "loop"
    /\ UNCHANGED <<skipped, nalCountAtomic, datagramStop, closed>>
    /\ RecvFrame

(* The end of the loop, for any of its reasons: both channels are closed.  *)
StopReports ==
    /\ receiver = "loop"
    /\ firstNALReceived' = TRUE
    /\ datagramStop' = TRUE
    /\ receiver' = "wait"
    /\ UNCHANGED <<skipped, nalCountAtomic, totalBytesAtomic, closed>>
    /\ RecvFrame

(* wg.Wait returns, and main with it: conn.Close is deferred.              *)
EndReceiver ==
    /\ receiver = "wait"
    /\ stats = "stopped"
    /\ receiver' = "done"
    /\ closed' = closed \cup {"receiver"}
    /\ UNCHANGED <<skipped, nalCountAtomic, totalBytesAtomic, firstNALReceived, datagramStop>>
    /\ RecvFrame

-----------------------------------------------------------------------------
(* quic-recv: the goroutine that sends reports.                            *)

StatFrame == UNCHANGED <<sendVars, recvVars, closed, lastVars>>

BeginReports ==
    /\ stats = "first"
    /\ firstNALReceived
    /\ stats' = "select"
    /\ UNCHANGED <<report, datagrams>>
    /\ StatFrame

(* The ticker: the next sequence number, then totalBytesAtomic.            *)
Tick ==
    /\ stats = "select"
    /\ report.seq < MaxReports
    /\ report' = [report EXCEPT !.seq = @ + 1, !.bytes = totalBytesAtomic]
    /\ stats' = "load"
    /\ UNCHANGED datagrams
    /\ StatFrame

(* Mutant: totalBytesAtomic is loaded last.                                *)
LoadBytesLast ==
    /\ stats = "load"
    /\ report' = [report EXCEPT !.bytes = totalBytesAtomic]
    /\ stats' = "send"
    /\ UNCHANGED datagrams
    /\ StatFrame

LoadNals ==
    /\ stats = "load"
    /\ report' = [report EXCEPT !.nals = nalCountAtomic]
    /\ stats' = "send"
    /\ UNCHANGED datagrams
    /\ StatFrame

(* WriteDatagram fails on a closed connection; that ends the goroutine.    *)
WriteDatagram ==
    /\ stats = "send"
    /\ IF "receiver" \in closed
       THEN stats' = "stopped" /\ UNCHANGED datagrams
       ELSE stats' = "select" /\ datagrams' = datagrams \cup {report}
    /\ UNCHANGED report
    /\ StatFrame

EndReports ==
    /\ stats = "select"
    /\ datagramStop
    /\ stats' = "stopped"
    /\ UNCHANGED <<report, datagrams>>
    /\ StatFrame

-----------------------------------------------------------------------------
(* quic-send: the goroutine that reads reports.                            *)

LastFrame == UNCHANGED <<sendVars, recvVars, statVars, closed>>

(***************************************************************************)
(* Any report that is on its way; one that is never read was lost, or      *)
(* overwritten in the buffer.                                              *)
(***************************************************************************)
ReadDatagram(d) ==
    /\ reader = "read"
    /\ d \in datagrams
    /\ datagrams' = datagrams \ {d}
    /\ incoming' = d
    /\ reader' = "lock"
    /\ UNCHANGED <<mutex, lastRecvStats, latencyCount, lastSeq, packetsLost,
                   packetsReordered, firstSeq>>
    /\ LastFrame

(* ReadDatagram fails on a closed connection; that ends the goroutine.     *)
ReadDatagramEnds ==
    /\ reader = "read"
    /\ "sender" \in closed
    /\ reader' = "done"
    /\ UNCHANGED <<datagrams, incoming, mutex, lastRecvStats, latencyCount, lastSeq,
                   packetsLost, packetsReordered, firstSeq>>
    /\ LastFrame

(* Under lastRecvStatsMu: the report and its latency first ...             *)
StoreReport ==
    /\ reader = "lock"
    /\ mutex' = TRUE
    /\ lastRecvStats' = incoming
    /\ latencyCount' = latencyCount + 1
    /\ firstSeq' = IF latencyCount = 0 THEN incoming.seq ELSE firstSeq
    /\ reader' = "check"
    /\ UNCHANGED <<datagrams, incoming, lastSeq, packetsLost, packetsReordered>>
    /\ LastFrame

(* ... then the gap to the report before it.                               *)
CheckSeq(seq) ==
    /\ packetsLost' = IF lastSeq > 0 /\ seq > lastSeq + 1
                      THEN packetsLost + (seq - lastSeq - 1) ELSE packetsLost
    /\ packetsReordered' = IF lastSeq > 0 /\ 0 < seq /\ seq <= lastSeq
                           THEN packetsReordered + 1 ELSE packetsReordered
    /\ lastSeq' = IF seq > 0 THEN seq ELSE lastSeq

CheckReport ==
    /\ reader = "check"
    /\ CheckSeq(incoming.seq)
    /\ mutex' = FALSE
    /\ reader' = "read"
    /\ UNCHANGED <<datagrams, incoming, lastRecvStats, latencyCount, firstSeq>>
    /\ LastFrame

-----------------------------------------------------------------------------
(* quic-send: the main goroutine, and the one that prints every second.    *)

SendFrame == UNCHANGED <<recvVars, statVars, datagrams, lastVars>>

SendNAL ==
    /\ sender = "send"
    /\ "sender" \notin closed
    /\ queued < MaxNals
    /\ queued' = queued + 1
    /\ sender' = "count"
    /\ UNCHANGED <<senderTotalBytes, summary, closed>>
    /\ SendFrame

CountNAL ==
    /\ sender = "count"
    /\ senderTotalBytes' = senderTotalBytes + 1
    /\ sender' = "send"
    /\ UNCHANGED <<queued, summary, closed>>
    /\ SendFrame

(* Mutant: the loop ends before the last NAL unit is counted.              *)
EndSendingUncounted ==
    /\ sender \in {"send", "count"}
    /\ sender' = "wait"
    /\ UNCHANGED <<queued, senderTotalBytes, summary, closed>>
    /\ SendFrame

(* Mutant: a NAL unit whose write failed is counted.                       *)
EndSendingCounted ==
    /\ sender = "send"
    /\ sender' = "wait"
    /\ senderTotalBytes' = IF "sender" \in closed THEN senderTotalBytes + 1
                                                  ELSE senderTotalBytes
    /\ UNCHANGED <<queued, summary, closed>>
    /\ SendFrame

(* The end of the loop, FinishStream and WaitStreamComplete.               *)
EndSending ==
    /\ sender = "send"
    /\ sender' = "wait"
    /\ UNCHANGED <<queued, senderTotalBytes, summary, closed>>
    /\ SendFrame

(* Mutant: the shared variables are read without lastRecvStatsMu.          *)
TakeSummaryUnlocked ==
    summary' = [sent |-> senderTotalBytes, stats |-> lastRecvStats,
                samples |-> latencyCount, lost |-> packetsLost,
                reordered |-> packetsReordered]

TakeSummary ==
    /\ ~mutex
    /\ summary' = [sent |-> senderTotalBytes, stats |-> lastRecvStats,
                   samples |-> latencyCount, lost |-> packetsLost,
                   reordered |-> packetsReordered]

datagramOpen == reader \in {"lock", "check"} \/ latencyCount > 0

(* Every second, once there was a datagram and until main has finished.    *)
PrintSummary ==
    /\ sender \in {"send", "count", "wait"}
    /\ datagramOpen
    /\ TakeSummary
    /\ UNCHANGED <<sender, queued, senderTotalBytes, closed>>
    /\ SendFrame

(* Mutant: without the timeout of the wait for the data channel.           *)
FinalSummaryNoTimeout ==
    /\ sender = "wait"
    /\ reader = "done"
    /\ TakeSummary
    /\ sender' = "done"
    /\ closed' = closed \cup {"sender"}
    /\ UNCHANGED <<queued, senderTotalBytes>>
    /\ SendFrame

(***************************************************************************)
(* datagramDone or the timeout, whichever comes first: the last summary,   *)
(* and the deferred conn.Close.                                            *)
(***************************************************************************)
FinalSummary ==
    /\ sender = "wait"
    /\ TakeSummary
    /\ sender' = "done"
    /\ closed' = closed \cup {"sender"}
    /\ UNCHANGED <<queued, senderTotalBytes>>
    /\ SendFrame

(* A close by the other side, a signal to quic-recv, an idle timeout.      *)
Disconnected(side) ==
    /\ side \notin closed
    /\ closed' = closed \cup {side}
    /\ UNCHANGED <<sendVars, recvVars, statVars, datagrams, lastVars>>

-----------------------------------------------------------------------------

Receive == AddNAL \/ AddBytes \/ StopReports \/ EndReceiver
Stats   == BeginReports \/ Tick \/ LoadNals \/ WriteDatagram \/ EndReports
Reader  == (\E d \in datagrams : ReadDatagram(d)) \/ ReadDatagramEnds
              \/ StoreReport \/ CheckReport
Send    == SendNAL \/ CountNAL \/ EndSending \/ FinalSummary

Next ==
    \/ Receive
    \/ SkipChunk
    \/ Stats
    \/ Reader
    \/ Send
    \/ PrintSummary
    \/ \E side \in {"sender", "receiver"} : Disconnected(side)

(***************************************************************************)
(* Fairness: goroutines run; a select whose channel stays closed takes     *)
(* that case in the end, although the ticker may be ready too; a mutex     *)
(* that is free again and again is obtained.                               *)
(***************************************************************************)
Fairness ==
    /\ WF_vars(EndReceiver)
    /\ WF_vars(BeginReports \/ LoadNals \/ WriteDatagram)
    /\ SF_vars(EndReports)
    /\ WF_vars(StoreReport \/ CheckReport)
    /\ SF_vars(ReadDatagramEnds)
    /\ SF_vars(FinalSummary)

Spec == Init /\ [][Next]_vars
FairSpec == Spec /\ Fairness

-----------------------------------------------------------------------------
(* Properties.                                                             *)

(***************************************************************************)
(* A report never claims bytes of a NAL unit it does not count, although   *)
(* the two counters are written and read without a lock: they are loaded   *)
(* in the opposite order of the additions.                                 *)
(***************************************************************************)
ReportsAreConsistent == \A d \in datagrams : d.bytes <= d.nals

(***************************************************************************)
(* While no chunk of the stream was skipped, the final summary does not    *)
(* say that more was received than sent, although the report in it was     *)
(* made while quic-send was still counting.                                *)
(***************************************************************************)
FinalNotMoreThanSent ==
    sender = "done" /\ ~skipped => summary.stats.bytes <= summary.sent

(***************************************************************************)
(* Every summary is a consistent cut: as long as no report came late, the  *)
(* reports lost and those received make up all from the first to the last. *)
(***************************************************************************)
SummaryAccountsForAll ==
    summary.samples > 0 /\ summary.reordered = 0 =>
        summary.lost + summary.samples = summary.stats.seq - firstSeq + 1

(***************************************************************************)
(* quic-recv ends when its loop does, also if no NAL unit ever came: the   *)
(* goroutine it waits for is not left waiting for the first one.           *)
(***************************************************************************)
ReceiverEnds == receiver = "wait" ~> receiver = "done"

(***************************************************************************)
(* quic-send ends when it has sent everything, reports or not, and the     *)
(* goroutine that reads them ends with it.                                 *)
(***************************************************************************)
SenderEnds == sender = "wait" ~> sender = "done" /\ reader = "done"

(***************************************************************************)
(* Both programs end.                                                      *)
(***************************************************************************)
BothEnd == ReceiverEnds /\ SenderEnds

(***************************************************************************)
(* packetsLost is the "count of lost packets": never more than the reports *)
(* that were sent and did not arrive.                                      *)
(***************************************************************************)
LostAreLost == packetsLost <= report.seq - latencyCount
=============================================================================
