------------------------- MODULE SideChannelProofs -------------------------
(***************************************************************************)
(* Proofs about SideChannel, for every number of NAL units and of reports: *)
(* the type invariant, and the three safety properties of the statistics.  *)
(***************************************************************************)
EXTENDS SideChannel, TLAPS

(***************************************************************************)
(* Each of the two pairs of counters differs only between its two          *)
(* additions.  TypeOK bounds one by the other, and needs this.  Without a  *)
(* skipped chunk the receiver does not count more than was queued.         *)
(***************************************************************************)
CountInv ==
    /\ ~skipped => nalCountAtomic <= queued
    /\ queued = senderTotalBytes + (IF sender = "count" THEN 1 ELSE 0)
    /\ nalCountAtomic = totalBytesAtomic + (IF receiver = "count" THEN 1 ELSE 0)

(* What is known of every report, from its making to its summary.          *)
ReportInv ==
    /\ report.bytes <= totalBytesAtomic
    /\ stats = "send" => report.bytes <= report.nals
    /\ stats \in {"load", "send"} => report.seq > 0
    /\ \A d \in datagrams :
           d.bytes <= d.nals /\ d.bytes <= totalBytesAtomic /\ d.seq > 0
    /\ incoming.bytes <= totalBytesAtomic
    /\ reader \in {"lock", "check"} => incoming.seq > 0
    /\ lastRecvStats.bytes <= totalBytesAtomic
    /\ summary.stats.bytes <= totalBytesAtomic
    /\ sender = "done" => summary.sent = queued

(* The reports lost and got are those from firstSeq to the last one.       *)
Accounted(count) ==
    packetsReordered = 0 => packetsLost + count = lastSeq - firstSeq + 1

NothingGot == lastSeq = 0 /\ packetsLost = 0

(***************************************************************************)
(* The variables that lastRecvStatsMu protects: outside of the section     *)
(* they agree, and inside of it they agree but for the new report.         *)
(***************************************************************************)
OutsideSection ==
    IF latencyCount = 0
    THEN NothingGot
    ELSE lastSeq > 0 /\ lastSeq = lastRecvStats.seq /\ Accounted(latencyCount)

InsideSection ==
    /\ latencyCount > 0
    /\ lastRecvStats = incoming
    /\ IF latencyCount = 1
       THEN NothingGot /\ firstSeq = incoming.seq
       ELSE lastSeq > 0 /\ Accounted(latencyCount - 1)

SectionInv ==
    /\ mutex <=> reader = "check"
    /\ IF reader = "check" THEN InsideSection ELSE OutsideSection

SummaryInv ==
    /\ summary.samples > 0 => latencyCount > 0
    /\ SummaryAccountsForAll

-----------------------------------------------------------------------------
(* Nothing is counted or reported at the beginning.                        *)
LEMMA InitHolds ==
    Init => TypeOK /\ CountInv /\ ReportInv /\ SectionInv /\ SummaryInv
<1> SUFFICES ASSUME Init
             PROVE  TypeOK /\ CountInv /\ ReportInv /\ SectionInv /\ SummaryInv
    OBVIOUS
<1> USE SideChannelAssumption DEF Init, NoReport
<1>1. NoReport \in Report
      BY DEF Report
<1> HIDE DEF NoReport
<1>2. summary \in Summary
      BY <1>1 DEF Summary
<1>3. /\ report \in Report /\ incoming \in Report /\ lastRecvStats \in Report
      /\ datagrams \subseteq Report /\ closed \subseteq {"sender", "receiver"}
      BY <1>1
<1>4. /\ queued \in 0 .. MaxNals /\ senderTotalBytes \in 0 .. queued
      /\ nalCountAtomic \in Nat /\ totalBytesAtomic \in 0 .. nalCountAtomic
      OBVIOUS
<1>5. TypeOK
  <2>1. /\ latencyCount \in Nat /\ lastSeq \in Nat /\ packetsLost \in Nat
        /\ packetsReordered \in Nat /\ firstSeq \in Nat
        OBVIOUS
  <2>2. /\ sender \in {"send", "count", "wait", "done"}
        /\ receiver \in {"loop", "count", "wait", "done"}
        /\ skipped \in BOOLEAN
        /\ firstNALReceived \in BOOLEAN /\ datagramStop \in BOOLEAN
        /\ stats \in {"first", "select", "load", "send", "stopped"}
        /\ reader \in {"read", "lock", "check", "done"} /\ mutex \in BOOLEAN
        OBVIOUS
  <2> HIDE DEF Init
  <2> QED BY <1>2, <1>3, <1>4, <2>1, <2>2 DEF TypeOK
<1> USE DEF NoReport
<1>6. CountInv /\ ReportInv
      BY DEF CountInv, ReportInv
<1>7. SectionInv /\ SummaryInv
      BY DEF SectionInv, OutsideSection, NothingGot, SummaryInv, SummaryAccountsForAll
<1> QED BY <1>5, <1>6, <1>7

(* What a summary is made of when lastRecvStatsMu is free.                 *)
LEMMA SummaryTaken ==
    ASSUME TypeOK, CountInv, ReportInv, SectionInv, TakeSummary
    PROVE  /\ summary' \in Summary
           /\ summary'.sent = senderTotalBytes
           /\ summary'.stats = lastRecvStats
           /\ summary'.samples = latencyCount
           /\ summary'.reordered = 0 /\ latencyCount > 0 =>
                summary'.lost + latencyCount = lastRecvStats.seq - firstSeq + 1
<1>1. senderTotalBytes \in Nat /\ latencyCount \in Nat /\ packetsLost \in Nat
      /\ packetsReordered \in Nat /\ lastRecvStats \in Report
      BY DEF TypeOK
<1>2. summary' = [sent |-> senderTotalBytes, stats |-> lastRecvStats,
                  samples |-> latencyCount, lost |-> packetsLost,
                  reordered |-> packetsReordered]
      BY DEF TakeSummary
<1>3. ~(reader = "check")
      BY DEF TakeSummary, SectionInv
<1>4. OutsideSection
      BY <1>3 DEF SectionInv
<1>5. packetsReordered = 0 /\ latencyCount > 0 =>
        packetsLost + latencyCount = lastRecvStats.seq - firstSeq + 1
      BY <1>1, <1>4 DEF OutsideSection, Accounted
<1> QED BY <1>1, <1>2, <1>5 DEF Summary

-----------------------------------------------------------------------------
(* The type invariant, with the counters.                                  *)

(* Every step keeps the types and the lag between the counters.            *)
LEMMA TypeNext ==
    TypeOK /\ CountInv /\ ReportInv /\ SectionInv /\ [Next]_vars => TypeOK' /\ CountInv'
<1> SUFFICES ASSUME TypeOK, CountInv, ReportInv, SectionInv, [Next]_vars
             PROVE  TypeOK' /\ CountInv'
    OBVIOUS
<1> USE SideChannelAssumption DEF TypeOK, CountInv, sendVars, recvVars, statVars, lastVars
<1>1. CASE Receive
  <2>1. CASE AddNAL
    <3>1. ~skipped' => nalCountAtomic' <= queued'
          BY <2>1 DEF AddNAL, RecvFrame, Decodable
    <3> QED BY <2>1, <3>1 DEF AddNAL, RecvFrame
  <2>2. CASE AddBytes
        BY <2>2 DEF AddBytes, RecvFrame
  <2>3. CASE StopReports
        BY <2>3 DEF StopReports, RecvFrame
  <2>4. CASE EndReceiver
        BY <2>4 DEF EndReceiver, RecvFrame
  <2> QED BY <1>1, <2>1, <2>2, <2>3, <2>4 DEF Receive
<1>2. CASE Stats
  <2>1. CASE BeginReports \/ EndReports
        BY <2>1 DEF BeginReports, EndReports, StatFrame
  <2>2. CASE Tick
    <3>1. report.seq + 1 \in Nat /\ totalBytesAtomic \in Nat
          BY DEF Report
    <3>2. report' \in Report
          BY <2>2, <3>1 DEF Tick, Report
    <3> QED BY <2>2, <3>2 DEF Tick, StatFrame
  <2>3. CASE LoadNals
    <3>1. report' \in Report
          BY <2>3 DEF LoadNals, Report
    <3> QED BY <2>3, <3>1 DEF LoadNals, StatFrame
  <2>4. CASE WriteDatagram
        BY <2>4 DEF WriteDatagram, StatFrame
  <2> QED BY <1>2, <2>1, <2>2, <2>3, <2>4 DEF Stats
<1>3. CASE Reader
  <2>1. ASSUME NEW d \in datagrams, ReadDatagram(d) PROVE TypeOK' /\ CountInv'
        BY <2>1 DEF ReadDatagram, LastFrame
  <2>2. CASE ReadDatagramEnds
        BY <2>2 DEF ReadDatagramEnds, LastFrame
  <2>3. CASE StoreReport
    <3>1. incoming.seq \in Nat
          BY DEF Report
    <3> QED BY <2>3, <3>1 DEF StoreReport, LastFrame
  <2>4. CASE CheckReport
    <3>1. incoming.seq \in Nat
          BY DEF Report
    <3>2. packetsLost' \in Nat /\ packetsReordered' \in Nat /\ lastSeq' \in Nat
          BY <2>4, <3>1 DEF CheckReport, CheckSeq
    <3> QED BY <2>4, <3>2 DEF CheckReport, LastFrame
  <2> QED BY <1>3, <2>1, <2>2, <2>3, <2>4 DEF Reader
<1>4. CASE Send \/ PrintSummary
  <2>1. CASE SendNAL
        BY <2>1 DEF SendNAL, SendFrame
  <2>2. CASE CountNAL
        BY <2>2 DEF CountNAL, SendFrame
  <2>3. CASE EndSending
        BY <2>3 DEF EndSending, SendFrame
  <2>4. CASE FinalSummary
    <3>1. summary' \in Summary
          BY <2>4, SummaryTaken DEF FinalSummary
    <3> QED BY <2>4, <3>1 DEF FinalSummary, SendFrame
  <2>5. CASE PrintSummary
    <3>1. summary' \in Summary
          BY <2>5, SummaryTaken DEF PrintSummary
    <3> QED BY <2>5, <3>1 DEF PrintSummary, SendFrame
  <2> QED BY <1>4, <2>1, <2>2, <2>3, <2>4, <2>5 DEF Send
<1>5. ASSUME NEW side \in {"sender", "receiver"}, Disconnected(side)
      PROVE  TypeOK' /\ CountInv'
      BY <1>5 DEF Disconnected
<1>6. CASE SkipChunk
  <2>1. /\ UNCHANGED <<receiver, nalCountAtomic, totalBytesAtomic, firstNALReceived>>
        /\ UNCHANGED <<datagramStop, closed, sendVars, statVars, datagrams, lastVars>>
        /\ skipped' = TRUE
        BY <1>6 DEF SkipChunk, RecvFrame
  <2>2. CountInv'
        BY <2>1
  <2>3. TypeOK'
        BY <2>1
  <2> QED BY <2>2, <2>3
<1>7. CASE UNCHANGED vars
      BY <1>7 DEF vars
<1> QED BY <1>1, <1>2, <1>3, <1>4, <1>5, <1>6, <1>7 DEF Next

-----------------------------------------------------------------------------
(* The reports.                                                            *)

(* A report keeps the counts it was made of, on the way and after it.      *)
LEMMA ReportNext ==
    TypeOK /\ CountInv /\ ReportInv /\ SectionInv /\ [Next]_vars => ReportInv'
<1> SUFFICES ASSUME TypeOK, CountInv, ReportInv, SectionInv, [Next]_vars
             PROVE  ReportInv'
    OBVIOUS
<1> USE DEF ReportInv, sendVars, recvVars, statVars, lastVars
<1>1. totalBytesAtomic \in Nat /\ nalCountAtomic \in Nat /\ queued \in Nat
      /\ totalBytesAtomic <= nalCountAtomic
      BY SideChannelAssumption DEF TypeOK
<1>2. \A r \in Report : r.seq \in Nat /\ r.bytes \in Nat /\ r.nals \in Nat
      BY DEF Report
<1>3. /\ report \in Report /\ incoming \in Report /\ lastRecvStats \in Report
      /\ datagrams \subseteq Report /\ summary.stats \in Report
      BY DEF TypeOK, Summary
<1>4. CASE Receive
  <2>1. CASE AddBytes
    <3>1. totalBytesAtomic' = totalBytesAtomic + 1
          BY <2>1 DEF AddBytes
    <3>2. \A r \in Report : r.bytes <= totalBytesAtomic => r.bytes <= totalBytesAtomic'
          BY <1>1, <1>2, <3>1
    <3> QED BY <1>3, <2>1, <3>2 DEF AddBytes, RecvFrame
  <2>2. CASE AddNAL \/ StopReports \/ EndReceiver
        BY <2>2 DEF AddNAL, StopReports, EndReceiver, RecvFrame
  <2> QED BY <1>4, <2>1, <2>2 DEF Receive
<1>5. CASE Stats
  <2>1. CASE BeginReports \/ EndReports
        BY <2>1 DEF BeginReports, EndReports, StatFrame
  <2>2. CASE Tick
    <3>1. report'.bytes = totalBytesAtomic /\ report'.seq = report.seq + 1
          BY <1>3, <2>2 DEF Tick, Report
    <3> QED BY <1>1, <1>2, <1>3, <2>2, <3>1 DEF Tick, StatFrame
  <2>3. CASE LoadNals
    <3>1. /\ report'.bytes = report.bytes /\ report'.seq = report.seq
          /\ report'.nals = nalCountAtomic
          BY <1>3, <2>3 DEF LoadNals, Report
    <3> QED BY <1>1, <1>2, <1>3, <2>3, <3>1 DEF LoadNals, StatFrame
  <2>4. CASE WriteDatagram
        BY <2>4 DEF WriteDatagram, StatFrame
  <2> QED BY <1>5, <2>1, <2>2, <2>3, <2>4 DEF Stats
<1>6. CASE Reader
  <2>1. ASSUME NEW d \in datagrams, ReadDatagram(d) PROVE ReportInv'
        BY <2>1 DEF ReadDatagram, LastFrame
  <2>2. CASE ReadDatagramEnds \/ StoreReport \/ CheckReport
        BY <2>2 DEF ReadDatagramEnds, StoreReport, CheckReport, LastFrame
  <2> QED BY <1>6, <2>1, <2>2 DEF Reader
<1>7. CASE Send \/ PrintSummary
  <2>1. CASE SendNAL \/ CountNAL \/ EndSending
        BY <2>1 DEF SendNAL, CountNAL, EndSending, SendFrame
  <2>2. CASE FinalSummary
    <3>1. summary'.stats = lastRecvStats /\ summary'.sent = senderTotalBytes
          BY <2>2, SummaryTaken DEF FinalSummary
    <3>2. queued = senderTotalBytes
          BY <2>2 DEF FinalSummary, CountInv, TypeOK
    <3> QED BY <2>2, <3>1, <3>2 DEF FinalSummary, SendFrame
  <2>3. CASE PrintSummary
    <3>1. summary'.stats = lastRecvStats
          BY <2>3, SummaryTaken DEF PrintSummary
    <3> QED BY <2>3, <3>1 DEF PrintSummary, SendFrame
  <2> QED BY <1>7, <2>1, <2>2, <2>3 DEF Send
<1>8. ASSUME NEW side \in {"sender", "receiver"}, Disconnected(side) PROVE ReportInv'
      BY <1>8 DEF Disconnected
<1>9. CASE SkipChunk \/ UNCHANGED vars
      BY <1>9 DEF SkipChunk, RecvFrame, vars
<1> QED BY <1>4, <1>5, <1>6, <1>7, <1>8, <1>9 DEF Next

-----------------------------------------------------------------------------
(* The variables under lastRecvStatsMu, and the summaries.                 *)

(* The mutex section takes the statistics from one sound state to another. *)
LEMMA SectionNext ==
    TypeOK /\ ReportInv /\ SectionInv /\ [Next]_vars => SectionInv'
<1> SUFFICES ASSUME TypeOK, ReportInv, SectionInv, [Next]_vars PROVE SectionInv'
    OBVIOUS
<1> USE DEF sendVars, recvVars, statVars, lastVars
<1>1. CASE UNCHANGED lastVars
      BY <1>1 DEF SectionInv, InsideSection, OutsideSection, NothingGot, Accounted
<1>2. CASE Receive \/ Stats
      BY <1>1, <1>2 DEF Receive, AddNAL, AddBytes, StopReports, EndReceiver, RecvFrame,
                        Stats, BeginReports, Tick, LoadNals, WriteDatagram, EndReports,
                        StatFrame
<1>3. CASE Reader
  <2> USE DEF SectionInv, OutsideSection, NothingGot, Accounted
  <2>1. ASSUME NEW d \in datagrams, ReadDatagram(d) PROVE SectionInv'
        BY <2>1 DEF ReadDatagram
  <2>2. CASE ReadDatagramEnds
        BY <2>2 DEF ReadDatagramEnds
  <2>3. CASE StoreReport
    <3>1. latencyCount \in Nat /\ lastSeq \in Nat /\ packetsLost \in Nat
          BY DEF TypeOK
    <3> QED BY <2>3, <3>1 DEF StoreReport, InsideSection
  <2>4. CASE CheckReport
    <3>1. InsideSection /\ incoming.seq > 0
          BY <2>4 DEF CheckReport, ReportInv
    <3>2. /\ latencyCount \in Nat /\ lastSeq \in Nat /\ packetsLost \in Nat
          /\ packetsReordered \in Nat /\ firstSeq \in Nat /\ incoming.seq \in Nat
          BY DEF TypeOK, Report
    <3>3. lastSeq' = lastRecvStats'.seq /\ lastSeq' > 0 /\ latencyCount' > 0
          BY <2>4, <3>1, <3>2 DEF CheckReport, CheckSeq, InsideSection
    <3>4. Accounted(latencyCount)'
      <4>1. CASE latencyCount = 1
            BY <2>4, <3>1, <3>2, <4>1 DEF CheckReport, CheckSeq, InsideSection
      <4>2. CASE latencyCount # 1
            BY <2>4, <3>1, <3>2, <4>2 DEF CheckReport, CheckSeq, InsideSection
      <4> QED BY <4>1, <4>2
    <3>5. OutsideSection'
          BY <3>3, <3>4, <3>2
    <3> QED BY <2>4, <3>5 DEF CheckReport
  <2> QED BY <1>3, <2>1, <2>2, <2>3, <2>4 DEF Reader
<1>4. CASE Send \/ PrintSummary
      BY <1>1, <1>4 DEF Send, SendNAL, CountNAL, EndSending, FinalSummary, PrintSummary,
                        SendFrame
<1>5. ASSUME NEW side \in {"sender", "receiver"}, Disconnected(side) PROVE SectionInv'
      BY <1>1, <1>5 DEF Disconnected
<1>6. CASE SkipChunk \/ UNCHANGED vars
      BY <1>1, <1>6 DEF SkipChunk, RecvFrame, vars
<1> QED BY <1>2, <1>3, <1>4, <1>5, <1>6 DEF Next

(* A summary is made of a sound state.                                     *)
LEMMA SummaryNext ==
    TypeOK /\ CountInv /\ ReportInv /\ SectionInv /\ SummaryInv /\ [Next]_vars
        => SummaryInv'
<1> SUFFICES ASSUME TypeOK, CountInv, ReportInv, SectionInv, SummaryInv, [Next]_vars
             PROVE  SummaryInv'
    OBVIOUS
<1> USE DEF SummaryInv, SummaryAccountsForAll, sendVars, recvVars, statVars, lastVars
<1>1. CASE UNCHANGED <<summary, latencyCount, firstSeq>>
      BY <1>1
<1>2. CASE Receive \/ Stats
      BY <1>1, <1>2 DEF Receive, AddNAL, AddBytes, StopReports, EndReceiver, RecvFrame,
                        Stats, BeginReports, Tick, LoadNals, WriteDatagram, EndReports,
                        StatFrame
<1>3. CASE Reader
  <2>1. CASE StoreReport
    <3>1. latencyCount \in Nat
          BY DEF TypeOK
    <3> QED BY <2>1, <3>1 DEF StoreReport, LastFrame
  <2>2. ASSUME NEW d \in datagrams, ReadDatagram(d) PROVE SummaryInv'
        BY <1>1, <2>2 DEF ReadDatagram, LastFrame
  <2>3. CASE ReadDatagramEnds \/ CheckReport
        BY <1>1, <2>3 DEF ReadDatagramEnds, CheckReport, LastFrame
  <2> QED BY <1>3, <2>1, <2>2, <2>3 DEF Reader
<1>4. CASE SendNAL \/ CountNAL \/ EndSending
      BY <1>1, <1>4 DEF SendNAL, CountNAL, EndSending, SendFrame
<1>5. CASE FinalSummary \/ PrintSummary
  <2>1. TakeSummary /\ latencyCount' = latencyCount /\ firstSeq' = firstSeq
        BY <1>5 DEF FinalSummary, PrintSummary, SendFrame
  <2> QED BY <2>1, SummaryTaken
<1>6. ASSUME NEW side \in {"sender", "receiver"}, Disconnected(side) PROVE SummaryInv'
      BY <1>1, <1>6 DEF Disconnected
<1>7. CASE SkipChunk \/ UNCHANGED vars
      BY <1>1, <1>7 DEF SkipChunk, RecvFrame, vars
<1> QED BY <1>2, <1>3, <1>4, <1>5, <1>6, <1>7 DEF Next, Send

-----------------------------------------------------------------------------
(* The theorems.                                                           *)

(* The parts of the invariant, together.                                   *)
LEMMA Invariants ==
    Spec => [](TypeOK /\ CountInv /\ ReportInv /\ SectionInv /\ SummaryInv)
BY InitHolds, TypeNext, ReportNext, SectionNext, SummaryNext, PTL DEF Spec

(***************************************************************************)
(* The type invariant: no counter runs ahead of the one that is added to   *)
(* before it.                                                              *)
(***************************************************************************)
THEOREM TypeCorrect == Spec => []TypeOK
BY Invariants, PTL

(***************************************************************************)
(* No report claims bytes of a NAL unit it does not count, for any number  *)
(* of NAL units and reports.                                               *)
(***************************************************************************)
THEOREM ReportsCorrect == Spec => []ReportsAreConsistent
<1>1. ReportInv => ReportsAreConsistent
      BY DEF ReportInv, ReportsAreConsistent
<1> QED BY Invariants, <1>1, PTL

(***************************************************************************)
(* While no chunk of the stream was skipped, the final summary never says  *)
(* that more was received than sent, for any number of NAL units.          *)
(***************************************************************************)
THEOREM FinalCorrect == Spec => []FinalNotMoreThanSent
<1>1. TypeOK /\ CountInv /\ ReportInv => FinalNotMoreThanSent
  <2> SUFFICES ASSUME TypeOK, CountInv, ReportInv, sender = "done", ~skipped
               PROVE  summary.stats.bytes <= summary.sent
      BY DEF FinalNotMoreThanSent
  <2>1. summary.stats.bytes <= totalBytesAtomic /\ summary.sent = queued
        BY DEF ReportInv
  <2>2. /\ totalBytesAtomic \in Nat /\ nalCountAtomic \in Nat /\ queued \in Nat
        /\ totalBytesAtomic <= nalCountAtomic /\ nalCountAtomic <= queued
        BY SideChannelAssumption DEF TypeOK, CountInv
  <2>3. summary.stats.bytes \in Nat
        BY DEF TypeOK, Summary, Report
  <2> QED BY <2>1, <2>2, <2>3
<1> QED BY Invariants, <1>1, PTL

(***************************************************************************)
(* In a summary without late reports, those lost and those received are    *)
(* all from the first to the last: the mutex makes it a consistent cut.    *)
(***************************************************************************)
THEOREM AccountingCorrect == Spec => []SummaryAccountsForAll
<1>1. SummaryInv => SummaryAccountsForAll
      BY DEF SummaryInv
<1> QED BY Invariants, <1>1, PTL
=============================================================================
