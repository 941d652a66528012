---------------------------- MODULE WebrtcSend ----------------------------
(***************************************************************************)
(* cmd/webrtc-send: main, the goroutine that waits for a signal, the one   *)
(* that prints a summary every second, and the callbacks of pion.          *)
(*                                                                         *)
(* pion keeps one handler of connection states and runs it in a goroutine  *)
(* of its own for every change: main's second OnConnectionStateChange      *)
(* replaces the first one, and a call may run after the next change.       *)
(* Closing a channel that is closed already ends the program in a panic.   *)
(***************************************************************************)
EXTENDS WebrtcLink

VARIABLES
    main,           \* where the main goroutine is
    handler,        \* the handler that is registered: the first or the second
    endCalls,       \* calls of the first handler that are about to close done
    connectedCalls, \* calls of the second that are about to close connectedCh
    signalled,      \* the process got SIGINT or SIGTERM; only the first one counts
    done, connectedCh, dataChannelDone,     \* channels: closed or not
    nal,            \* NAL units read from stdin
    senderNALCount,
    dataChannelOpen,
    lastRecvStats, latencyCount, lastSeq, packetsLost, packetsReordered,
    summary         \* the last summary printed

mainVars == <<main, nal, senderNALCount>>
callVars == <<endCalls, connectedCalls>>
chanVars == <<done, connectedCh>>
recvStatVars == <<lastRecvStats, latencyCount, lastSeq, packetsLost, packetsReordered>>
lastVars == <<dataChannelDone, dataChannelOpen, recvStatVars>>
sendVars == <<mainVars, handler, callVars, signalled, chanVars, lastVars, summary>>

NoReport == [seq |-> 0, nals |-> 0]
NoSummary == [stats |-> NoReport, samples |-> 0, lost |-> 0, reordered |-> 0]
Ended == {"exited", "fatal", "panic"}

SendTypeOK ==
    /\ main \in {"offer", "register", "wait", "loop", "read", "count", "finish", "exit"} \cup Ended
    /\ handler \in {"first", "second"}
    /\ endCalls \in Nat /\ connectedCalls \in Nat
    /\ {signalled, done, connectedCh, dataChannelDone, dataChannelOpen} \subseteq BOOLEAN
    /\ nal \in 0 .. Len(Input)
    /\ senderNALCount \in 0 .. nal
    /\ lastRecvStats \in Report \cup {NoReport}
    /\ latencyCount \in Nat /\ lastSeq \in Nat
    /\ packetsLost \in Nat /\ packetsReordered \in Nat
    /\ summary \in [stats : Report \cup {NoReport}, samples : Nat,
                    lost : Nat, reordered : Nat]

SendInit ==
    /\ main = "offer"
    /\ handler = "first"
    /\ endCalls = 0 /\ connectedCalls = 0
    /\ signalled = FALSE
    /\ done = FALSE /\ connectedCh = FALSE /\ dataChannelDone = FALSE
    /\ nal = 0 /\ senderNALCount = 0
    /\ dataChannelOpen = FALSE
    /\ lastRecvStats = NoReport
    /\ latencyCount = 0 /\ lastSeq = 0 /\ packetsLost = 0 /\ packetsReordered = 0
    /\ summary = NoSummary

Running == main \notin Ended

-----------------------------------------------------------------------------
(* pion: the connection, and what it calls.                                *)

(* States follow each other; the handler of the moment gets the new one.   *)
Follows ==
    [new |-> {"connecting"}, connecting |-> {"connected", "failed"},
     connected |-> {"disconnected", "failed"}, disconnected |-> {"connected", "failed"},
     failed |-> {}, closed |-> {}]

(* Mutant: the second handler does not ask which state it is.              *)
CallHandlerAnyState(state) ==
    /\ endCalls' = IF handler = "first" /\ state \in {"failed", "disconnected"}
                   THEN endCalls + 1 ELSE endCalls
    /\ connectedCalls' = IF handler = "second" THEN connectedCalls + 1 ELSE connectedCalls

CallHandler(state) ==
    /\ endCalls' = IF handler = "first" /\ state \in {"failed", "disconnected"}
                   THEN endCalls + 1 ELSE endCalls
    /\ connectedCalls' = IF handler = "second" /\ state = "connected"
                         THEN connectedCalls + 1 ELSE connectedCalls

ConnectionChanges(state) ==
    /\ Running /\ main # "offer"
    /\ state \in Follows[conn]
    /\ troubles' = IF state \in {"disconnected", "failed"} THEN troubles + 1 ELSE troubles
    /\ troubles' <= MaxTroubles
    /\ conn' = state
    /\ CallHandler(state)
    /\ UNCHANGED <<seqNum, timestamp, sent, flight, reports, mainVars, handler, signalled,
                   chanVars, lastVars, summary>>

(* close of a channel by a callback or a goroutine.                        *)
CloseDone == IF done THEN main' = "panic" /\ UNCHANGED done ELSE done' = TRUE /\ UNCHANGED main
CloseConnectedCh ==
    IF connectedCh THEN main' = "panic" /\ UNCHANGED connectedCh
    ELSE connectedCh' = TRUE /\ UNCHANGED main

RunEndCall ==
    /\ Running /\ endCalls > 0
    /\ endCalls' = endCalls - 1
    /\ CloseDone
    /\ UNCHANGED <<linkVars, nal, senderNALCount, handler, connectedCalls, connectedCh,
                   signalled, lastVars, summary>>

RunConnectedCall ==
    /\ Running /\ connectedCalls > 0
    /\ connectedCalls' = connectedCalls - 1
    /\ CloseConnectedCh
    /\ UNCHANGED <<linkVars, nal, senderNALCount, handler, endCalls, done,
                   signalled, lastVars, summary>>

Signal ==
    /\ Running /\ ~signalled
    /\ signalled' = TRUE
    /\ CloseDone
    /\ UNCHANGED <<linkVars, nal, senderNALCount, handler, callVars, connectedCh,
                   lastVars, summary>>

-----------------------------------------------------------------------------
(* The data channel that webrtc-recv opens.                                *)

ChannelFrame ==
    UNCHANGED <<seqNum, timestamp, sent, flight, conn, troubles, mainVars, handler, callVars,
                signalled, chanVars, summary>>

OnOpen ==
    /\ Running /\ conn = "connected" /\ ~dataChannelOpen
    /\ dataChannelOpen' = TRUE
    /\ UNCHANGED <<dataChannelDone, reports, recvStatVars>> /\ ChannelFrame

(* Numbers that were jumped over, and numbers that came late.              *)
CheckSeq(number) ==
    /\ lastSeq' = number
    /\ packetsLost' = packetsLost + IF lastSeq > 0 /\ number > lastSeq + 1
                                    THEN number - lastSeq - 1 ELSE 0
    /\ packetsReordered' = packetsReordered + IF lastSeq > 0 /\ number <= lastSeq THEN 1 ELSE 0

(* One section of lastRecvStatsMu.                                         *)
OnMessage ==
    /\ Running /\ conn = "connected" /\ reports # << >>
    /\ reports' = Tail(reports)
    /\ lastRecvStats' = Head(reports)
    /\ latencyCount' = latencyCount + 1
    /\ CheckSeq(Head(reports).seq)
    /\ UNCHANGED <<dataChannelOpen, dataChannelDone>> /\ ChannelFrame

(* pion ends the channel when the transport under it has failed.           *)
OnClose ==
    /\ Running /\ conn = "failed" /\ ~dataChannelDone
    /\ dataChannelDone' = TRUE
    /\ UNCHANGED <<dataChannelOpen, reports, recvStatVars>> /\ ChannelFrame

-----------------------------------------------------------------------------
(* What a summary says of the reports, read in one section of              *)
(* lastRecvStatsMu.                                                        *)
Summary ==
    [stats |-> lastRecvStats, samples |-> latencyCount,
     lost |-> packetsLost, reordered |-> packetsReordered]

(* A tick of the goroutine that prints.  close(statsStop) does not wait    *)
(* for it: it may print once more after the final summary.                 *)
PrintSummary ==
    /\ main \in {"loop", "read", "count", "finish", "exit"}
    /\ dataChannelOpen
    /\ summary' = Summary
    /\ UNCHANGED <<linkVars, mainVars, handler, callVars, signalled, chanVars, lastVars>>

-----------------------------------------------------------------------------
(* main.                                                                   *)

MainFrame == UNCHANGED <<troubles, reports, callVars, signalled, chanVars, lastVars>>
SetupFrame ==
    UNCHANGED <<seqNum, timestamp, sent, flight, nal, senderNALCount, summary>> /\ MainFrame

(* Gathering of candidates and the exchange with the WHIP endpoint.  Any   *)
(* error is fatal; none of the waits has a timeout or looks at done, so    *)
(* this may also take for ever.                                            *)
Offer ==
    /\ main = "offer"
    /\ main' \in {"register", "fatal"}
    /\ UNCHANGED <<conn, handler>> /\ SetupFrame

Register ==
    /\ main = "register"
    /\ handler' = "second"
    /\ main' = "wait"
    /\ UNCHANGED conn /\ SetupFrame

WaitConnected ==
    /\ main = "wait" /\ connectedCh
    /\ main' = "loop"
    /\ UNCHANGED <<conn, handler>> /\ SetupFrame

(* log.Fatal: deferred calls do not run.                                   *)
WaitTimeout ==
    /\ main = "wait"
    /\ main' = "fatal"
    /\ UNCHANGED <<conn, handler>> /\ SetupFrame

WaitDone ==
    /\ main = "wait" /\ done
    /\ main' = "exited"
    /\ conn' = "closed"
    /\ UNCHANGED handler /\ SetupFrame

(* Between two NAL units done is looked at.                                *)
LookAtDone ==
    /\ main = "loop"
    /\ main' = IF done THEN "finish" ELSE "read"
    /\ UNCHANGED <<conn, handler>> /\ SetupFrame

(* ReadNAL, Packetize and WriteRTP; pion drops what it cannot send.        *)
SendNAL ==
    /\ main = "read" /\ nal < Len(Input)
    /\ nal' = nal + 1
    /\ Packetize(nal')
    /\ flight' = IF conn \in {"connected", "disconnected"}
                 THEN flight \cup Len(sent) + 1 .. Len(sent') ELSE flight
    /\ main' = "count"
    /\ UNCHANGED <<timestamp, conn, handler, senderNALCount, summary>> /\ MainFrame

Count ==
    /\ main = "count"
    /\ senderNALCount' = senderNALCount + 1
    /\ NextTimestamp(nal)
    /\ main' = "loop"
    /\ UNCHANGED <<seqNum, sent, flight, conn, handler, nal, summary>> /\ MainFrame

(* io.EOF, or an error of stdin anywhere.                                  *)
StopReading ==
    /\ main = "read"
    /\ main' = "finish"
    /\ UNCHANGED <<conn, handler>> /\ SetupFrame

(* Mutant: main waits for the data channel without a timeout.              *)
FinishNoTimeout ==
    /\ main = "finish" /\ dataChannelDone
    /\ summary' = Summary
    /\ main' = "exit"
    /\ UNCHANGED <<seqNum, timestamp, sent, flight, conn, handler, nal, senderNALCount>> /\ MainFrame

(* The data channel is closed, or the timeout has passed.                  *)
Finish ==
    /\ main = "finish"
    /\ summary' = Summary
    /\ main' = "exit"
    /\ UNCHANGED <<seqNum, timestamp, sent, flight, conn, handler, nal, senderNALCount>> /\ MainFrame

(* The deferred pc.Close.                                                  *)
Exit ==
    /\ main = "exit"
    /\ main' = "exited"
    /\ conn' = "closed"
    /\ UNCHANGED handler /\ SetupFrame

Main ==
    \/ Offer \/ Register \/ WaitConnected \/ WaitTimeout \/ WaitDone \/ LookAtDone
    \/ SendNAL \/ Count \/ StopReading \/ Finish \/ Exit

Callbacks ==
    \/ \E state \in {"connecting", "connected", "disconnected", "failed"} : ConnectionChanges(state)
    \/ RunEndCall \/ RunConnectedCall \/ Signal \/ OnOpen \/ OnMessage \/ OnClose

Send == Main \/ Callbacks \/ PrintSummary

-----------------------------------------------------------------------------

(***************************************************************************)
(* A connection that is made once and stays up does not end the program in *)
(* a panic, and no NAL unit is taken from stdin before it is up.  (Any     *)
(* interruption may end it in one: done or connectedCh is closed again.)   *)
(***************************************************************************)
SteadyConnectionIsSafe ==
    /\ troubles = 0 => main # "panic"
    /\ main \in {"loop", "read", "count", "finish", "exit"} \/ nal > 0
          => conn \notin {"new", "connecting"}

(***************************************************************************)
(* What a summary says of the reports belongs together, and it finds none  *)
(* lost or late: the data channel is reliable and ordered and the receiver *)
(* numbers the reports without a gap.                                      *)
(***************************************************************************)
ReliableReports ==
    /\ summary.samples = summary.stats.seq
    /\ summary.lost = 0 /\ summary.reordered = 0

(***************************************************************************)
(* And it never speaks of more NAL units received than were sent, by the   *)
(* time main has counted the last one (a panic may come before that).      *)
(***************************************************************************)
SummaryIsTrue ==
    /\ ReliableReports
    /\ main \notin {"count", "panic"} => summary.stats.nals <= senderNALCount
=============================================================================
