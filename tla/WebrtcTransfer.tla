-------------------------- MODULE WebrtcTransfer --------------------------
(***************************************************************************)
(* webrtc-send and one session of webrtc-recv, from the offer to the end   *)
(* of both.                                                                *)
(***************************************************************************)
EXTENDS WebrtcSend, WebrtcRecv

vars == <<linkVars, sendVars, recvVars>>

Init == LinkInit /\ SendInit /\ RecvInit
Next == (Send /\ UNCHANGED recvVars) \/ (Recv /\ UNCHANGED sendVars)
Spec == Init /\ [][Next]_vars

(* Goroutines run on and timers fire; what main begins of its own ends,    *)
(* writes to stdout and pc.Close included.  stdin, the WHIP endpoint, the  *)
(* network and the user owe nothing, and pion of webrtc-recv need not      *)
(* learn that the connection has ended.                                    *)
FairSpec ==
    /\ Spec
    /\ WF_vars((Main /\ main \notin {"offer", "read"}) /\ UNCHANGED recvVars)
    /\ WF_vars((CountNAL \/ EndTrack) /\ UNCHANGED sendVars)
    /\ WF_vars(SendReport /\ UNCHANGED sendVars)

TypeOK == LinkTypeOK /\ SendTypeOK /\ RecvTypeOK

(***************************************************************************)
(* Only the exchange with the WHIP endpoint and stdin can hold             *)
(* webrtc-send for ever: everywhere else it goes on to the next NAL unit   *)
(* or to its end.  Once pion of webrtc-recv knows that the connection has  *)
(* ended, the session ends: what it has put together is all written and    *)
(* counted, and its reports stop.                                          *)
(***************************************************************************)
NothingHangs ==
    /\ []<>(main \in Ended \cup {"offer", "read"})
    /\ learned ~>
          [](track = "done" /\ nalBuffer = << >> /\ nalCount = Len(output) /\ stats # "tick")
=============================================================================
