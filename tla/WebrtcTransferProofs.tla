----------------------- MODULE WebrtcTransferProofs -----------------------
(***************************************************************************)
(* Proofs about webrtc-send and webrtc-recv, for every input, every number *)
(* of interruptions and of reports, and every wrap-around: the type        *)
(* invariant, that a steady connection ends in no panic, that the summaries*)
(* tell the truth, that the headers tell NAL units and frames apart, and   *)
(* that loss and reordering damage only what they hit.                     *)
(***************************************************************************)
EXTENDS WebrtcTransfer, SequenceTheorems, FiniteSetTheorems, TLAPS

(* A function on 1 .. n is a sequence.                                     *)
LEMMA FunctionIsSequence ==
    ASSUME NEW S, NEW n \in Nat, NEW f \in [1 .. n -> S]
    PROVE  f \in Seq(S) /\ Len(f) = n
OBVIOUS

(* A remainder is below its divisor.                                       *)
LEMMA ModIsBelow == ASSUME NEW a \in Int, NEW b \in Nat \ {0} PROVE a % b \in 0 .. b - 1
OBVIOUS

(* What quotient and remainder are.                                        *)
LEMMA DivMod ==
    ASSUME NEW a \in Int, NEW n \in Nat \ {0}
    PROVE  a = n * (a \div n) + (a % n) /\ a % n \in 0 .. n - 1 /\ a \div n \in Int
OBVIOUS

(* A multiple other than 0 is no closer to 0 than the number itself.       *)
LEMMA Multiple ==
    ASSUME NEW n \in Nat \ {0}, NEW d \in Int
    PROVE  (d > 0 => n * d >= n) /\ (d < 0 => n * d <= 0 - n)
OBVIOUS

(* There is one remainder only.                                            *)
LEMMA RemainderIsUnique ==
    ASSUME NEW a \in Int, NEW n \in Nat \ {0}, NEW q \in Int, NEW r \in 0 .. n - 1, a = n * q + r
    PROVE  a % n = r
<1> DEFINE p == a \div n
<1>1. a = n * p + (a % n) /\ a % n \in 0 .. n - 1 /\ p \in Int
      BY DivMod
<1> HIDE DEF p
<1>2. n * (p - q) = r - (a % n)
      BY <1>1
<1>3. CASE p - q > 0
  <2>1. n * (p - q) >= n
        BY <1>1, <1>3, Multiple
  <2> QED BY <1>1, <1>2, <2>1
<1>4. CASE p - q < 0
  <2>1. n * (p - q) <= 0 - n
        BY <1>1, <1>4, Multiple
  <2> QED BY <1>1, <1>2, <2>1
<1>5. CASE p = q
      BY <1>1, <1>5
<1> QED BY <1>1, <1>3, <1>4, <1>5

(* A counter that is taken modulo n at every step is the sum modulo n.     *)
LEMMA ModAdd ==
    ASSUME NEW a \in Int, NEW b \in Int, NEW n \in Nat \ {0}
    PROVE  ((a % n) + b) % n = (a + b) % n
<1> DEFINE p == a \div n
           c == (a % n) + b
           q == c \div n
           r == c % n
<1>1. a = n * p + (a % n) /\ p \in Int /\ a % n \in Int
      BY DivMod
<1>2. c \in Int
      BY <1>1
<1> HIDE DEF p
<1>3. c = n * q + r /\ q \in Int /\ r \in 0 .. n - 1
      BY <1>2, DivMod
<1>4. a + b = n * p + c
      BY <1>1
<1> HIDE DEF c, q, r
<1>5. a + b = n * (p + q) + r /\ p + q \in Int /\ a + b \in Int
      BY <1>1, <1>3, <1>4
<1>6. (a + b) % n = r
      BY <1>3, <1>5, RemainderIsUnique
<1> QED BY <1>6 DEF r, c

(* Numbers less than n apart have different remainders.                    *)
LEMMA ModIsInjective ==
    ASSUME NEW a \in Int, NEW n \in Nat \ {0}, NEW d \in 1 .. n - 1
    PROVE  (a + d) % n # a % n
<1>1. /\ a = n * (a \div n) + (a % n) /\ a \div n \in Int /\ a % n \in Int
      /\ a + d = n * ((a + d) \div n) + ((a + d) % n) /\ (a + d) \div n \in Int
      BY DivMod
<1> DEFINE p == a \div n
           q == (a + d) \div n
<1> SUFFICES ASSUME (a + d) % n = a % n PROVE FALSE
    OBVIOUS
<1>2. p \in Int /\ q \in Int /\ n * p + d = n * q
      BY <1>1
<1> HIDE DEF p, q
<1>3. n * (q - p) = d /\ q - p \in Int
      BY <1>2
<1>4. CASE q - p > 0
      BY <1>3, <1>4, Multiple
<1>5. CASE q - p < 0
      BY <1>3, <1>5, Multiple
<1>6. CASE q - p = 0
      BY <1>3, <1>6
<1> QED BY <1>3, <1>4, <1>5, <1>6

(* What the input looks like.                                              *)
LEMMA InputType ==
    /\ Len(Input) \in Nat
    /\ \A n \in 1 .. Len(Input) : Input[n].payloads \in Nat
<1> DEFINE NAL == [type : NALTypes, payloads : Nat]
<1>1. Input \in Seq(NAL)
      BY WebrtcAssumption
<1> HIDE DEF NAL
<1>2. Len(Input) \in Nat /\ \A n \in 1 .. Len(Input) : Input[n] \in NAL
      BY <1>1, LenProperties, ElementOfSeq
<1> QED BY <1>2 DEF NAL

-----------------------------------------------------------------------------
(***************************************************************************)
(* The packets.  A packet is one payload of a NAL unit that was read, and  *)
(* no payload is in two packets.                                           *)
(***************************************************************************)
SentInv ==
    /\ nal \in 0 .. Len(Input)
    /\ sent \in Seq(Packet)
    /\ \A k \in 1 .. Len(sent) :
          /\ sent[k].nal \in 1 .. nal
          /\ sent[k].payload \in 1 .. Input[sent[k].nal].payloads
          /\ sent[k].marker <=> sent[k].payload = Input[sent[k].nal].payloads
    /\ \A j, k \in 1 .. Len(sent) :
          sent[j].nal = sent[k].nal /\ sent[j].payload = sent[k].payload => j = k

LinkInv ==
    /\ seqNum \in 0 .. SeqNums - 1
    /\ timestamp \in 0 .. Timestamps - 1
    /\ SentInv
    /\ flight \subseteq 1 .. Len(sent)

(* What every action but SendNAL and Count does to it.                     *)
NothingSent ==
    UNCHANGED <<seqNum, timestamp, sent, nal, senderNALCount>> /\ flight' \subseteq flight

(* The steps by what they send: nothing, a NAL unit, or its count.         *)
LEMMA SendingCases ==
    [Next]_vars => NothingSent \/ (SendNAL /\ UNCHANGED recvVars) \/ (Count /\ UNCHANGED recvVars)
<1> SUFFICES ASSUME [Next]_vars
             PROVE  NothingSent \/ (SendNAL /\ UNCHANGED recvVars) \/ (Count /\ UNCHANGED recvVars)
    OBVIOUS
<1> USE DEF NothingSent
<1>1. CASE Send /\ UNCHANGED recvVars
  <2>1. CASE Main
    <3>1. CASE Offer \/ Register \/ WaitConnected \/ WaitTimeout \/ WaitDone \/ LookAtDone
               \/ StopReading \/ Exit
          BY <3>1 DEF Offer, Register, WaitConnected, WaitTimeout, WaitDone, LookAtDone,
                      StopReading, Exit, SetupFrame
    <3>2. CASE Finish
          BY <3>2 DEF Finish
    <3> QED BY <1>1, <2>1, <3>1, <3>2 DEF Main
  <2>2. CASE Callbacks
    <3>1. ASSUME NEW state, ConnectionChanges(state) PROVE NothingSent
          BY <3>1 DEF ConnectionChanges, mainVars
    <3>2. CASE RunEndCall \/ RunConnectedCall \/ Signal
          BY <3>2 DEF RunEndCall, RunConnectedCall, Signal, linkVars
    <3>3. CASE OnOpen \/ OnMessage \/ OnClose
          BY <3>3 DEF OnOpen, OnMessage, OnClose, ChannelFrame, mainVars
    <3> QED BY <2>2, <3>1, <3>2, <3>3 DEF Callbacks
  <2>3. CASE PrintSummary
        BY <2>3 DEF PrintSummary, linkVars, mainVars
  <2> QED BY <1>1, <2>1, <2>2, <2>3 DEF Send
<1>2. CASE Recv /\ UNCHANGED sendVars
      BY <1>2 DEF Recv, ReadRTP, CountNAL, LearnEnd, EndTrack, StartReports, SendReport,
                  PeerFrame, TrackFrame, sendVars, mainVars
<1>3. CASE UNCHANGED vars
      BY <1>3 DEF vars, linkVars, sendVars, mainVars
<1> QED BY <1>1, <1>2, <1>3 DEF Next

(* Nothing has been sent at the beginning.                                 *)
LEMMA LinkInvInit == Init => LinkInv
<1>1. << >> \in Seq(Packet) /\ Len(<< >>) = 0
      BY EmptySeq
<1> QED BY <1>1, WebrtcAssumption, InputType DEF Init, LinkInit, SendInit, LinkInv, SentInv

(* SendNAL appends the packets of the next NAL unit.                       *)
LEMMA SentGrows ==
    ASSUME LinkInv, SendNAL
    PROVE  LET p == Input[nal'].payloads
           IN  /\ sent' \in Seq(Packet) /\ Len(sent') = Len(sent) + p
               /\ \A k \in 1 .. Len(sent) + p :
                     sent'[k] = IF k <= Len(sent) THEN sent[k] ELSE Packets(nal')[k - Len(sent)]
<1> DEFINE p == Input[nal'].payloads
<1>1. p \in Nat
      BY InputType DEF LinkInv, SentInv, SendNAL
<1>2. Packets(nal') \in [1 .. p -> Packet]
  <2>1. ASSUME NEW i \in 1 .. p PROVE (seqNum + i - 1) % SeqNums \in 0 .. SeqNums - 1
    <3>1. seqNum + i - 1 \in Int /\ SeqNums \in Nat \ {0}
          BY <1>1, WebrtcAssumption DEF LinkInv
    <3> QED BY <3>1, ModIsBelow
  <2>2. nal' \in 1 .. Len(Input)
        BY InputType DEF LinkInv, SentInv, SendNAL
  <2> QED BY <1>1, <2>1, <2>2 DEF Packets, Packet, LinkInv
<1>3. Packets(nal') \in Seq(Packet) /\ Len(Packets(nal')) = p
      BY <1>1, <1>2, FunctionIsSequence
<1>4. sent \in Seq(Packet) /\ sent' = sent \o Packets(nal')
      BY DEF LinkInv, SentInv, SendNAL, Packetize
<1> QED BY <1>3, <1>4, ConcatProperties

(* A packet that is sent is new, and of the NAL unit that was read.       *)
LEMMA SendNALKeeps == ASSUME LinkInv, SendNAL PROVE LinkInv'
<1> DEFINE p == Input[nal'].payloads
<1>1. nal \in Nat /\ nal' = nal + 1 /\ nal' \in 1 .. Len(Input) /\ p \in Nat
      BY InputType DEF LinkInv, SentInv, SendNAL
<1>2. seqNum' \in 0 .. SeqNums - 1
  <2>1. seqNum + p \in Int /\ SeqNums \in Nat \ {0}
        BY <1>1, WebrtcAssumption DEF LinkInv
  <2>2. (seqNum + p) % SeqNums \in 0 .. SeqNums - 1
        BY <2>1, ModIsBelow
  <2> QED BY <2>2 DEF SendNAL, Packetize
<1>5. sent \in Seq(Packet) /\ Len(sent) \in Nat
      BY LenProperties DEF LinkInv, SentInv
<1>6. /\ sent' \in Seq(Packet) /\ Len(sent') = Len(sent) + p
      /\ \A k \in 1 .. Len(sent) + p :
            sent'[k] = IF k <= Len(sent) THEN sent[k] ELSE Packets(nal')[k - Len(sent)]
      BY SentGrows
<1>7. ASSUME NEW k \in 1 .. Len(sent), k \in 1 .. Len(sent')
      PROVE  sent'[k] = sent[k]
      BY <1>1, <1>5, <1>6, <1>7
<1>8. ASSUME NEW k \in 1 .. Len(sent'), k > Len(sent)
      PROVE  /\ k - Len(sent) \in 1 .. p
             /\ sent'[k].nal = nal' /\ sent'[k].payload = k - Len(sent)
             /\ sent'[k].marker <=> k - Len(sent) = p
  <2>1. k - Len(sent) \in 1 .. p
        BY <1>1, <1>5, <1>6, <1>8
  <2>2. sent'[k] = Packets(nal')[k - Len(sent)]
        BY <1>1, <1>5, <1>6, <1>8
  <2>3. Packets(nal')[k - Len(sent)] =
            [nal |-> nal', payload |-> k - Len(sent), marker |-> k - Len(sent) = p,
             seq |-> (seqNum + (k - Len(sent)) - 1) % SeqNums, ts |-> timestamp]
        BY <2>1, Zenon DEF Packets
  <2>4. sent'[k].nal = nal' /\ sent'[k].payload = k - Len(sent)
        BY <2>2, <2>3
  <2>5. sent'[k].marker = (k - Len(sent) = p)
        BY <2>2, <2>3
  <2> QED BY <2>1, <2>4, <2>5
<1>9. \A k \in 1 .. Len(sent') : k \in 1 .. Len(sent) \/ k > Len(sent)
      BY <1>1, <1>5, <1>6
<1>10. ASSUME NEW k \in 1 .. Len(sent')
       PROVE  /\ sent'[k].nal \in 1 .. nal'
              /\ sent'[k].payload \in 1 .. Input[sent'[k].nal].payloads
              /\ sent'[k].marker <=> sent'[k].payload = Input[sent'[k].nal].payloads
  <2>1. CASE k \in 1 .. Len(sent)
    <3>1. sent'[k] = sent[k]
          BY <1>7, <2>1
    <3>2. /\ sent[k].nal \in 1 .. nal
          /\ sent[k].payload \in 1 .. Input[sent[k].nal].payloads
          /\ sent[k].marker <=> sent[k].payload = Input[sent[k].nal].payloads
          BY <2>1 DEF LinkInv, SentInv
    <3>3. 1 .. nal \subseteq 1 .. nal'
          BY <1>1
    <3> QED BY <3>1, <3>2, <3>3
  <2>2. CASE k > Len(sent)
    <3>1. /\ sent'[k].nal = nal' /\ sent'[k].payload \in 1 .. p
          /\ sent'[k].marker <=> sent'[k].payload = p
          BY <1>8, <2>2
    <3>2. nal' \in 1 .. nal'
          BY <1>1
    <3> QED BY <3>1, <3>2
  <2> QED BY <2>1, <2>2, <1>9
<1>11. ASSUME NEW j \in 1 .. Len(sent'), NEW k \in 1 .. Len(sent'),
              sent'[j].nal = sent'[k].nal, sent'[j].payload = sent'[k].payload
       PROVE  j = k
  <2>1. CASE j \in 1 .. Len(sent) /\ k \in 1 .. Len(sent)
        BY <2>1, <1>7, <1>11 DEF LinkInv, SentInv
  <2>2. CASE j > Len(sent) /\ k > Len(sent)
        BY <2>2, <1>5, <1>8, <1>11
  <2>3. \A i \in 1 .. Len(sent) : i \in 1 .. Len(sent') => sent'[i].nal # nal'
        BY <1>1, <1>7 DEF LinkInv, SentInv
  <2>4. CASE j \in 1 .. Len(sent) /\ k > Len(sent)
        BY <2>3, <2>4, <1>8, <1>11
  <2>5. CASE j > Len(sent) /\ k \in 1 .. Len(sent)
        BY <2>3, <2>5, <1>8, <1>11
  <2> QED BY <2>1, <2>2, <2>4, <2>5, <1>9
<1>12. flight' \subseteq 1 .. Len(sent')
  <2>1. Len(sent) + 1 .. Len(sent') \subseteq 1 .. Len(sent')
        BY <1>1, <1>5, <1>6
  <2>2. 1 .. Len(sent) \subseteq 1 .. Len(sent')
        BY <1>1, <1>5, <1>6
  <2> QED BY <2>1, <2>2, Zenon DEF SendNAL, LinkInv
<1>13. timestamp' \in 0 .. Timestamps - 1
       BY DEF SendNAL, LinkInv
<1>14. nal' \in 0 .. Len(Input)'
       BY <1>1
<1>15. SentInv'
       BY <1>6, <1>10, <1>11, <1>14 DEF SentInv
<1> QED BY <1>2, <1>12, <1>13, <1>15 DEF LinkInv

(* Every step keeps what is known of the packets sent and on their way.    *)
LEMMA LinkInvNext == LinkInv /\ [Next]_vars => LinkInv'
<1> SUFFICES ASSUME LinkInv, [Next]_vars PROVE LinkInv'
    OBVIOUS
<1>1. CASE NothingSent
      BY <1>1 DEF NothingSent, LinkInv, SentInv
<1>2. CASE Count
  <2>1. timestamp + Ticks \in Int /\ Timestamps \in Nat \ {0}
        BY WebrtcAssumption DEF LinkInv
  <2>2. (timestamp + Ticks) % Timestamps \in 0 .. Timestamps - 1
        BY <2>1, ModIsBelow
  <2>3. timestamp' \in 0 .. Timestamps - 1
        BY <1>2, <2>2 DEF Count, NextTimestamp, LinkInv
  <2> QED BY <1>2, <2>3 DEF Count, LinkInv, SentInv
<1> QED BY <1>1, <1>2, SendNALKeeps, SendingCases

-----------------------------------------------------------------------------
(* The programs' control.                                                  *)

Phases == {"offer", "register", "wait", "loop", "read", "count", "finish", "exit"} \cup Ended
Sending == {"loop", "read", "count", "finish", "exit"}

ControlOK ==
    /\ main \in Phases
    /\ handler \in {"first", "second"}
    /\ endCalls \in Nat /\ connectedCalls \in Nat
    /\ signalled \in BOOLEAN /\ done \in BOOLEAN /\ connectedCh \in BOOLEAN
    /\ dataChannelDone \in BOOLEAN /\ dataChannelOpen \in BOOLEAN
    /\ conn \in {"new", "connecting", "connected", "disconnected", "failed", "closed"}
    /\ troubles \in 0 .. MaxTroubles

(***************************************************************************)
(* On a connection that was never interrupted only the signal closes done, *)
(* and connectedCh is closed by one call at most.                          *)
(***************************************************************************)
SteadyInv ==
    troubles = 0 =>
        /\ conn \notin {"disconnected", "failed"}
        /\ endCalls = 0
        /\ done => signalled
        /\ connectedCh => connectedCalls = 0
        /\ connectedCalls <= 1
        /\ main # "panic"

(* Before the connection is up nobody was told that it is.                 *)
UpInv ==
    conn \in {"new", "connecting"} =>
        ~connectedCh /\ connectedCalls = 0 /\ nal = 0 /\ main \notin Sending

ControlInv == ControlOK /\ SteadyInv /\ UpInv

controlVars == <<main, handler, endCalls, connectedCalls, signalled, done, connectedCh,
                 dataChannelDone, dataChannelOpen, conn, troubles, nal>>

(* No handler has run at the beginning.                                    *)
LEMMA ControlInit == Init => ControlInv
<1>1. 0 \in 0 .. MaxTroubles /\ 0 \in Nat /\ 0 <= 1
      BY WebrtcAssumption
<1> QED
    BY <1>1, Zenon
    DEF Init, LinkInit, SendInit, ControlInv, ControlOK, SteadyInv, UpInv, Phases, Sending, Ended

(* A change of state calls the handler that is registered then.            *)
LEMMA ConnectionKeeps ==
    ASSUME ControlInv, NEW state \in {"connecting", "connected", "disconnected", "failed"},
           ConnectionChanges(state)
    PROVE  ControlInv'
<1>1. troubles' \in 0 .. MaxTroubles
      BY WebrtcAssumption DEF ConnectionChanges, ControlInv, ControlOK
<1>2. /\ conn \in {"new", "connecting", "connected", "disconnected"}
      /\ state = "connecting" <=> conn = "new"
      /\ state \in {"disconnected", "failed"} => troubles' # 0
      /\ troubles' = 0 => troubles = 0
      BY WebrtcAssumption DEF ConnectionChanges, Follows, ControlInv, ControlOK
<1>3. endCalls' \in Nat /\ connectedCalls' \in Nat
      BY DEF ConnectionChanges, CallHandler, ControlInv, ControlOK
<1>4. ControlOK'
      BY <1>1, <1>2, <1>3 DEF ConnectionChanges, ControlInv, ControlOK, mainVars, chanVars, lastVars
<1>5. SteadyInv'
      BY <1>2 DEF ConnectionChanges, CallHandler, ControlInv, SteadyInv, UpInv, ControlOK, Follows,
                  mainVars, chanVars
<1>6. UpInv'
      BY <1>2 DEF ConnectionChanges, CallHandler, ControlInv, UpInv, mainVars, chanVars
<1> QED BY <1>4, <1>5, <1>6 DEF ControlInv

(* On a connection without trouble each channel is closed once at most.    *)
LEMMA CallKeeps == ASSUME ControlInv, RunEndCall \/ RunConnectedCall \/ Signal PROVE ControlInv'
<1> USE DEF ControlInv, ControlOK, SteadyInv, UpInv, Phases, Ended, Sending, Running, linkVars, lastVars
<1>1. CASE RunEndCall
  <2>1. endCalls' \in Nat /\ troubles # 0
        BY <1>1 DEF RunEndCall
  <2>2. /\ main' \in {main, "panic"} /\ done' \in BOOLEAN
        /\ UNCHANGED <<handler, connectedCalls, signalled, connectedCh, dataChannelDone,
                       dataChannelOpen, conn, troubles, nal>>
        BY <1>1 DEF RunEndCall, CloseDone
  <2> QED BY <2>1, <2>2
<1>2. CASE RunConnectedCall
  <2>1. /\ connectedCalls' \in Nat /\ connectedCalls # 0 /\ (connectedCalls <= 1 => connectedCalls' = 0)
        /\ connectedCalls' <= connectedCalls
        BY <1>2 DEF RunConnectedCall
  <2>2. /\ main' \in {main, "panic"} /\ connectedCh' \in BOOLEAN
        /\ ~connectedCh => main' = main
        /\ UNCHANGED <<handler, endCalls, signalled, done, dataChannelDone,
                       dataChannelOpen, conn, troubles, nal>>
        BY <1>2 DEF RunConnectedCall, CloseConnectedCh
  <2> QED BY <2>1, <2>2
<1>3. CASE Signal
      BY <1>3 DEF Signal, CloseDone, callVars
<1> QED BY <1>1, <1>2, <1>3

(* The steps of main close nothing that another closes.                    *)
LEMMA MainKeeps == ASSUME ControlInv, Main PROVE ControlInv'
<1> USE DEF ControlInv, ControlOK, SteadyInv, UpInv, Phases, Ended, Sending, SetupFrame, MainFrame,
            callVars, chanVars, lastVars
<1>1. CASE Offer
      BY <1>1 DEF Offer
<1>2. CASE Register
      BY <1>2 DEF Register
<1>3. CASE WaitConnected
      BY <1>3 DEF WaitConnected
<1>4. CASE WaitTimeout
      BY <1>4 DEF WaitTimeout
<1>5. CASE WaitDone
      BY <1>5 DEF WaitDone
<1>6. CASE LookAtDone
      BY <1>6 DEF LookAtDone
<1>7. CASE SendNAL
      BY <1>7 DEF SendNAL
<1>8. CASE Count
      BY <1>8 DEF Count
<1>9. CASE StopReading
      BY <1>9 DEF StopReading
<1>10. CASE Finish
      BY <1>10 DEF Finish
<1>11. CASE Exit
      BY <1>11 DEF Exit
<1> QED BY <1>1, <1>2, <1>3, <1>4, <1>5, <1>6, <1>7, <1>8, <1>9, <1>10, <1>11 DEF Main

(* Every step keeps the control invariant.                                 *)
LEMMA ControlNext == ControlInv /\ [Next]_vars => ControlInv'
<1> SUFFICES ASSUME ControlInv, [Next]_vars PROVE ControlInv'
    OBVIOUS
<1>1. CASE UNCHANGED controlVars
      BY <1>1 DEF controlVars, ControlInv, ControlOK, SteadyInv, UpInv
<1>2. CASE OnOpen \/ OnMessage \/ OnClose
  <2>1. /\ dataChannelOpen' \in BOOLEAN /\ dataChannelDone' \in BOOLEAN
        /\ UNCHANGED <<main, handler, endCalls, connectedCalls, signalled, done, connectedCh,
                       conn, troubles, nal>>
        BY <1>2 DEF OnOpen, OnMessage, OnClose, ChannelFrame, mainVars, callVars, chanVars,
                    ControlInv, ControlOK
  <2> QED BY <2>1 DEF ControlInv, ControlOK, SteadyInv, UpInv
<1>3. CASE PrintSummary
      BY <1>1, <1>3 DEF PrintSummary, linkVars, mainVars, callVars, chanVars, lastVars, controlVars
<1>4. CASE Recv /\ UNCHANGED sendVars
      BY <1>1, <1>4 DEF Recv, ReadRTP, CountNAL, LearnEnd, EndTrack, StartReports, SendReport, PeerFrame,
                        sendVars, mainVars, callVars, chanVars, lastVars, controlVars
<1>5. CASE UNCHANGED vars
      BY <1>1, <1>5 DEF vars, linkVars, sendVars, mainVars, callVars, chanVars, lastVars, controlVars
<1> QED BY <1>2, <1>3, <1>4, <1>5, ConnectionKeeps, CallKeeps, MainKeeps
        DEF Next, Send, Callbacks

(***************************************************************************)
(* A connection that is not interrupted ends in no panic, and no NAL unit  *)
(* is taken from stdin before it is up, for every input.                   *)
(***************************************************************************)
THEOREM SteadyCorrect == Spec => []SteadyConnectionIsSafe
<1>1. ControlInv => SteadyConnectionIsSafe
  <2> SUFFICES ASSUME ControlInv PROVE SteadyConnectionIsSafe
      OBVIOUS
  <2> QED BY DEF ControlInv, SteadyInv, UpInv, SteadyConnectionIsSafe, Sending
<1> QED BY ControlInit, ControlNext, <1>1, PTL DEF Spec
-----------------------------------------------------------------------------
(* The reports.                                                            *)

(***************************************************************************)
(* The reports in the channel are numbered on from the last one received,  *)
(* so none is ever found missing, and none says more than was counted.     *)
(***************************************************************************)
ReportsInv ==
    /\ nalCount \in Nat
    /\ stats \in {"none", "tick", "done"}
    /\ seq \in 0 .. MaxReports + 1
    /\ lastSeq \in Nat /\ latencyCount = lastSeq
    /\ packetsLost = 0 /\ packetsReordered = 0
    /\ lastRecvStats \in Report \cup {NoReport}
    /\ lastRecvStats.seq = lastSeq /\ lastRecvStats.nals <= nalCount
    /\ reports \in Seq(Report)
    /\ \A i \in 1 .. Len(reports) : reports[i].seq = lastSeq + i /\ reports[i].nals <= nalCount
    /\ stats # "done" => seq = lastSeq + Len(reports) /\ seq <= MaxReports

SummaryInv ==
    /\ summary \in [stats : Report \cup {NoReport}, samples : Nat, lost : Nat, reordered : Nat]
    /\ summary.stats.nals <= nalCount
    /\ ReliableReports

reportVars == <<reports, recvStatVars, stats, seq, summary, nalCount>>

(* There are no reports at the beginning.                                  *)
LEMMA ReportsInit == Init => ReportsInv /\ SummaryInv
<1>1. << >> \in Seq(Report) /\ Len(<< >>) = 0
      BY EmptySeq
<1>2. NoReport.seq = 0 /\ NoReport.nals = 0
      BY DEF NoReport
<1>3. /\ NoSummary.stats = NoReport /\ NoSummary.samples = 0
      /\ NoSummary.lost = 0 /\ NoSummary.reordered = 0
      /\ NoSummary \in [stats : Report \cup {NoReport}, samples : Nat, lost : Nat, reordered : Nat]
      BY DEF NoSummary
<1>4. MaxReports \in Nat
      BY WebrtcAssumption
<1>5. Init => ReportsInv
      BY <1>1, <1>2, <1>4 DEF Init, LinkInit, SendInit, RecvInit, ReportsInv
<1>6. Init => SummaryInv
      BY <1>2, <1>3 DEF Init, SendInit, RecvInit, SummaryInv, ReliableReports
<1> QED BY <1>5, <1>6

(* A report is received: it is the next one.                               *)
LEMMA MessageKeeps ==
    ASSUME ReportsInv, SummaryInv, OnMessage, UNCHANGED recvVars
    PROVE  ReportsInv' /\ SummaryInv'
<1>1. /\ reports \in Seq(Report) /\ reports # << >>
      /\ reports' = Tail(reports) /\ lastRecvStats' = Head(reports)
      /\ UNCHANGED <<nalCount, stats, seq, summary>>
      BY DEF ReportsInv, OnMessage, ChannelFrame, recvVars
<1>2. /\ Len(reports) \in Nat \ {0} /\ Head(reports) = reports[1] /\ Head(reports) \in Report
      /\ Tail(reports) \in Seq(Report) /\ Len(Tail(reports)) = Len(reports) - 1
      /\ \A i \in 1 .. Len(Tail(reports)) : Tail(reports)[i] = reports[i + 1]
      BY <1>1, HeadTailProperties, EmptySeq, LenProperties
<1>3. reports[1].seq = lastSeq + 1 /\ reports[1].nals <= nalCount
      BY <1>2 DEF ReportsInv
<1>4. lastSeq' = lastSeq + 1 /\ latencyCount' = lastSeq + 1 /\ lastSeq \in Nat
      BY <1>2, <1>3 DEF OnMessage, CheckSeq, ReportsInv
<1>5. packetsLost' = 0 /\ packetsReordered' = 0
      BY <1>2, <1>3 DEF OnMessage, CheckSeq, ReportsInv
<1>6. ASSUME NEW i \in 1 .. Len(reports')
      PROVE  reports'[i].seq = lastSeq' + i /\ reports'[i].nals <= nalCount
  <2>1. i + 1 \in 1 .. Len(reports) /\ reports'[i] = reports[i + 1]
        BY <1>1, <1>2
  <2>2. reports[i + 1].seq = lastSeq + (i + 1) /\ reports[i + 1].nals <= nalCount
        BY <2>1 DEF ReportsInv
  <2> QED BY <1>4, <2>1, <2>2
<1>7. stats # "done" => seq = lastSeq' + Len(reports') /\ seq <= MaxReports
      BY <1>1, <1>2, <1>4 DEF ReportsInv
<1>8. ReportsInv'
      BY <1>1, <1>2, <1>3, <1>4, <1>5, <1>6, <1>7 DEF ReportsInv
<1> QED BY <1>1, <1>8 DEF SummaryInv, ReliableReports

(* A report is sent, or the channel is found closed.                       *)
LEMMA ReportKeeps ==
    ASSUME ReportsInv, SummaryInv, SendReport, UNCHANGED sendVars
    PROVE  ReportsInv' /\ SummaryInv'
<1>1. /\ stats = "tick" /\ seq' = seq + 1 /\ seq = lastSeq + Len(reports) /\ seq <= MaxReports
      /\ UNCHANGED <<nalCount, recvStatVars, summary>>
      BY DEF SendReport, TrackFrame, ReportsInv, sendVars, lastVars
<1>2. reports \in Seq(Report) /\ Len(reports) \in Nat /\ MaxReports \in Nat /\ lastSeq \in Nat
      BY LenProperties, WebrtcAssumption DEF ReportsInv
<1>3. SummaryInv'
      BY <1>1 DEF SummaryInv, ReliableReports
<1>4. CASE learned
      BY <1>1, <1>2, <1>3, <1>4 DEF SendReport, ReportsInv, recvStatVars
<1>5. CASE ~learned
  <2> DEFINE r == [seq |-> seq', nals |-> nalCount]
  <2>1. reports' = Append(reports, r) /\ stats' = stats /\ seq < MaxReports
        BY <1>5 DEF SendReport, PeerFrame
  <2>2. r \in Report /\ r.seq = seq' /\ r.nals = nalCount /\ nalCount \in Nat
        BY <1>1, <1>2, <2>1 DEF ReportsInv, Report
  <2> HIDE DEF r
  <2>3. /\ reports' \in Seq(Report) /\ Len(reports') = Len(reports) + 1
        /\ reports'[Len(reports) + 1] = r
        /\ \A i \in 1 .. Len(reports) : reports'[i] = reports[i]
        BY <1>2, <2>1, <2>2, AppendProperties
  <2>4. ASSUME NEW i \in 1 .. Len(reports')
        PROVE  reports'[i].seq = lastSeq + i /\ reports'[i].nals <= nalCount
    <3>1. i \in 1 .. Len(reports) \/ i = Len(reports) + 1
          BY <1>2, <2>3
    <3>2. CASE i \in 1 .. Len(reports)
          BY <2>3, <3>2 DEF ReportsInv
    <3>3. CASE i = Len(reports) + 1
          BY <1>1, <1>2, <2>2, <2>3, <3>3
    <3> QED BY <3>1, <3>2, <3>3
  <2> QED BY SMTT(40), <1>1, <1>2, <1>3, <2>1, <2>3, <2>4 DEF ReportsInv, recvStatVars
<1> QED BY <1>3, <1>4, <1>5

(* A report says no more than the receiver has counted, and is told as it  *)
(* is.                                                                     *)
LEMMA ReportsNext == ReportsInv /\ SummaryInv /\ [Next]_vars => ReportsInv' /\ SummaryInv'
<1> SUFFICES ASSUME ReportsInv, SummaryInv, [Next]_vars PROVE ReportsInv' /\ SummaryInv'
    OBVIOUS
<1>1. CASE UNCHANGED reportVars
      BY <1>1 DEF reportVars, recvStatVars, ReportsInv, SummaryInv, ReliableReports
<1>2. CASE UNCHANGED <<reports, recvStatVars, stats, seq, nalCount>> /\ summary' = Summary
  <2>1. ReportsInv'
        BY <1>2 DEF ReportsInv, recvStatVars
  <2>2. /\ summary'.stats = lastRecvStats /\ summary'.samples = latencyCount
        /\ summary'.lost = packetsLost /\ summary'.reordered = packetsReordered
        /\ summary' \in [stats : {lastRecvStats}, samples : {latencyCount},
                         lost : {packetsLost}, reordered : {packetsReordered}]
        BY <1>2 DEF Summary
  <2> QED BY <1>2, <2>1, <2>2 DEF SummaryInv, ReliableReports, ReportsInv
<1>3. CASE /\ UNCHANGED <<reports, recvStatVars, stats, seq, summary>>
           /\ nalCount' \in {nalCount, nalCount + 1}
  <2>1. nalCount' \in Nat /\ \A n \in Int : n <= nalCount => n <= nalCount'
        BY <1>3 DEF ReportsInv
  <2>2. /\ lastRecvStats.nals \in Int /\ summary.stats.nals \in Int
        /\ \A i \in 1 .. Len(reports) : reports[i].nals \in Int
    <3>1. \A i \in 1 .. Len(reports) : reports[i] \in Report
          BY ElementOfSeq DEF ReportsInv
    <3>2. summary.stats \in Report \cup {NoReport}
          BY DEF SummaryInv
    <3> QED BY <3>1, <3>2 DEF ReportsInv, Report, NoReport
  <2> QED BY <1>3, <2>1, <2>2 DEF ReportsInv, SummaryInv, ReliableReports, recvStatVars
<1>4. CASE Send /\ UNCHANGED recvVars
  <2>1. CASE Main /\ ~Finish
    <3>1. UNCHANGED <<reports, recvStatVars, summary>>
          BY <2>1 DEF Main, Offer, Register, WaitConnected, WaitTimeout, WaitDone, LookAtDone,
                      SendNAL, Count, StopReading, Exit, SetupFrame, MainFrame, lastVars
    <3> QED BY <1>1, <1>4, <3>1 DEF reportVars, recvVars
  <2>2. CASE Finish \/ PrintSummary
        BY <1>2, <1>4, <2>2 DEF Finish, PrintSummary, MainFrame, lastVars, linkVars, recvVars
  <2>3. CASE Callbacks /\ ~OnMessage
    <3>1. UNCHANGED <<reports, recvStatVars, summary>>
          BY <2>3 DEF Callbacks, ConnectionChanges, RunEndCall, RunConnectedCall, Signal, OnOpen,
                      OnClose, ChannelFrame, lastVars, linkVars
    <3> QED BY <1>1, <1>4, <3>1 DEF reportVars, recvVars
  <2> QED BY <1>4, <2>1, <2>2, <2>3, MessageKeeps DEF Send
<1>5. CASE Recv /\ UNCHANGED sendVars
  <2>1. UNCHANGED <<recvStatVars, summary>>
        BY <1>5 DEF sendVars, lastVars
  <2>2. CASE \E k \in flight : ReadRTP(k)
        BY <1>1, <2>1, <2>2 DEF ReadRTP, reportVars
  <2>3. CASE CountNAL \/ EndTrack
        BY <1>3, <2>1, <2>3 DEF CountNAL, EndTrack
  <2>4. CASE LearnEnd
        BY <1>1, <2>1, <2>4 DEF LearnEnd, reportVars
  <2>5. CASE StartReports
        BY <2>1, <2>5 DEF StartReports, TrackFrame, ReportsInv, SummaryInv, ReliableReports,
                          recvStatVars
  <2> QED BY <1>5, <2>2, <2>3, <2>4, <2>5, ReportKeeps DEF Recv
<1>6. CASE UNCHANGED vars
      BY <1>1, <1>6 DEF vars, linkVars, sendVars, lastVars, recvVars, reportVars
<1> QED BY <1>4, <1>5, <1>6 DEF Next

-----------------------------------------------------------------------------
(* NAL units sent, written and counted.                                    *)

(* A larger set has the sequences of a smaller one.                        *)
LEMMA SeqMonotone ==
    ASSUME NEW S, NEW T, S \subseteq T, NEW s \in Seq(S)
    PROVE  s \in Seq(T)
<1>1. Len(s) \in Nat /\ s \in [1 .. Len(s) -> S]
      BY LenProperties
<1>2. s \in [1 .. Len(s) -> T]
      BY <1>1
<1> QED BY <1>1, <1>2, FunctionIsSequence

(* main counts what it has sent before it does anything else.              *)
SenderInv ==
    /\ senderNALCount \in Nat
    /\ senderNALCount \in
           IF main = "count" THEN {nal - 1} ELSE IF main = "panic" THEN {nal - 1, nal} ELSE {nal}

(* The last packets of NAL units that are not on their way.                *)
Taken == {k \in 1 .. Len(sent) : sent[k].marker /\ k \notin flight}

(***************************************************************************)
(* A NAL unit that is written took the last packet of one that was sent,   *)
(* and the count follows the writing.                                      *)
(***************************************************************************)
OutputInv ==
    /\ track \in {"read", "count", "done"}
    /\ nalCount \in Nat
    /\ Len(output) = nalCount + IF track = "count" THEN 1 ELSE 0
    /\ Len(output) <= Cardinality(Taken)
    /\ nalBuffer = << >>

BuffersOK ==
    /\ got \in Seq(1 .. Len(sent))
    /\ fuaBuffer \in Seq(1 .. Len(sent))
    /\ output \in Seq(Seq(1 .. Len(sent)))

(* No more NAL units have been taken than were sent.                       *)
LEMMA TakenIsFinite ==
    ASSUME LinkInv
    PROVE  IsFiniteSet(Taken) /\ Cardinality(Taken) \in Nat /\ Cardinality(Taken) <= nal
<1>1. Len(sent) \in Nat /\ nal \in Nat
      BY LenProperties, InputType DEF LinkInv, SentInv
<1>2. IsFiniteSet(1 .. Len(sent))
      BY <1>1, FS_Interval
<1>3. Taken \subseteq 1 .. Len(sent)
      BY DEF Taken
<1>4. IsFiniteSet(Taken)
      BY <1>2, <1>3, FS_Subset
<1>5. IsFiniteSet(1 .. nal) /\ Cardinality(1 .. nal) = nal
      BY <1>1, FS_Interval
<1> DEFINE f == [k \in Taken |-> sent[k].nal]
<1>6. f \in [Taken -> 1 .. nal]
      BY <1>3 DEF LinkInv, SentInv
<1>7. ASSUME NEW j \in Taken, NEW k \in Taken, f[j] = f[k]
      PROVE  j = k
  <2>1. sent[j].nal = sent[k].nal /\ sent[j].marker /\ sent[k].marker
        BY <1>7 DEF Taken
  <2>2. /\ sent[j].payload = Input[sent[j].nal].payloads
        /\ sent[k].payload = Input[sent[k].nal].payloads
        BY <2>1, <1>3, <1>7 DEF LinkInv, SentInv
  <2> QED BY <2>1, <2>2, <1>3, <1>7 DEF LinkInv, SentInv
<1>8. f \in Injection(Taken, 1 .. nal)
      BY <1>6, <1>7 DEF Injection, IsInjective
<1>9. Cardinality(Taken) <= nal
      BY <1>4, <1>5, <1>8, FS_Injection
<1> QED BY <1>4, <1>9, FS_CardinalityType

(* A packet with the marker bit completes a NAL unit, another one nothing. *)
LEMMA ReadCases ==
    ASSUME LinkInv, BuffersOK, nalBuffer = << >>, NEW k \in flight, ReadRTP(k)
    PROVE  /\ nalBuffer' = << >>
           /\ got' = Append(got, k) /\ got' \in Seq(1 .. Len(sent))
           /\ fuaBuffer' = FuaBuffer(k) /\ fuaBuffer' \in Seq(1 .. Len(sent))
           /\ ~Fragmented(k) => sent[k].marker
           /\ sent[k].marker => /\ track' = "count"
                                /\ Unmarshal(k) \in Seq(1 .. Len(sent))
                                /\ output' = Append(output, Unmarshal(k))
           /\ ~sent[k].marker => UNCHANGED <<output, track>>
<1> DEFINE S == 1 .. Len(sent)
<1>1. k \in S
      BY DEF LinkInv
<1>2. Input[sent[k].nal].payloads \in Nat /\ sent[k].payload \in 1 .. Input[sent[k].nal].payloads
  <2>1. sent[k].nal \in 1 .. nal /\ nal \in 0 .. Len(Input)
        BY <1>1 DEF LinkInv, SentInv
  <2>2. sent[k].nal \in 1 .. Len(Input)
        BY <2>1, InputType
  <2> QED BY <1>1, <2>2, InputType DEF LinkInv, SentInv
<1>3. ~Fragmented(k) => sent[k].payload = Input[sent[k].nal].payloads
      BY <1>2 DEF Fragmented
<1>4. ~Fragmented(k) => sent[k].marker
      BY <1>1, <1>3 DEF LinkInv, SentInv
<1>5. got \in Seq(S) /\ fuaBuffer \in Seq(S)
      BY DEF BuffersOK
<1> HIDE DEF S
<1>6. Append(got, k) \in Seq(S) /\ Append(fuaBuffer, k) \in Seq(S) /\ Append(fuaBuffer, k) # << >>
      BY <1>1, <1>5, AppendProperties
<1>7. <<k>> \in Seq(S) /\ <<k>> # << >> /\ << >> \in Seq(S)
      BY <1>1
<1>8. Unmarshal(k) \in Seq(S) /\ FuaBuffer(k) \in Seq(S)
      BY <1>5, <1>6, <1>7 DEF Unmarshal, FuaBuffer
<1>9. nalBuffer \o Unmarshal(k) = Unmarshal(k)
      BY <1>8, ConcatEmptySeq
<1>10. sent[k].marker => Unmarshal(k) # << >>
       BY <1>6, <1>7 DEF Unmarshal
<1>11. ~sent[k].marker => Unmarshal(k) = << >>
       BY <1>4 DEF Unmarshal
<1>12. /\ got' = Append(got, k) /\ got' \in Seq(S)
       /\ fuaBuffer' = FuaBuffer(k) /\ fuaBuffer' \in Seq(S)
       BY <1>6, <1>8 DEF ReadRTP, Depacketize
<1>13. CASE sent[k].marker
  <2>1. output' = Append(output, Unmarshal(k)) /\ nalBuffer' = << >> /\ track' = "count"
        BY <1>9, <1>10, <1>13 DEF ReadRTP, Depacketize
  <2> QED BY <1>4, <1>8, <1>12, <1>13, <2>1 DEF S
<1>14. CASE ~sent[k].marker
  <2>1. nalBuffer' = << >> /\ UNCHANGED <<output, track>>
        BY <1>9, <1>11, <1>14 DEF ReadRTP, Depacketize
  <2> QED BY <1>4, <1>12, <1>14, <2>1 DEF S
<1> QED BY <1>13, <1>14

OutInv == OutputInv /\ BuffersOK

(* Nothing has been written at the beginning.                              *)
LEMMA OutInit == Init => OutInv
<1> SUFFICES ASSUME Init PROVE OutInv
    OBVIOUS
<1>1. /\ sent = << >> /\ flight = {} /\ got = << >> /\ fuaBuffer = << >> /\ output = << >>
      /\ nalBuffer = << >> /\ nalCount = 0 /\ track = "read"
      BY DEF Init, LinkInit, RecvInit
<1>2. Len(<< >>) = 0 /\ \A S : << >> \in Seq(S)
      BY EmptySeq
<1>3. Taken = {}
      BY <1>1, <1>2 DEF Taken
<1>4. Cardinality(Taken) = 0
      BY <1>3, FS_EmptySet
<1> QED BY <1>1, <1>2, <1>4 DEF OutInv, OutputInv, BuffersOK

(* A packet is read: the last one of a NAL unit is one more that is taken. *)
LEMMA ReadKeeps == ASSUME LinkInv, OutInv, NEW k \in flight, ReadRTP(k) PROVE OutInv'
<1> USE DEF OutInv
<1>1. /\ track = "read" /\ nalCount' = nalCount /\ sent' = sent /\ flight' = flight \ {k}
      BY DEF ReadRTP, PeerFrame
<1>2. /\ nalBuffer' = << >>
      /\ got' \in Seq(1 .. Len(sent)) /\ fuaBuffer' \in Seq(1 .. Len(sent))
      BY ReadCases DEF OutputInv
<1>3. /\ output \in Seq(Seq(1 .. Len(sent))) /\ Len(output) = nalCount /\ nalCount \in Nat
      /\ Len(output) <= Cardinality(Taken)
      BY <1>1 DEF OutputInv, BuffersOK
<1>4. IsFiniteSet(Taken) /\ Cardinality(Taken) \in Nat
      BY TakenIsFinite
<1>5. k \in 1 .. Len(sent) /\ k \notin Taken
      BY DEF LinkInv, Taken
<1>6. CASE sent[k].marker
  <2> DEFINE S == 1 .. Len(sent)
  <2>1. track' = "count" /\ Unmarshal(k) \in Seq(S) /\ output' = Append(output, Unmarshal(k))
        BY <1>6, ReadCases DEF OutputInv
  <2> HIDE DEF S
  <2>2. PICK data \in Seq(S) : output' = Append(output, data)
        BY <2>1
  <2>3. output \in Seq(Seq(S))
        BY <1>3 DEF S
  <2>4. output' \in Seq(Seq(S)) /\ Len(output') = Len(output) + 1
        BY <2>2, <2>3, AppendProperties
  <2>5. Taken' = Taken \cup {k}
        BY <1>1, <1>5, <1>6 DEF Taken
  <2>6. Cardinality(Taken') = Cardinality(Taken) + 1
        BY <1>4, <1>5, <2>5, FS_AddElement
  <2>7. OutputInv'
        BY <1>1, <1>2, <1>3, <1>4, <2>1, <2>4, <2>6 DEF OutputInv
  <2>8. BuffersOK'
        BY <1>1, <1>2, <2>4 DEF BuffersOK, S
  <2> QED BY <2>7, <2>8
<1>7. CASE ~sent[k].marker
  <2>1. UNCHANGED <<output, track>>
        BY <1>7, ReadCases DEF OutputInv
  <2>2. Taken' = Taken
        BY <1>1, <1>7 DEF Taken
  <2>3. OutputInv'
        BY <1>1, <1>2, <1>3, <2>1, <2>2 DEF OutputInv
  <2>4. BuffersOK'
        BY <1>1, <1>2, <2>1 DEF BuffersOK
  <2> QED BY <2>3, <2>4
<1> QED BY <1>6, <1>7

(* A NAL unit is sent: what was taken stays taken.                         *)
LEMMA SendKeeps == ASSUME LinkInv, OutInv, SendNAL, UNCHANGED recvVars PROVE OutInv'
<1> USE DEF OutInv
<1>1. UNCHANGED <<got, fuaBuffer, output, nalBuffer, nalCount, track>>
      BY DEF recvVars
<1>2. LinkInv'
      BY SendNALKeeps
<1>3. IsFiniteSet(Taken') /\ Cardinality(Taken') \in Nat
  <2>1. Len(sent') \in Nat
        BY <1>2, LenProperties DEF LinkInv, SentInv
  <2>2. IsFiniteSet(1 .. Len(sent'))
        BY <2>1, FS_Interval
  <2>3. Taken' \subseteq 1 .. Len(sent')
        BY DEF Taken
  <2> QED BY <2>2, <2>3, FS_Subset, FS_CardinalityType
<1>4. nal' \in 1 .. Len(Input)
      BY InputType DEF LinkInv, SentInv, SendNAL
<1>5. Input[nal'].payloads \in Nat
      BY <1>4, InputType
<1>6. sent \in Seq(Packet) /\ Len(sent) \in Nat
      BY LenProperties DEF LinkInv, SentInv
<1>7. Len(sent') >= Len(sent) /\ \A k \in 1 .. Len(sent) : sent'[k] = sent[k]
  <2>1. PICK p : /\ p = Input[nal'].payloads
                 /\ Len(sent') = Len(sent) + p
                 /\ \A k \in 1 .. Len(sent) + p :
                       sent'[k] = IF k <= Len(sent) THEN sent[k] ELSE Packets(nal')[k - Len(sent)]
        BY SentGrows, Zenon
  <2>2. p \in Nat
        BY <1>5, <2>1
  <2>3. ASSUME NEW k \in 1 .. Len(sent) PROVE sent'[k] = sent[k]
    <3>1. k \in 1 .. Len(sent) + p /\ k <= Len(sent)
          BY <1>6, <2>2
    <3> QED BY <2>1, <3>1
  <2> QED BY <1>6, <2>1, <2>2, <2>3
<1>8. 1 .. Len(sent) \subseteq 1 .. Len(sent') /\ Len(sent') \in Nat
      BY <1>2, <1>6, <1>7, LenProperties DEF LinkInv, SentInv
<1>9. \A k \in 1 .. Len(sent) : k \in flight' => k \in flight
      BY <1>6 DEF SendNAL
<1>10. Taken \subseteq Taken'
       BY <1>7, <1>8, <1>9 DEF Taken
<1>11. Cardinality(Taken) <= Cardinality(Taken')
       BY <1>3, <1>10, FS_Subset
<1>12. Cardinality(Taken) \in Nat /\ Len(output) \in Nat
       BY TakenIsFinite, LenProperties DEF BuffersOK
<1>13. OutputInv'
       BY <1>1, <1>3, <1>11, <1>12 DEF OutputInv
<1>14. BuffersOK'
  <2>1. got \in Seq(1 .. Len(sent')) /\ fuaBuffer \in Seq(1 .. Len(sent'))
        BY <1>8, SeqMonotone DEF BuffersOK
  <2>2. Seq(1 .. Len(sent)) \subseteq Seq(1 .. Len(sent'))
        BY <1>8, SeqMonotone
  <2>3. output \in Seq(Seq(1 .. Len(sent')))
        BY <2>2, SeqMonotone DEF BuffersOK
  <2> QED BY <1>1, <2>1, <2>3 DEF BuffersOK
<1> QED BY <1>13, <1>14

(* Every step keeps what is known of the output.                           *)
LEMMA OutNext == LinkInv /\ OutInv /\ [Next]_vars => OutInv'
<1> SUFFICES ASSUME LinkInv, OutInv, [Next]_vars PROVE OutInv'
    OBVIOUS
<1> USE DEF OutInv
<1>1. CASE UNCHANGED <<sent, flight, track, got, fuaBuffer, nalBuffer, output, nalCount>>
      BY <1>1 DEF OutputInv, BuffersOK, Taken
<1>2. CASE Send /\ UNCHANGED recvVars
  <2>1. CASE SendNAL
        BY <1>2, <2>1, SendKeeps
  <2>2. CASE ~SendNAL
    <3>1. UNCHANGED <<sent, flight>>
      <4>1. CASE Main
            BY <2>2, <4>1 DEF Main, Offer, Register, WaitConnected, WaitTimeout, WaitDone, LookAtDone,
                              Count, StopReading, Finish, Exit, SetupFrame
      <4>2. CASE Callbacks
            BY <4>2 DEF Callbacks, ConnectionChanges, RunEndCall, RunConnectedCall, Signal,
                        OnOpen, OnMessage, OnClose, ChannelFrame, linkVars
      <4>3. CASE PrintSummary
            BY <4>3 DEF PrintSummary, linkVars
      <4> QED BY <1>2, <4>1, <4>2, <4>3 DEF Send
    <3> QED BY <1>1, <1>2, <3>1 DEF recvVars
  <2> QED BY <2>1, <2>2
<1>3. CASE \E k \in flight : ReadRTP(k)
      BY <1>3, ReadKeeps
<1>4. CASE CountNAL
  <2>1. UNCHANGED <<sent, flight, got, fuaBuffer, nalBuffer, output>>
        BY <1>4 DEF CountNAL, PeerFrame
  <2>2. Taken' = Taken /\ BuffersOK'
        BY <2>1 DEF Taken, BuffersOK
  <2> QED BY <1>4, <2>1, <2>2 DEF CountNAL, OutputInv
<1>5. CASE EndTrack
  <2>1. UNCHANGED <<sent, flight, got, fuaBuffer, nalBuffer, output, nalCount>>
        BY <1>5 DEF EndTrack, PeerFrame, OutputInv
  <2>2. Taken' = Taken /\ BuffersOK'
        BY <2>1 DEF Taken, BuffersOK
  <2> QED BY <1>5, <2>1, <2>2 DEF EndTrack, OutputInv
<1>6. CASE LearnEnd \/ StartReports \/ SendReport
      BY <1>1, <1>6 DEF LearnEnd, StartReports, SendReport, TrackFrame, PeerFrame
<1>7. CASE UNCHANGED vars
      BY <1>1, <1>7 DEF vars, linkVars, recvVars
<1> QED BY <1>2, <1>3, <1>4, <1>5, <1>6, <1>7 DEF Next, Recv

-----------------------------------------------------------------------------
(* What main counts.                                                       *)

(* Every step keeps the counters of the sender.                            *)
LEMMA SenderNext == LinkInv /\ SenderInv /\ [Next]_vars => SenderInv'
<1> SUFFICES ASSUME LinkInv, SenderInv, [Next]_vars PROVE SenderInv'
    OBVIOUS
<1>1. nal \in Nat
      BY InputType DEF LinkInv, SentInv
<1>2. CASE /\ UNCHANGED <<nal, senderNALCount>>
           /\ main' \in {main, "panic"} \/ (main # "count" /\ main # "panic" /\ main' # "count")
      BY <1>1, <1>2 DEF SenderInv
<1>3. CASE SendNAL
      BY <1>1, <1>3 DEF SendNAL, SenderInv
<1>4. CASE Count
      BY <1>1, <1>4 DEF Count, SenderInv
<1>5. CASE Main /\ ~SendNAL /\ ~Count
      BY <1>2, <1>5 DEF Main, Offer, Register, WaitConnected, WaitTimeout, WaitDone, LookAtDone,
                        StopReading, Finish, Exit, SetupFrame
<1>6. CASE Callbacks
      BY <1>2, <1>6 DEF Callbacks, ConnectionChanges, RunEndCall, RunConnectedCall, Signal, CloseDone,
                        CloseConnectedCh, OnOpen, OnMessage, OnClose, ChannelFrame, mainVars
<1>7. CASE PrintSummary \/ UNCHANGED sendVars
      BY <1>2, <1>7 DEF PrintSummary, sendVars, mainVars
<1> QED BY <1>3, <1>4, <1>5, <1>6, <1>7 DEF Next, Send, vars

-----------------------------------------------------------------------------
(***************************************************************************)
(* The headers: the number of a packet is its place, a marker bit ends a   *)
(* NAL unit, and the clock has moved on once the frame that was sent last  *)
(* is counted.  NAL units since then made no packet, so they are no frames *)
(* and have not moved it.                                                  *)
(***************************************************************************)
Numbered ==
    /\ seqNum = Len(sent) % SeqNums
    /\ \A k \in 1 .. Len(sent) : sent[k].seq = (k - 1) % SeqNums

NeighboursTell ==
    \A k \in 1 .. Len(sent) : k + 1 <= Len(sent) =>
        /\ sent[k].marker <=> sent[k].nal # sent[k + 1].nal
        /\ sent[k].ts # sent[k + 1].ts <=> sent[k].marker /\ AdvancesClock(Input[sent[k].nal])

ClockTells ==
    \A last \in 1 .. Len(sent) : last = Len(sent) =>
        /\ sent[last].marker
        /\ \A n \in 1 .. nal : n > sent[last].nal => Input[n].payloads = 0
        /\ timestamp = IF AdvancesClock(Input[sent[last].nal]) /\ sent[last].nal <= senderNALCount
                       THEN (sent[last].ts + Ticks) % Timestamps ELSE sent[last].ts

HeadersInv == Numbered /\ NeighboursTell /\ ClockTells

(* Ticks move the clock to another timestamp, also where it wraps around.  *)
LEMMA ClockMoves ==
    ASSUME NEW t \in 0 .. Timestamps - 1
    PROVE  (t + Ticks) % Timestamps # t
<1>1. Timestamps \in Nat \ {0} /\ Ticks \in 1 .. Timestamps - 1
      BY WebrtcAssumption
<1>2. t = Timestamps * 0 + t /\ 0 \in Int /\ t \in Int
      BY <1>1
<1>3. t % Timestamps = t
      BY <1>1, <1>2, RemainderIsUnique
<1>4. (t + Ticks) % Timestamps # t % Timestamps
      BY <1>1, <1>2, ModIsInjective
<1> QED BY <1>3, <1>4

(* The packets SendNAL leaves alone, and those it appends.                 *)
LEMMA SentPackets ==
    ASSUME LinkInv, SendNAL
    PROVE  /\ nal \in Nat /\ nal' = nal + 1 /\ nal' \in 1 .. Len(Input)
           /\ Len(sent) \in Nat /\ Input[nal'].payloads \in Nat
           /\ Len(sent') = Len(sent) + Input[nal'].payloads
           /\ \A k \in 1 .. Len(sent) : k \in 1 .. Len(sent') /\ sent'[k] = sent[k]
           /\ \A k \in 1 .. Len(sent') : k > Len(sent) =>
                 /\ k - Len(sent) \in 1 .. Input[nal'].payloads
                 /\ sent'[k].nal = nal' /\ sent'[k].payload = k - Len(sent)
                 /\ sent'[k].marker <=> k - Len(sent) = Input[nal'].payloads
                 /\ sent'[k].seq = (seqNum + (k - Len(sent)) - 1) % SeqNums
                 /\ sent'[k].ts = timestamp
<1> DEFINE p == Input[nal'].payloads
<1>1. nal \in Nat /\ nal' = nal + 1 /\ nal' \in 1 .. Len(Input) /\ p \in Nat
      BY InputType DEF LinkInv, SentInv, SendNAL
<1>2. Len(sent) \in Nat
      BY LenProperties DEF LinkInv, SentInv
<1>3. /\ Len(sent') = Len(sent) + p
      /\ \A k \in 1 .. Len(sent) + p :
            sent'[k] = IF k <= Len(sent) THEN sent[k] ELSE Packets(nal')[k - Len(sent)]
      BY SentGrows
<1>4. ASSUME NEW k \in 1 .. Len(sent) PROVE k \in 1 .. Len(sent') /\ sent'[k] = sent[k]
      BY <1>1, <1>2, <1>3
<1>5. ASSUME NEW k \in 1 .. Len(sent'), k > Len(sent)
      PROVE  /\ k - Len(sent) \in 1 .. p
             /\ sent'[k].nal = nal' /\ sent'[k].payload = k - Len(sent)
             /\ sent'[k].marker <=> k - Len(sent) = p
             /\ sent'[k].seq = (seqNum + (k - Len(sent)) - 1) % SeqNums
             /\ sent'[k].ts = timestamp
  <2> DEFINE i == k - Len(sent)
             number == (seqNum + i - 1) % SeqNums
  <2>1. i \in 1 .. p
        BY <1>1, <1>2, <1>3, <1>5
  <2>2. sent'[k] = Packets(nal')[i]
        BY <1>1, <1>2, <1>3, <1>5
  <2>3. Packets(nal')[i] = [nal |-> nal', payload |-> i, marker |-> i = p,
                            seq |-> number, ts |-> timestamp]
        BY <2>1, Zenon DEF Packets
  <2> HIDE DEF number
  <2>4. /\ sent'[k].nal = nal' /\ sent'[k].payload = i
        /\ sent'[k].seq = number /\ sent'[k].ts = timestamp
        BY <2>2, <2>3
  <2>5. sent'[k].marker = (i = p)
        BY <2>2, <2>3
  <2> QED BY <2>1, <2>4, <2>5 DEF number
<1> QED BY <1>1, <1>2, <1>3, <1>4, <1>5

(* Nothing has been sent at the beginning.                                 *)
LEMMA HeadersInit == Init => HeadersInv
<1>1. Len(<< >>) = 0 /\ SeqNums \in Nat \ {0}
      BY EmptySeq, WebrtcAssumption
<1>2. 0 = SeqNums * 0 + 0 /\ 0 \in 0 .. SeqNums - 1 /\ 0 \in Int
      BY <1>1
<1>3. 0 % SeqNums = 0
      BY <1>1, <1>2, RemainderIsUnique
<1> QED BY <1>1, <1>3 DEF Init, LinkInit, HeadersInv, Numbered, NeighboursTell, ClockTells

(* SendNAL numbers on.                                                     *)
LEMMA SendNALNumbers == ASSUME LinkInv, SendNAL, Numbered PROVE Numbered'
<1> DEFINE L == Len(sent)
           p == Input[nal'].payloads
<1>1. L \in Nat /\ p \in Nat /\ Len(sent') = L + p /\ SeqNums \in Nat \ {0} /\ seqNum = L % SeqNums
      BY SentPackets, WebrtcAssumption DEF Numbered
<1>2. seqNum' = (seqNum + p) % SeqNums
      BY DEF SendNAL, Packetize
<1>3. seqNum' = Len(sent') % SeqNums
  <2>1. L \in Int /\ p \in Int
        BY <1>1
  <2>2. ((L % SeqNums) + p) % SeqNums = (L + p) % SeqNums
        BY <1>1, <2>1, ModAdd, Zenon
  <2> QED BY <1>1, <1>2, <2>2, Zenon
<1>4. ASSUME NEW k \in 1 .. Len(sent') PROVE sent'[k].seq = (k - 1) % SeqNums
  <2>1. CASE k \in 1 .. L
    <3>1. sent'[k] = sent[k]
          BY <2>1, SentPackets
    <3> QED BY <2>1, <3>1 DEF Numbered
  <2>2. CASE k > L
    <3>1. sent'[k].seq = (seqNum + (k - L) - 1) % SeqNums
          BY <2>2, SentPackets, Zenon
    <3> DEFINE b == k - L - 1
    <3>2. /\ b \in Int /\ L \in Int /\ seqNum \in Int
          /\ seqNum + (k - L) - 1 = seqNum + b /\ L + b = k - 1
          BY <1>1 DEF LinkInv
    <3> HIDE DEF b
    <3>3. ((L % SeqNums) + b) % SeqNums = (L + b) % SeqNums
          BY <1>1, <3>2, ModAdd, Zenon
    <3> QED BY <1>1, <3>1, <3>2, <3>3, Zenon
  <2> QED BY <1>1, <2>1, <2>2
<1> QED BY <1>3, <1>4 DEF Numbered

(* SendNAL begins where the packet before ended a NAL unit.                *)
LEMMA SendNALTells ==
    ASSUME LinkInv, SenderInv, SendNAL, NeighboursTell, ClockTells
    PROVE  NeighboursTell' /\ ClockTells'
<1> DEFINE L == Len(sent)
           p == Input[nal'].payloads
<1>1. /\ L \in Nat /\ p \in Nat /\ Len(sent') = L + p
      /\ nal \in Nat /\ nal' = nal + 1 /\ senderNALCount = nal
      BY SentPackets DEF SendNAL, SenderInv
<1>2. timestamp' = timestamp /\ senderNALCount' = senderNALCount
      BY DEF SendNAL
<1>3. ASSUME NEW k \in 1 .. L PROVE sent'[k] = sent[k] /\ sent[k].nal \in 1 .. nal
      BY SentPackets DEF LinkInv, SentInv
<1>4. ASSUME NEW k \in 1 .. Len(sent'), k > L
      PROVE  /\ k - L \in 1 .. p
             /\ sent'[k].nal = nal' /\ sent'[k].ts = timestamp
             /\ sent'[k].marker <=> k - L = p
      BY <1>4, SentPackets, Zenon
<1>5. ASSUME NEW k \in 1 .. Len(sent'), k + 1 <= Len(sent')
      PROVE  /\ sent'[k].marker <=> sent'[k].nal # sent'[k + 1].nal
             /\ sent'[k].ts # sent'[k + 1].ts
                   <=> sent'[k].marker /\ AdvancesClock(Input[sent'[k].nal])
  <2>1. k \in Nat /\ k + 1 \in 1 .. Len(sent')
        BY <1>1, <1>5
  <2>2. CASE k + 1 <= L
    <3>1. k \in 1 .. L /\ k + 1 \in 1 .. L
          BY <1>1, <2>1, <2>2
    <3>2. sent'[k] = sent[k] /\ sent'[k + 1] = sent[k + 1]
          BY <1>3, <3>1
    <3> QED BY <2>2, <3>1, <3>2 DEF NeighboursTell
  <2>3. CASE k = L
    <3>1. k \in 1 .. L /\ sent'[k] = sent[k] /\ sent[k].nal \in 1 .. nal
          BY <1>1, <1>3, <2>3
    <3>2. sent'[k + 1].nal = nal' /\ sent'[k + 1].ts = timestamp
          BY <1>1, <1>4, <2>1, <2>3
    <3>3. sent[k].marker /\ timestamp = IF AdvancesClock(Input[sent[k].nal]) /\ sent[k].nal <= senderNALCount
                                        THEN (sent[k].ts + Ticks) % Timestamps ELSE sent[k].ts
          BY <2>3, <3>1 DEF ClockTells
    <3>4. sent[k].nal <= senderNALCount /\ sent[k].nal # nal'
          BY <1>1, <3>1
    <3>5. sent[k].ts \in 0 .. Timestamps - 1
      <4>1. sent[k] \in Packet
            BY <3>1, ElementOfSeq DEF LinkInv, SentInv
      <4> QED BY <4>1 DEF Packet
    <3>6. (sent[k].ts + Ticks) % Timestamps # sent[k].ts
          BY <3>5, ClockMoves
    <3> QED BY <3>1, <3>2, <3>3, <3>4, <3>6
  <2>4. CASE k > L
    <3>1. k + 1 > L /\ k - L # p
          BY <1>1, <1>5, <2>1, <2>4
    <3>2. ~sent'[k].marker /\ sent'[k].nal = nal' /\ sent'[k].ts = timestamp
          BY <1>4, <2>4, <3>1
    <3>3. sent'[k + 1].nal = nal' /\ sent'[k + 1].ts = timestamp
          BY <1>4, <2>1, <3>1
    <3> QED BY <3>2, <3>3
  <2> QED BY <1>1, <2>1, <2>2, <2>3, <2>4
<1>6. ASSUME NEW last \in 1 .. Len(sent'), last = Len(sent')
      PROVE  /\ sent'[last].marker
             /\ \A n \in 1 .. nal' : n > sent'[last].nal => Input[n].payloads = 0
             /\ timestamp = IF AdvancesClock(Input[sent'[last].nal])
                               /\ sent'[last].nal <= senderNALCount
                            THEN (sent'[last].ts + Ticks) % Timestamps ELSE sent'[last].ts
  <2>1. CASE p = 0
    <3>1. last \in 1 .. L /\ last = L /\ sent'[last] = sent[last]
          BY <1>1, <1>3, <1>6, <2>1
    <3>2. \A n \in 1 .. nal' : n \in 1 .. nal \/ n = nal'
          BY <1>1
    <3> QED BY <2>1, <3>1, <3>2 DEF ClockTells
  <2>2. CASE p > 0
    <3>1. last > L /\ last - L = p
          BY <1>1, <1>6, <2>2
    <3>2. sent'[last].marker /\ sent'[last].nal = nal' /\ sent'[last].ts = timestamp
          BY <1>4, <3>1
    <3>3. ~(nal' <= senderNALCount) /\ \A n \in 1 .. nal' : ~(n > nal')
          BY <1>1
    <3> QED BY <3>2, <3>3
  <2> QED BY <1>1, <2>1, <2>2
<1> QED BY <1>2, <1>5, <1>6 DEF NeighboursTell, ClockTells

(* Count moves the clock after a frame: the NAL unit that was sent last if *)
(* it made packets, and if it made none it is no frame.                    *)
LEMMA CountTells == ASSUME LinkInv, SenderInv, Count, ClockTells PROVE ClockTells'
<1>1. /\ sent' = sent /\ nal' = nal /\ senderNALCount' = nal /\ senderNALCount = nal - 1
      /\ timestamp' = IF AdvancesClock(Input[nal]) THEN (timestamp + Ticks) % Timestamps ELSE timestamp
      BY InputType DEF Count, SenderInv, NextTimestamp, LinkInv, SentInv
<1>2. nal \in 1 .. Len(Input)
      BY <1>1, InputType DEF SenderInv, LinkInv, SentInv
<1> SUFFICES ASSUME NEW last \in 1 .. Len(sent), last = Len(sent)
             PROVE  timestamp' = IF AdvancesClock(Input[sent[last].nal]) /\ sent[last].nal <= nal
                                 THEN (sent[last].ts + Ticks) % Timestamps ELSE sent[last].ts
    BY <1>1 DEF ClockTells
<1>3. /\ \A n \in 1 .. nal : n > sent[last].nal => Input[n].payloads = 0
      /\ timestamp = IF AdvancesClock(Input[sent[last].nal]) /\ sent[last].nal <= senderNALCount
                     THEN (sent[last].ts + Ticks) % Timestamps ELSE sent[last].ts
      BY DEF ClockTells
<1>4. sent[last].nal \in 1 .. nal
      BY DEF LinkInv, SentInv
<1>5. CASE sent[last].nal = nal
      BY <1>1, <1>2, <1>3, <1>5
<1>6. CASE sent[last].nal < nal
  <2>1. Input[nal].payloads = 0
        BY <1>2, <1>3, <1>6
  <2>2. Input[nal].type = "aud"
        BY <1>2, <2>1, WebrtcAssumption
  <2>3. ~AdvancesClock(Input[nal])
        BY <2>2 DEF AdvancesClock, IsKeyframe
  <2>4. sent[last].nal <= senderNALCount /\ sent[last].nal <= nal
        BY <1>1, <1>2, <1>4, <1>6
  <2> QED BY <1>1, <1>3, <2>3, <2>4
<1> QED BY <1>2, <1>4, <1>5, <1>6

(* Every step keeps what the headers tell.                                 *)
LEMMA HeadersNext == LinkInv /\ SenderInv /\ HeadersInv /\ [Next]_vars => HeadersInv'
<1> SUFFICES ASSUME LinkInv, SenderInv, HeadersInv, [Next]_vars PROVE HeadersInv'
    OBVIOUS
<1> USE DEF HeadersInv
<1>1. CASE NothingSent
      BY <1>1 DEF NothingSent, Numbered, NeighboursTell, ClockTells
<1>2. CASE SendNAL
      BY <1>2, SendNALNumbers, SendNALTells
<1>3. CASE Count
  <2>1. Numbered' /\ NeighboursTell'
        BY <1>3 DEF Count, Numbered, NeighboursTell
  <2> QED BY <1>3, <2>1, CountTells
<1> QED BY <1>1, <1>2, <1>3, SendingCases

(* The number of a packet is its place, so packets that are less than a    *)
(* round apart have different numbers.                                     *)
LEMMA HeadersInvTells == LinkInv /\ HeadersInv => HeadersTell
<1> SUFFICES ASSUME LinkInv, HeadersInv,
                    NEW j \in 1 .. Len(sent), NEW k \in 1 .. Len(sent), j < k, k - j <= SeqNums
             PROVE  /\ sent[k].seq = (sent[j].seq + 1) % SeqNums <=> k = j + 1
                    /\ k = j + 1 =>
                          /\ sent[j].marker <=> sent[j].nal # sent[k].nal
                          /\ sent[j].ts # sent[k].ts
                                <=> sent[j].marker /\ AdvancesClock(Input[sent[j].nal])
    BY DEF HeadersTell
<1>1. /\ SeqNums \in Nat \ {0} /\ j \in Int /\ j - 1 \in Int /\ k \in Int
      /\ 1 \in Int /\ (j - 1) + 1 = j
      BY WebrtcAssumption
<1>2. sent[j].seq = (j - 1) % SeqNums /\ sent[k].seq = (k - 1) % SeqNums
      BY DEF HeadersInv, Numbered
<1>3. (((j - 1) % SeqNums) + 1) % SeqNums = ((j - 1) + 1) % SeqNums
      BY <1>1, ModAdd, Zenon
<1>4. (sent[j].seq + 1) % SeqNums = j % SeqNums
      BY <1>1, <1>2, <1>3, Zenon
<1>5. ASSUME k # j + 1 PROVE (k - 1) % SeqNums # j % SeqNums
  <2> DEFINE d == k - 1 - j
  <2>1. d \in 1 .. SeqNums - 1 /\ j + d = k - 1
        BY <1>1, <1>5
  <2> HIDE DEF d
  <2> QED BY <1>1, <2>1, ModIsInjective
<1>6. sent[k].seq = (sent[j].seq + 1) % SeqNums <=> k = j + 1
  <2>1. CASE k = j + 1
    <3>1. k - 1 = j
          BY <1>1, <2>1
    <3> QED BY <1>2, <1>4, <2>1, <3>1
  <2>2. CASE k # j + 1
        BY <1>2, <1>4, <1>5, <2>2
  <2> QED BY <2>1, <2>2
<1>7. ASSUME k = j + 1
      PROVE  /\ sent[j].marker <=> sent[j].nal # sent[k].nal
             /\ sent[j].ts # sent[k].ts
                   <=> sent[j].marker /\ AdvancesClock(Input[sent[j].nal])
  <2>1. j + 1 <= Len(sent)
        BY <1>1, <1>7, LenProperties DEF LinkInv, SentInv
  <2> QED BY <1>7, <2>1 DEF HeadersInv, NeighboursTell
<1> QED BY <1>6, <1>7

-----------------------------------------------------------------------------
(***************************************************************************)
(* What arrives.  The packets of a NAL unit are next to each other in      *)
(* sent, so packets that are read together and in order from its first one *)
(* on are its packets; while there are some to come, the depacketizer      *)
(* holds those that came, provided that it held nothing before.            *)
(***************************************************************************)
Together ==
    \A k \in 1 .. Len(sent) : sent[k].payload = 1 =>
        \A i \in 0 .. Input[sent[k].nal].payloads - 1 :
            k + i \in 1 .. Len(sent) /\ sent[k + i].nal = sent[k].nal /\ sent[k + i].payload = i + 1

(* m packets from first on, and that they are got from the i-th on.        *)
From(first, m) == [j \in 1 .. m |-> first + j - 1]
InOrder(i, m) == i + m - 1 <= Len(got) /\ \A j \in 1 .. m : got[i + j - 1] = got[i] + j - 1

(* The i-th packet got begins a NAL unit, and nothing was left over.       *)
Begins(i) == sent[got[i]].payload = 1 /\ Clean(i - 1)

HeldInv ==
    \A i \in 1 .. Len(got), m \in Nat :
        Begins(i) /\ InOrder(i, m) /\ i + m = Len(got) + 1 /\ m < Input[sent[got[i]].nal].payloads
            => fuaBuffer = From(got[i], m)

WrittenInv ==
    \A i \in 1 .. Len(got), m \in Nat :
        Begins(i) /\ InOrder(i, m) /\ m = Input[sent[got[i]].nal].payloads
            => \E o \in 1 .. Len(output) : output[o] = From(got[i], m)

(* What is held comes from a fragment that no end of a NAL unit followed.  *)
LeftOverInv ==
    fuaBuffer # << >> =>
        \E j \in 1 .. Len(got) :
            /\ Fragmented(got[j]) /\ ~sent[got[j]].marker
            /\ \A m \in j + 1 .. Len(got) : ~Fragmented(got[m])

(* A packet is on its way, held, or written once.                          *)
OnceInv ==
    /\ ToSet(fuaBuffer) \cap flight = {}
    /\ \A o \in 1 .. Len(output) : ToSet(output[o]) \cap (flight \cup ToSet(fuaBuffer)) = {}
    /\ \A o, p \in 1 .. Len(output) : o # p => ToSet(output[o]) \cap ToSet(output[p]) = {}

DamageInv == Together /\ HeldInv /\ WrittenInv /\ LeftOverInv /\ OnceInv

(* The packets of a sequence, of one that grew, and of the shortest ones.  *)
LEMMA ToSetOfSeq ==
    ASSUME NEW S, NEW s \in Seq(S), NEW x \in S
    PROVE  /\ ToSet(s) = {s[i] : i \in 1 .. Len(s)} /\ ToSet(s) \subseteq S
           /\ ToSet(Append(s, x)) = ToSet(s) \cup {x}
           /\ ToSet(<<x>>) = {x} /\ ToSet(<< >>) = {}
<1>1. DOMAIN s = 1 .. Len(s) /\ Len(s) \in Nat /\ \A i \in 1 .. Len(s) : s[i] \in S
      BY LenProperties, ElementOfSeq
<1>2. ToSet(s) = {s[i] : i \in 1 .. Len(s)} /\ ToSet(s) \subseteq S
      BY <1>1 DEF ToSet
<1> DEFINE t == Append(s, x)
<1>3. /\ t \in Seq(S) /\ Len(t) = Len(s) + 1
      /\ \A i \in 1 .. Len(s) : t[i] = s[i]
      /\ t[Len(s) + 1] = x
      BY AppendProperties
<1>4. DOMAIN t = 1 .. Len(s) + 1
      BY <1>3, LenProperties
<1> HIDE DEF t
<1>5. \A i \in 1 .. Len(s) + 1 : i \in 1 .. Len(s) \/ i = Len(s) + 1
      BY <1>1
<1>6. 1 .. Len(s) \subseteq 1 .. Len(s) + 1 /\ Len(s) + 1 \in 1 .. Len(s) + 1
      BY <1>1
<1>7. ToSet(t) \subseteq ToSet(s) \cup {x}
      BY <1>2, <1>3, <1>4, <1>5 DEF ToSet
<1>8. ToSet(s) \cup {x} \subseteq ToSet(t)
      BY <1>2, <1>3, <1>4, <1>6 DEF ToSet
<1>9. ToSet(<<x>>) = {x} /\ ToSet(<< >>) = {}
      BY DEF ToSet
<1> QED BY <1>2, <1>7, <1>8, <1>9 DEF t

(* Packets in a row: none, one, and one more.                              *)
LEMMA FromGrows ==
    ASSUME NEW S \in SUBSET Nat, NEW first \in S
    PROVE  /\ From(first, 0) = << >> /\ From(first, 1) = <<first>>
           /\ \A m \in Nat :
                 From(first, m) \in Seq(S) /\ first + m \in S
                    => Append(From(first, m), first + m) = From(first, m + 1)
<1>1. From(first, 1) = <<first>>
  <2>1. From(first, 1) = [j \in 1 .. 1 |-> first]
        BY DEF From
  <2> QED BY <2>1
<1>2. ASSUME NEW m \in Nat, From(first, m) \in Seq(S), first + m \in S
      PROVE  Append(From(first, m), first + m) = From(first, m + 1)
  <2> DEFINE s == From(first, m)
             t == Append(s, first + m)
             u == From(first, m + 1)
  <2>1. DOMAIN s = 1 .. m /\ DOMAIN u = 1 .. m + 1
        BY DEF From
  <2>2. Len(s) = m
        BY <1>2, <2>1, LenProperties
  <2>3. /\ t \in Seq(S) /\ Len(t) = m + 1 /\ t[m + 1] = first + m
        /\ \A i \in 1 .. m : t[i] = s[i]
        BY <1>2, <2>2, AppendProperties
  <2>4. ASSUME NEW i \in 1 .. m + 1 PROVE u[i] = first + i - 1 /\ t[i] = u[i]
    <3>1. u[i] = first + i - 1
          BY DEF From
    <3>2. CASE i \in 1 .. m
      <4>1. s[i] = first + i - 1
            BY <3>2 DEF From
      <4> QED BY <2>3, <3>1, <3>2, <4>1
    <3>3. CASE i = m + 1
      <4>1. first \in Int /\ m \in Int
            OBVIOUS
      <4>2. first + (m + 1) - 1 = first + m
            BY <4>1
      <4> HIDE DEF s, t, u
      <4>3. u[i] = first + m
            BY <3>1, <3>3, <4>2
      <4>4. t[i] = first + m
            BY <2>3, <3>3
      <4> QED BY <3>1, <4>3, <4>4
    <3>4. i \in 1 .. m \/ i = m + 1
          OBVIOUS
    <3> HIDE DEF s, t, u
    <3> QED BY <3>1, <3>2, <3>3, <3>4, Zenon
  <2>5. DOMAIN t = 1 .. m + 1 /\ t \in [1 .. m + 1 -> S]
        BY <2>3, LenProperties
  <2>6. u \in [1 .. m + 1 -> S]
    <3>1. \A i \in 1 .. m + 1 : t[i] \in S
          BY <2>5
    <3>2. u = [i \in 1 .. m + 1 |-> first + i - 1]
          BY DEF From
    <3> HIDE DEF t, u
    <3> QED BY <2>4, <3>1, <3>2
  <2> HIDE DEF s, t, u
  <2>7. t = u
        BY <2>4, <2>5, <2>6
  <2> QED BY <2>7 DEF t, s, u
<1>3. From(first, 0) = << >>
  <2>1. From(first, 0) = [j \in 1 .. 0 |-> first] /\ 1 .. 0 = {}
        BY DEF From
  <2> QED BY <2>1
<1> QED BY <1>1, <1>2, <1>3

(* A step that changes neither what was read nor what was written.         *)
NothingRead == UNCHANGED <<sent, got, fuaBuffer, output>> /\ flight' \subseteq flight

(* The steps by what they read and write: nothing, a packet, or a NAL unit *)
(* sent.                                                                   *)
LEMMA ReadingCases ==
    OutputInv /\ [Next]_vars =>
        NothingRead \/ (SendNAL /\ UNCHANGED recvVars) \/ \E k \in flight : ReadRTP(k)
<1> SUFFICES ASSUME OutputInv, [Next]_vars
             PROVE  NothingRead \/ (SendNAL /\ UNCHANGED recvVars) \/ \E k \in flight : ReadRTP(k)
    OBVIOUS
<1>1. CASE UNCHANGED recvVars
  <2>1. CASE NothingSent
        BY <1>1, <2>1 DEF NothingSent, NothingRead, recvVars
  <2>2. CASE Count
        BY <1>1, <2>2 DEF Count, NothingRead, recvVars
  <2> QED BY <1>1, <2>1, <2>2, SendingCases
<1>2. CASE Recv
      BY <1>2 DEF Recv, CountNAL, LearnEnd, EndTrack, StartReports, SendReport, TrackFrame, PeerFrame,
                  OutputInv, NothingRead
<1> QED BY <1>1, <1>2 DEF Next, vars

(* What a step keeps of what was sent and of what was read.                *)
PastKept ==
    /\ \A j \in 1 .. Len(got) : j \in 1 .. Len(got') /\ got'[j] = got[j]
    /\ \A k \in 1 .. Len(sent) : sent'[k] = sent[k]

(* SendNAL only adds to sent, ReadRTP only adds to got.                    *)
LEMMA PastIsKept ==
    ASSUME LinkInv, OutInv, (SendNAL /\ UNCHANGED recvVars) \/ \E k \in flight : ReadRTP(k)
    PROVE  PastKept
<1>1. CASE SendNAL /\ UNCHANGED recvVars
      BY <1>1, SentPackets DEF PastKept, recvVars
<1>2. ASSUME NEW k \in flight, ReadRTP(k) PROVE PastKept
  <2> DEFINE S == 1 .. Len(sent)
  <2>1. k \in S /\ got \in Seq(S) /\ got' = Append(got, k) /\ sent' = sent
        BY <1>2 DEF LinkInv, OutInv, BuffersOK, ReadRTP, PeerFrame
  <2> HIDE DEF S
  <2>2. /\ Len(got') = Len(got) + 1 /\ Len(got) \in Nat
        /\ \A j \in 1 .. Len(got) : got'[j] = got[j]
        BY <2>1, AppendProperties, LenProperties
  <2> QED BY <2>1, <2>2 DEF PastKept
<1> QED BY <1>1, <1>2

(* What is left over of the packets read stays what it is.                 *)
LEMMA CleanIsKept ==
    ASSUME LinkInv, OutInv, PastKept, NEW i \in 1 .. Len(got) + 1
    PROVE  Clean(i - 1)' <=> Clean(i - 1)
<1>1. Len(got) \in Nat
      BY LenProperties DEF OutInv, BuffersOK
<1>2. ASSUME NEW j \in 1 .. Len(got)
      PROVE  /\ got'[j] = got[j] /\ sent'[got'[j]] = sent[got[j]]
             /\ Fragmented(got[j])' <=> Fragmented(got[j])
  <2>1. got'[j] = got[j] /\ got[j] \in 1 .. Len(sent)
        BY ElementOfSeq DEF PastKept, OutInv, BuffersOK
  <2> QED BY <2>1 DEF PastKept, Fragmented
<1>3. \A j \in 1 .. i - 1 : /\ j \in 1 .. Len(got)
                            /\ \A m \in j + 1 .. i - 1 : m \in 1 .. Len(got)
      BY <1>1
<1> QED BY <1>2, <1>3 DEF Clean

(* What was read stays what it was.                                        *)
LEMMA BeginsIsKept ==
    ASSUME LinkInv, OutInv, PastKept, NEW i \in 1 .. Len(got)
    PROVE  /\ got'[i] = got[i] /\ got[i] \in 1 .. Len(sent) /\ sent'[got[i]] = sent[got[i]]
           /\ Begins(i)' <=> Begins(i)
           /\ \A m \in Nat : i + m - 1 <= Len(got) => (InOrder(i, m)' <=> InOrder(i, m))
<1>1. Len(got) \in Nat /\ Len(got') \in Nat /\ Len(got') >= Len(got)
  <2>1. Len(got) \in Nat
        BY LenProperties DEF OutInv, BuffersOK
  <2> QED BY <2>1 DEF PastKept
<1>2. ASSUME NEW j \in 1 .. Len(got)
      PROVE  /\ got'[j] = got[j] /\ got[j] \in 1 .. Len(sent) /\ sent'[got'[j]] = sent[got[j]]
             /\ Fragmented(got[j])' <=> Fragmented(got[j])
  <2>1. got'[j] = got[j] /\ got[j] \in 1 .. Len(sent)
        BY ElementOfSeq DEF PastKept, OutInv, BuffersOK
  <2> QED BY <2>1 DEF PastKept, Fragmented
<1>3. Clean(i - 1)' <=> Clean(i - 1)
  <2>1. i \in 1 .. Len(got) + 1
        BY <1>1
  <2> QED BY <2>1, CleanIsKept
<1>4. ASSUME NEW m \in Nat, i + m - 1 <= Len(got) PROVE InOrder(i, m)' <=> InOrder(i, m)
  <2>1. i + m - 1 <= Len(got')
        BY <1>1, <1>4
  <2>2. \A j \in 1 .. m : i + j - 1 \in 1 .. Len(got)
        BY <1>1, <1>4
  <2> QED BY <1>2, <1>4, <2>1, <2>2 DEF InOrder
<1>5. got'[i] = got[i] /\ got[i] \in 1 .. Len(sent) /\ sent'[got[i]] = sent[got[i]]
      BY <1>2
<1>6. Begins(i)' <=> Begins(i)
      BY <1>3, <1>5 DEF Begins
<1> QED BY <1>4, <1>5, <1>6

(* In order, the packet after the m-th of a NAL unit is the next one of it.*)
LEMMA NextOfNAL ==
    ASSUME LinkInv, Together, NEW k \in 1 .. Len(sent), sent[k].payload = 1
    PROVE  LET length == Input[sent[k].nal].payloads
           IN  /\ length \in Nat \ {0}
               /\ \A m \in 0 .. length - 1 :
                     /\ k + m \in 1 .. Len(sent)
                     /\ sent[k + m].marker <=> m + 1 = length
                     /\ Fragmented(k + m) <=> length > 1
<1> DEFINE length == Input[sent[k].nal].payloads
<1>1. length \in Nat \ {0}
  <2>1. sent[k].nal \in 1 .. nal /\ nal \in 0 .. Len(Input) /\ sent[k].payload \in 1 .. length
        BY DEF LinkInv, SentInv
  <2>2. sent[k].nal \in 1 .. Len(Input)
        BY <2>1, InputType
  <2> QED BY <2>1, <2>2, InputType
<1>2. ASSUME NEW m \in 0 .. length - 1
      PROVE  /\ k + m \in 1 .. Len(sent)
             /\ sent[k + m].marker <=> m + 1 = length
             /\ Fragmented(k + m) <=> length > 1
  <2>1. k + m \in 1 .. Len(sent) /\ sent[k + m].nal = sent[k].nal /\ sent[k + m].payload = m + 1
        BY DEF Together
  <2>2. sent[k + m].marker <=> sent[k + m].payload = Input[sent[k + m].nal].payloads
        BY <2>1 DEF LinkInv, SentInv
  <2> QED BY <2>1, <2>2 DEF Fragmented
<1> QED BY <1>1, <1>2

(* SendNAL appends the packets of a NAL unit together.                     *)
LEMMA SendNALTogether == ASSUME LinkInv, SendNAL, Together PROVE Together'
<1> DEFINE L == Len(sent)
           p == Input[nal'].payloads
<1>1. L \in Nat /\ p \in Nat /\ Len(sent') = L + p
      BY SentPackets
<1> SUFFICES ASSUME NEW k \in 1 .. Len(sent'), sent'[k].payload = 1,
                    NEW i \in 0 .. Input[sent'[k].nal].payloads - 1
             PROVE  /\ k + i \in 1 .. Len(sent')
                    /\ sent'[k + i].nal = sent'[k].nal /\ sent'[k + i].payload = i + 1
    BY DEF Together
<1>2. CASE k \in 1 .. L
  <2>1. sent'[k] = sent[k]
        BY <1>2, SentPackets
  <2>2. k + i \in 1 .. L /\ sent[k + i].nal = sent[k].nal /\ sent[k + i].payload = i + 1
        BY <1>2, <2>1 DEF Together
  <2> QED BY <2>1, <2>2, SentPackets
<1>3. CASE k > L
  <2>1. sent'[k].nal = nal' /\ sent'[k].payload = k - L
        BY <1>3, SentPackets
  <2>2. k = L + 1 /\ i \in 0 .. p - 1
        BY <1>1, <2>1
  <2>3. k + i \in 1 .. Len(sent') /\ k + i > L /\ k + i - L = i + 1
        BY <1>1, <2>2
  <2>4. sent'[k + i].nal = nal' /\ sent'[k + i].payload = k + i - L
        BY <2>3, SentPackets
  <2> QED BY <2>1, <2>3, <2>4
<1> QED BY <1>1, <1>2, <1>3

(* What was read tells of what is held and written, as long as it stays.   *)
LEMMA HeldIsKept ==
    ASSUME LinkInv, OutInv, DamageInv, PastKept, UNCHANGED <<got, fuaBuffer, output>>
    PROVE  HeldInv' /\ WrittenInv'
<1>1. ASSUME NEW i \in 1 .. Len(got)
      PROVE  /\ sent'[got[i]] = sent[got[i]]
             /\ Begins(i)' <=> Begins(i)
             /\ \A m \in Nat : InOrder(i, m)' <=> InOrder(i, m)
  <2>1. ASSUME NEW m \in Nat PROVE InOrder(i, m)' <=> InOrder(i, m)
        BY DEF InOrder
  <2> QED BY <2>1, BeginsIsKept
<1>2. HeldInv'
      BY <1>1 DEF DamageInv, HeldInv, From
<1>3. WrittenInv'
  <2>1. ASSUME NEW i \in 1 .. Len(got), NEW m \in Nat,
               Begins(i)', InOrder(i, m)', m = Input[sent'[got[i]].nal].payloads
        PROVE  \E o \in 1 .. Len(output) : output[o] = From(got[i], m)
        BY <1>1, <2>1 DEF DamageInv, WrittenInv
  <2> QED BY <2>1 DEF WrittenInv, From
<1> QED BY <1>2, <1>3

(* A NAL unit is sent: what was read, held and written does not change.    *)
LEMMA SendNALDamages ==
    ASSUME LinkInv, OutInv, DamageInv, SendNAL, UNCHANGED recvVars PROVE DamageInv'
<1>1. UNCHANGED <<got, fuaBuffer, output>> /\ PastKept
      BY PastIsKept DEF recvVars
<1>2. HeldInv' /\ WrittenInv'
      BY <1>1, HeldIsKept
<1>3. LeftOverInv'
  <2>1. \A j \in 1 .. Len(got) : Fragmented(got[j])' <=> Fragmented(got[j])
        BY <1>1, BeginsIsKept DEF Fragmented
  <2>2. Len(got) \in Nat
        BY LenProperties DEF OutInv, BuffersOK
  <2>3. \A j \in 1 .. Len(got) : \A m \in j + 1 .. Len(got) : m \in 1 .. Len(got)
        BY <2>2
  <2> QED BY <1>1, BeginsIsKept, <2>1, <2>3 DEF DamageInv, LeftOverInv, Fragmented
<1>4. OnceInv'
  <2> DEFINE S == 1 .. Len(sent)
  <2>1. flight' \subseteq flight \cup (Len(sent) + 1 .. Len(sent'))
        BY DEF SendNAL
  <2>2. flight' \cap S \subseteq flight
    <3>1. Len(sent) \in Nat
          BY SentPackets
    <3> QED BY <2>1, <3>1
  <2> HIDE DEF S
  <2>3. \A s \in Seq(S) : ToSet(s) \subseteq S
    <3> SUFFICES ASSUME NEW s \in Seq(S) PROVE ToSet(s) \subseteq S
        OBVIOUS
    <3>1. DOMAIN s = 1 .. Len(s) /\ \A i \in 1 .. Len(s) : s[i] \in S
          BY LenProperties, ElementOfSeq
    <3> QED BY <3>1 DEF ToSet
  <2>4. ToSet(fuaBuffer) \subseteq S
        BY <2>3 DEF OutInv, BuffersOK, S
  <2>5. \A o \in 1 .. Len(output) : ToSet(output[o]) \subseteq S
    <3>1. output \in Seq(Seq(S))
          BY DEF OutInv, BuffersOK, S
    <3> QED BY <2>3, <3>1, ElementOfSeq
  <2> QED BY <1>1, <2>2, <2>4, <2>5 DEF DamageInv, OnceInv
<1> QED BY <1>2, <1>3, <1>4, SendNALTogether DEF DamageInv

(* What a packet that is read does to got, to what is held and written.    *)
LEMMA ReadDoes ==
    ASSUME LinkInv, OutInv, NEW k \in flight, ReadRTP(k)
    PROVE  /\ k \in 1 .. Len(sent) /\ sent' = sent /\ flight' = flight \ {k}
           /\ Len(got) \in Nat /\ Len(got') = Len(got) + 1 /\ got'[Len(got) + 1] = k
           /\ \A j \in 1 .. Len(got) : got'[j] = got[j]
           /\ fuaBuffer \in Seq(1 .. Len(sent)) /\ fuaBuffer' = FuaBuffer(k)
           /\ ~Fragmented(k) => sent[k].marker
           /\ ~sent[k].marker => output' = output
           /\ sent[k].marker => /\ Len(output) \in Nat /\ Len(output') = Len(output) + 1
                                /\ output'[Len(output) + 1] = Unmarshal(k)
                                /\ \A o \in 1 .. Len(output) : output'[o] = output[o]
<1> DEFINE S == 1 .. Len(sent)
<1>1. /\ k \in S /\ sent' = sent /\ flight' = flight \ {k}
      /\ got \in Seq(S) /\ fuaBuffer \in Seq(S) /\ output \in Seq(Seq(S)) /\ nalBuffer = << >>
      BY DEF LinkInv, OutInv, OutputInv, BuffersOK, ReadRTP, PeerFrame
<1>2. /\ got' = Append(got, k) /\ fuaBuffer' = FuaBuffer(k)
      /\ ~Fragmented(k) => sent[k].marker
      /\ ~sent[k].marker => output' = output
      /\ sent[k].marker => Unmarshal(k) \in Seq(S) /\ output' = Append(output, Unmarshal(k))
      BY <1>1, ReadCases DEF OutInv
<1> HIDE DEF S
<1>3. /\ Len(got) \in Nat /\ Len(got') = Len(got) + 1 /\ got'[Len(got) + 1] = k
      /\ \A j \in 1 .. Len(got) : got'[j] = got[j]
      BY <1>1, <1>2, AppendProperties, LenProperties
<1>4. ASSUME sent[k].marker
      PROVE  /\ Len(output) \in Nat /\ Len(output') = Len(output) + 1
             /\ output'[Len(output) + 1] = Unmarshal(k)
             /\ \A o \in 1 .. Len(output) : output'[o] = output[o]
  <2> DEFINE T == Seq(S)
             data == Unmarshal(k)
  <2>1. output \in Seq(T) /\ data \in T /\ output' = Append(output, data)
        BY <1>1, <1>2, <1>4
  <2> HIDE DEF T, data
  <2>2. /\ Len(output) \in Nat /\ Len(output') = Len(output) + 1
        /\ output'[Len(output) + 1] = data
        /\ \A o \in 1 .. Len(output) : output'[o] = output[o]
        BY <2>1, AppendProperties, LenProperties
  <2> QED BY <2>2 DEF data
<1> QED BY <1>1, <1>2, <1>3, <1>4 DEF S

(* Nothing is held when nothing is left over.                              *)
LEMMA CleanHoldsNothing == OutInv /\ LeftOverInv /\ Clean(Len(got)) => fuaBuffer = << >>
<1> SUFFICES ASSUME OutInv, LeftOverInv, Clean(Len(got)), fuaBuffer # << >> PROVE FALSE
    OBVIOUS
<1>1. PICK j \in 1 .. Len(got) : /\ Fragmented(got[j]) /\ ~sent[got[j]].marker
                                 /\ \A m \in j + 1 .. Len(got) : ~Fragmented(got[m])
      BY DEF LeftOverInv
<1> QED BY <1>1 DEF Clean

(* A fragment that is read is left over until the end of a NAL unit.       *)
LEMMA ReadLeaves ==
    ASSUME LinkInv, OutInv, LeftOverInv, NEW k \in flight, ReadRTP(k) PROVE LeftOverInv'
<1> DEFINE n == Len(got) + 1
<1>1. /\ sent' = sent /\ fuaBuffer' = FuaBuffer(k)
      /\ n \in Nat /\ Len(got') = n /\ got'[n] = k
      /\ \A j \in 1 .. Len(got) : got'[j] = got[j]
      BY ReadDoes
<1>2. /\ \A j \in 1 .. n : j \in 1 .. Len(got) \/ j = n
      /\ 1 .. Len(got) \subseteq 1 .. n /\ n \in 1 .. n /\ n + 1 .. n = {}
      BY <1>1
<1> SUFFICES ASSUME fuaBuffer' # << >>
             PROVE  \E j \in 1 .. n : /\ Input[sent[got'[j]].nal].payloads > 1
                                      /\ ~sent[got'[j]].marker
                                      /\ \A m \in j + 1 .. n : ~(Input[sent[got'[m]].nal].payloads > 1)
    BY <1>1 DEF LeftOverInv, Fragmented
<1>3. CASE ~Fragmented(k)
  <2>1. fuaBuffer # << >>
        BY <1>1, <1>3 DEF FuaBuffer
  <2>2. PICK j \in 1 .. Len(got) : /\ Fragmented(got[j]) /\ ~sent[got[j]].marker
                                   /\ \A m \in j + 1 .. Len(got) : ~Fragmented(got[m])
        BY <2>1 DEF LeftOverInv
  <2>3. \A m \in j + 1 .. n : m = n \/ (m \in j + 1 .. Len(got) /\ m \in 1 .. Len(got))
        BY <1>1
  <2> QED BY <1>1, <1>2, <1>3, <2>2, <2>3 DEF Fragmented
<1>4. CASE Fragmented(k) /\ ~sent[k].marker
      BY <1>1, <1>2, <1>4 DEF Fragmented
<1>5. CASE Fragmented(k) /\ sent[k].marker
      BY <1>1, <1>5 DEF FuaBuffer
<1> QED BY <1>3, <1>4, <1>5

(***************************************************************************)
(* The heart of it: if the packets of a NAL unit were read in order up to  *)
(* the one that is read now, the depacketizer held those before it; now it *)
(* holds this one as well, or, at the last one, returns them all.          *)
(***************************************************************************)
LEMMA ReadGoesOn ==
    ASSUME LinkInv, OutInv, DamageInv, NEW k \in flight, ReadRTP(k),
           NEW i \in 1 .. Len(got'), NEW m \in Nat, i + m = Len(got) + 1,
           Begins(i)', InOrder(i, m + 1)', m < Input[sent[got'[i]].nal].payloads
    PROVE  LET length == Input[sent[got'[i]].nal].payloads
           IN  /\ m + 1 < length => fuaBuffer' = From(got'[i], m + 1)
               /\ m + 1 = length => sent[k].marker /\ Unmarshal(k) = From(got'[i], m + 1)
<1> DEFINE S == 1 .. Len(sent)
           first == got'[i]
           length == Input[sent[first].nal].payloads
<1>1. /\ k \in S /\ sent' = sent /\ fuaBuffer' = FuaBuffer(k) /\ fuaBuffer \in Seq(S)
      /\ Len(got) \in Nat /\ Len(got') = Len(got) + 1 /\ got'[Len(got) + 1] = k
      /\ \A j \in 1 .. Len(got) : got'[j] = got[j]
      BY ReadDoes
<1>2. PastKept
      BY PastIsKept
<1>3. first \in S /\ S \in SUBSET Nat
  <2>1. i \in 1 .. Len(got) \/ i = Len(got) + 1
        BY <1>1
  <2>2. \A j \in 1 .. Len(got) : got[j] \in S
        BY ElementOfSeq DEF OutInv, BuffersOK
  <2> QED BY <1>1, <2>1, <2>2
<1>4. sent[first].payload = 1 /\ Clean(i - 1)
  <2>1. sent[first].payload = 1 /\ Clean(i - 1)'
        BY <1>1 DEF Begins
  <2> QED BY <1>1, <1>2, <2>1, CleanIsKept
<1>5. k = first + m
  <2>1. m + 1 \in 1 .. m + 1 /\ i + (m + 1) - 1 = Len(got) + 1 /\ first \in Int
        BY <1>1, <1>3
  <2>2. got'[i + (m + 1) - 1] = first + (m + 1) - 1
        BY <2>1 DEF InOrder
  <2> QED BY <1>1, <2>1, <2>2
<1>6. fuaBuffer = From(first, m)
  <2>1. CASE m = 0
    <3>1. i - 1 = Len(got)
          BY <1>1, <2>1
    <3>2. fuaBuffer = << >>
          BY <1>4, <3>1, CleanHoldsNothing DEF DamageInv
    <3>3. From(first, 0) = << >>
          BY <1>1, <1>5, <2>1, FromGrows
    <3> QED BY <2>1, <3>2, <3>3
  <2>2. CASE m > 0
    <3>1. i \in 1 .. Len(got) /\ i + m - 1 <= Len(got)
          BY <1>1, <2>2
    <3>2. first = got[i]
          BY <1>1, <3>1
    <3>3. InOrder(i, m)
      <4>1. \A j \in 1 .. m : j \in 1 .. m + 1 /\ i + j - 1 \in 1 .. Len(got)
            BY <1>1, <3>1
      <4> QED BY <1>1, <3>1, <4>1 DEF InOrder
    <3> QED BY <1>4, <3>1, <3>2, <3>3 DEF DamageInv, HeldInv, Begins
  <2> QED BY <2>1, <2>2
<1>7. /\ length \in Nat \ {0}
      /\ sent[k].marker <=> m + 1 = length
      /\ Fragmented(k) <=> length > 1
  <2>1. /\ length \in Nat \ {0}
        /\ \A n \in 0 .. length - 1 :
              /\ sent[first + n].marker <=> n + 1 = length
              /\ Fragmented(first + n) <=> length > 1
        BY <1>3, <1>4, NextOfNAL DEF DamageInv
  <2>2. m \in Nat /\ m < length
        OBVIOUS
  <2> HIDE DEF first, length
  <2>3. m \in 0 .. length - 1
        BY <2>1, <2>2
  <2>4. /\ sent[first + m].marker <=> m + 1 = length
        /\ Fragmented(first + m) <=> length > 1
        BY <2>1, <2>3
  <2> QED BY <1>5, <2>1, <2>4
<1>8. Append(fuaBuffer, k) = From(first, m + 1) /\ From(first, 1) = <<first>>
      BY <1>1, <1>3, <1>5, <1>6, FromGrows
<1>9. m + 1 < length => fuaBuffer' = From(first, m + 1)
      BY <1>1, <1>7, <1>8 DEF FuaBuffer
<1>10. ASSUME m + 1 = length PROVE sent[k].marker /\ Unmarshal(k) = From(first, m + 1)
  <2>1. CASE m = 0
        BY <1>5, <1>7, <1>8, <1>10, <2>1 DEF Unmarshal
  <2>2. CASE m > 0
        BY <1>7, <1>8, <1>10, <2>2 DEF Unmarshal
  <2> QED BY <2>1, <2>2
<1> QED BY <1>9, <1>10

(* A packet that was read was sent, as one of some packets of its NAL unit.*)
LEMMA LengthOfGot ==
    ASSUME LinkInv, OutInv, NEW k \in flight, ReadRTP(k), NEW i \in 1 .. Len(got')
    PROVE  got'[i] \in 1 .. Len(sent) /\ Input[sent[got'[i]].nal].payloads \in Nat
<1>1. got'[i] \in 1 .. Len(sent)
  <2>1. \A j \in 1 .. Len(got) : got[j] \in 1 .. Len(sent)
        BY ElementOfSeq DEF OutInv, BuffersOK
  <2>2. i \in 1 .. Len(got) \/ i = Len(got) + 1
        BY ReadDoes
  <2> QED BY <2>1, <2>2, ReadDoes
<1>2. sent[got'[i]].nal \in 1 .. nal /\ nal \in 0 .. Len(Input)
      BY <1>1 DEF LinkInv, SentInv
<1> QED BY <1>1, <1>2, InputType

(* What is held of a NAL unit while some of it is to come.                 *)
LEMMA ReadHolds ==
    ASSUME LinkInv, OutInv, DamageInv, NEW k \in flight, ReadRTP(k) PROVE HeldInv'
<1>1. sent' = sent /\ Len(got) \in Nat /\ Len(got') = Len(got) + 1
      BY ReadDoes
<1>2. ASSUME NEW i \in 1 .. Len(got'), NEW m \in Nat,
             Begins(i)', InOrder(i, m)', i + m = Len(got') + 1, m < Input[sent[got'[i]].nal].payloads
      PROVE  fuaBuffer' = From(got'[i], m)
  <2> DEFINE n == m - 1
  <2>1. n \in Nat /\ m = n + 1 /\ i + n = Len(got) + 1
        BY <1>1, <1>2
  <2> HIDE DEF n
  <2>2. n < Input[sent[got'[i]].nal].payloads /\ n + 1 < Input[sent[got'[i]].nal].payloads
    <3> DEFINE length == Input[sent[got'[i]].nal].payloads
    <3>1. length \in Nat
          BY LengthOfGot
    <3>2. m < length
          BY <1>2
    <3> HIDE DEF length
    <3>3. n < length /\ n + 1 < length
          BY <2>1, <3>1, <3>2
    <3> QED BY <3>3 DEF length
  <2>3. InOrder(i, n + 1)'
        BY <1>2, <2>1
  <2> QED BY <1>2, <2>1, <2>2, <2>3, ReadGoesOn
<1> QED BY <1>1, <1>2 DEF HeldInv, From

(* A NAL unit is written when it is complete, and what was written stays.  *)
LEMMA ReadWrites ==
    ASSUME LinkInv, OutInv, DamageInv, NEW k \in flight, ReadRTP(k) PROVE WrittenInv'
<1>1. /\ sent' = sent /\ Len(got) \in Nat /\ Len(got') = Len(got) + 1
      /\ \A j \in 1 .. Len(got) : got'[j] = got[j]
      BY ReadDoes
<1>2. \A o \in 1 .. Len(output) : o \in 1 .. Len(output') /\ output'[o] = output[o]
  <2>1. CASE sent[k].marker
    <3>1. /\ Len(output) \in Nat /\ Len(output') = Len(output) + 1
          /\ \A o \in 1 .. Len(output) : output'[o] = output[o]
          BY <2>1, ReadDoes
    <3> QED BY <3>1
  <2>2. CASE ~sent[k].marker
        BY <2>2, ReadDoes
  <2> QED BY <2>1, <2>2
<1>3. PastKept
      BY PastIsKept
<1>4. ASSUME NEW i \in 1 .. Len(got'), NEW m \in Nat,
             Begins(i)', InOrder(i, m)', m = Input[sent[got'[i]].nal].payloads
      PROVE  \E o \in 1 .. Len(output') : output'[o] = From(got'[i], m)
  <2>1. m \in Nat \ {0}
    <3>1. got'[i] \in 1 .. Len(sent) /\ sent[got'[i]].payload = 1
          BY <1>1, <1>4, LengthOfGot DEF Begins
    <3>2. sent[got'[i]].payload \in 1 .. m
          BY <1>4, <3>1 DEF LinkInv, SentInv
    <3> QED BY <3>1, <3>2
  <2>2. i + m - 1 <= Len(got) + 1
        BY <1>1, <1>4 DEF InOrder
  <2>3. CASE i + m - 1 <= Len(got)
    <3>1. i \in 1 .. Len(got) /\ got'[i] = got[i]
          BY <1>1, <2>1, <2>3
    <3>2. Begins(i) /\ InOrder(i, m)
          BY <1>3, <1>4, <2>3, <3>1, BeginsIsKept
    <3>3. PICK o \in 1 .. Len(output) : output[o] = From(got[i], m)
          BY <1>4, <3>1, <3>2 DEF DamageInv, WrittenInv
    <3> QED BY <1>2, <3>1, <3>3
  <2>4. CASE i + m - 1 = Len(got) + 1
    <3> DEFINE n == m - 1
               first == got'[i]
               length == Input[sent[first].nal].payloads
    <3>1. n \in Nat /\ m = n + 1 /\ i + n = Len(got) + 1 /\ n < m
          BY <1>1, <2>1, <2>4
    <3> HIDE DEF n
    <3>2. InOrder(i, n + 1)' /\ n < length /\ n + 1 = length
          BY <1>4, <3>1
    <3>3. sent[k].marker /\ Unmarshal(k) = From(first, n + 1)
          BY <1>4, <3>1, <3>2, ReadGoesOn
    <3>4. /\ Len(output) \in Nat /\ Len(output') = Len(output) + 1
          /\ output'[Len(output) + 1] = Unmarshal(k)
          BY <3>3, ReadDoes
    <3>5. Len(output) + 1 \in 1 .. Len(output')
          BY <3>4
    <3> QED BY <3>1, <3>3, <3>4, <3>5
  <2> QED BY <1>1, <2>1, <2>2, <2>3, <2>4
<1> QED BY <1>1, <1>4 DEF WrittenInv, From

(* The packet that is read leaves the network; it is held or written, and  *)
(* what is written is held no longer.                                      *)
LEMMA ReadOnce ==
    ASSUME LinkInv, OutInv, OnceInv, NEW k \in flight, ReadRTP(k) PROVE OnceInv'
<1> DEFINE S == 1 .. Len(sent)
           held == ToSet(fuaBuffer)
           data == Unmarshal(k)
<1>1. /\ k \in S /\ fuaBuffer \in Seq(S) /\ flight' = flight \ {k} /\ fuaBuffer' = FuaBuffer(k)
      /\ ~Fragmented(k) => sent[k].marker
      BY ReadDoes
<1> HIDE DEF S
<1>2. /\ ToSet(Append(fuaBuffer, k)) = held \cup {k}
      /\ ToSet(<<k>>) = {k} /\ ToSet(<< >>) = {}
      BY <1>1, ToSetOfSeq
<1>3. /\ held \cap flight = {} /\ k \notin held
      /\ \A o \in 1 .. Len(output) : ToSet(output[o]) \cap (flight \cup held) = {}
      BY DEF OnceInv
<1>4. ToSet(fuaBuffer') \subseteq held \cup {k}
      BY <1>1, <1>2 DEF FuaBuffer
<1>5. ToSet(data) \subseteq held \cup {k} /\ ToSet(data) \cap ToSet(fuaBuffer') = {}
  <2>1. CASE ~Fragmented(k)
        BY <1>1, <1>2, <1>3, <2>1 DEF FuaBuffer, Unmarshal
  <2>2. CASE Fragmented(k) /\ sent[k].marker
        BY <1>1, <1>2, <2>2 DEF FuaBuffer, Unmarshal
  <2>3. CASE Fragmented(k) /\ ~sent[k].marker
        BY <1>1, <1>2, <2>3 DEF FuaBuffer, Unmarshal
  <2> QED BY <2>1, <2>2, <2>3
<1>6. ToSet(fuaBuffer') \cap flight' = {}
      BY <1>1, <1>3, <1>4
<1>7. \A o \in 1 .. Len(output) :
          ToSet(output[o]) \cap (flight' \cup ToSet(fuaBuffer') \cup ToSet(data)) = {}
      BY <1>1, <1>3, <1>4, <1>5
<1>8. ToSet(data) \cap flight' = {}
      BY <1>1, <1>3, <1>5
<1>9. CASE ~sent[k].marker
  <2>1. output' = output
        BY <1>9, ReadDoes
  <2> QED BY <1>6, <1>7, <2>1 DEF OnceInv
<1>10. CASE sent[k].marker
  <2> DEFINE last == Len(output) + 1
  <2>1. /\ Len(output) \in Nat /\ Len(output') = last /\ output'[last] = data
        /\ \A o \in 1 .. Len(output) : output'[o] = output[o]
        BY <1>10, ReadDoes
  <2>2. \A o \in 1 .. last : o \in 1 .. Len(output) \/ o = last
        BY <2>1
  <2> HIDE DEF last, data, held
  <2>3. ASSUME NEW o \in 1 .. last
        PROVE  ToSet(output'[o]) \cap (flight' \cup ToSet(fuaBuffer')) = {}
        BY <1>5, <1>7, <1>8, <2>1, <2>2
  <2>4. ASSUME NEW o \in 1 .. last, NEW p \in 1 .. last, o # p
        PROVE  ToSet(output'[o]) \cap ToSet(output'[p]) = {}
    <3>1. CASE o \in 1 .. Len(output) /\ p \in 1 .. Len(output)
          BY <2>1, <2>4, <3>1 DEF OnceInv
    <3>2. CASE o \in 1 .. Len(output) /\ p = last
          BY <1>7, <2>1, <3>2
    <3>3. CASE o = last /\ p \in 1 .. Len(output)
          BY <1>7, <2>1, <3>3
    <3> QED BY <2>2, <2>4, <3>1, <3>2, <3>3
  <2> QED BY <1>6, <2>1, <2>3, <2>4 DEF OnceInv
<1> QED BY <1>9, <1>10

(* Nothing has been sent, read or written at the beginning.                *)
LEMMA DamageInit == Init => DamageInv
<1> SUFFICES ASSUME Init PROVE DamageInv
    OBVIOUS
<1>1. sent = << >> /\ flight = {} /\ got = << >> /\ fuaBuffer = << >> /\ output = << >>
      BY DEF Init, LinkInit, RecvInit
<1>2. Len(<< >>) = 0 /\ 1 .. 0 = {}
      BY EmptySeq
<1> QED BY <1>1, <1>2 DEF DamageInv, Together, HeldInv, WrittenInv, LeftOverInv, OnceInv

(* Every step keeps the damage where it is.                                *)
LEMMA DamageNext == LinkInv /\ OutInv /\ DamageInv /\ [Next]_vars => DamageInv'
<1> SUFFICES ASSUME LinkInv, OutInv, DamageInv, [Next]_vars PROVE DamageInv'
    OBVIOUS
<1>1. CASE NothingRead
  <2>1. UNCHANGED <<sent, got, fuaBuffer, output>> /\ flight' \subseteq flight
        BY <1>1 DEF NothingRead
  <2>2. Together' /\ LeftOverInv' /\ OnceInv'
        BY <2>1 DEF DamageInv, Together, LeftOverInv, OnceInv, Fragmented
  <2>3. HeldInv' /\ WrittenInv'
    <3>1. PastKept
          BY <2>1 DEF PastKept
    <3> QED BY <2>1, <3>1, HeldIsKept
  <2> QED BY <2>2, <2>3 DEF DamageInv
<1>2. CASE SendNAL /\ UNCHANGED recvVars
      BY <1>2, SendNALDamages
<1>3. ASSUME NEW k \in flight, ReadRTP(k) PROVE DamageInv'
  <2>1. sent' = sent
        BY <1>3, ReadDoes
  <2>2. Together'
        BY <2>1 DEF DamageInv, Together
  <2> QED BY <1>3, <2>2, ReadHolds, ReadWrites, ReadLeaves, ReadOnce DEF DamageInv
<1> QED BY <1>1, <1>2, <1>3, ReadingCases DEF OutInv

(* What is got as one piece is got in order.                               *)
LEMMA DamageInvConfines == LinkInv /\ OutInv /\ DamageInv => DamageIsConfined
<1> SUFFICES ASSUME LinkInv, OutInv, DamageInv PROVE DamageIsConfined
    OBVIOUS
<1>1. ASSUME NEW i \in 1 .. Len(got), NEW length, length = Input[sent[got[i]].nal].payloads,
             sent[got[i]].payload = 1, i + length - 1 <= Len(got),
             SubSeq(got, i, i + length - 1) = From(got[i], length), Clean(i - 1)
      PROVE  \E o \in 1 .. Len(output) : output[o] = From(got[i], length)
  <2> DEFINE S == 1 .. Len(sent)
  <2>1. got \in Seq(S) /\ Len(got) \in Nat /\ \A j \in 1 .. Len(got) : got[j] \in S
        BY LenProperties, ElementOfSeq DEF OutInv, BuffersOK
  <2>2. length \in Nat \ {0}
    <3>1. sent[got[i]].nal \in 1 .. nal /\ nal \in 0 .. Len(Input)
          BY <2>1 DEF LinkInv, SentInv
    <3>2. length \in Nat
          BY <1>1, <3>1, InputType
    <3>3. sent[got[i]].payload \in 1 .. length
          BY <1>1, <2>1 DEF LinkInv, SentInv
    <3> QED BY <1>1, <3>2, <3>3
  <2>3. InOrder(i, length)
    <3> DEFINE e == i + length - 1
    <3>1. e \in Int /\ i \in Int /\ e - i + 1 = length /\ \A j \in i .. e : j \in 1 .. Len(got)
      <4>1. i + length - 1 <= Len(got) /\ Len(got) \in Nat
            BY <1>1, <2>1
      <4> HIDE DEF S
      <4> QED BY <2>2, <4>1
    <3> HIDE DEF S, e
    <3>2. \A j \in 1 .. e - i + 1 : SubSeq(got, i, e)[j] = got[i + j - 1]
          BY <2>1, <3>1, SubSeqProperties
    <3>3. \A j \in 1 .. length : From(got[i], length)[j] = got[i] + j - 1
          BY DEF From
    <3>4. \A j \in 1 .. length : got[i + j - 1] = got[i] + j - 1
          BY <1>1, <3>1, <3>2, <3>3 DEF e
    <3> QED BY <1>1, <3>4 DEF InOrder
  <2> QED BY <1>1, <2>2, <2>3 DEF DamageInv, WrittenInv, Begins
<1>2. \A o, p \in 1 .. Len(output) : o # p => ToSet(output[o]) \cap ToSet(output[p]) = {}
      BY DEF DamageInv, OnceInv
<1> QED BY <1>1, <1>2, Zenon DEF DamageIsConfined, From

-----------------------------------------------------------------------------

LearnedInv == learned \in BOOLEAN

(* The receiver's knowledge of the end only changes when it learns of it.  *)
LEMMA LearnedNext == LearnedInv /\ [Next]_vars => LearnedInv'
BY DEF LearnedInv, Next, vars, recvVars, Recv, ReadRTP, CountNAL, LearnEnd, EndTrack,
       StartReports, SendReport, TrackFrame

AllInv ==
    /\ LinkInv /\ ControlInv /\ ReportsInv /\ SummaryInv
    /\ OutInv /\ SenderInv /\ HeadersInv /\ DamageInv /\ LearnedInv

(* The parts of the invariant, together.                                   *)
LEMMA AllCorrect == Spec => []AllInv
<1>1. Init => SenderInv
      BY DEF Init, SendInit, SenderInv
<1>2. Init => LearnedInv
      BY DEF Init, RecvInit, LearnedInv
<1>3. Init => AllInv
      BY <1>1, <1>2, LinkInvInit, ControlInit, ReportsInit, OutInit, HeadersInit, DamageInit
         DEF AllInv
<1>4. AllInv /\ [Next]_vars => AllInv'
      BY LinkInvNext, ControlNext, ReportsNext, OutNext, SenderNext, HeadersNext, DamageNext,
         LearnedNext DEF AllInv
<1> QED BY <1>3, <1>4, PTL DEF Spec

(***************************************************************************)
(* Every variable of both programs keeps its type.                         *)
(***************************************************************************)
THEOREM TypeCorrect == Spec => []TypeOK
<1>1. AllInv => TypeOK
  <2> SUFFICES ASSUME AllInv PROVE TypeOK
      OBVIOUS
  <2> USE DEF AllInv
  <2>1. LinkTypeOK
        BY DEF LinkTypeOK, LinkInv, SentInv, ControlInv, ControlOK, ReportsInv
  <2>2. senderNALCount \in 0 .. nal
        BY InputType DEF LinkInv, SentInv, SenderInv
  <2>3. SendTypeOK
        BY <2>2 DEF SendTypeOK, LinkInv, SentInv, ControlInv, ControlOK, ReportsInv, SummaryInv, Phases
  <2>4. nalCount \in 0 .. Len(output)
        BY LenProperties DEF OutInv, OutputInv, BuffersOK
  <2>5. nalBuffer \in Seq(1 .. Len(sent))
        BY EmptySeq DEF OutInv, OutputInv
  <2>6. RecvTypeOK
        BY <2>4, <2>5 DEF RecvTypeOK, OutInv, OutputInv, BuffersOK, ReportsInv, LearnedInv
  <2> QED BY <2>1, <2>3, <2>6 DEF TypeOK
<1> QED BY <1>1, AllCorrect, PTL

(***************************************************************************)
(* A summary finds no report lost or late, and speaks of no more NAL units *)
(* received than were sent: what is counted was written, and what is       *)
(* written took the marker bit of a NAL unit that was sent.                *)
(***************************************************************************)
THEOREM SummaryCorrect == Spec => []SummaryIsTrue
<1>1. AllInv => SummaryIsTrue
  <2> SUFFICES ASSUME AllInv PROVE SummaryIsTrue
      OBVIOUS
  <2> USE DEF AllInv
  <2>1. summary.stats.nals \in Nat
        BY DEF SummaryInv, Report, NoReport
  <2>2. Cardinality(Taken) \in Nat /\ Cardinality(Taken) <= nal
        BY TakenIsFinite
  <2>3. nalCount \in Nat /\ nalCount <= Len(output) /\ Len(output) <= Cardinality(Taken)
        BY DEF OutInv, OutputInv
  <2>4. Len(output) \in Nat /\ nal \in Nat
        BY LenProperties, InputType DEF OutInv, BuffersOK, LinkInv, SentInv
  <2>5. summary.stats.nals <= nal
        BY <2>1, <2>2, <2>3, <2>4 DEF SummaryInv
  <2>6. main \notin {"count", "panic"} => senderNALCount = nal
        BY DEF SenderInv
  <2> QED BY <2>5, <2>6 DEF SummaryIsTrue, SummaryInv
<1> QED BY <1>1, AllCorrect, PTL

(***************************************************************************)
(* The headers tell a receiver where it is, for every input, every size of *)
(* the numbers and of the timestamps, and every frame rate.                *)
(***************************************************************************)
THEOREM HeadersCorrect == Spec => []HeadersTell
<1>1. AllInv => HeadersTell
      BY HeadersInvTells DEF AllInv
<1> QED BY <1>1, AllCorrect, PTL

(***************************************************************************)
(* Loss and reordering damage only what they hit, for every input and      *)
(* every order of the packets, and no packet is written twice.             *)
(***************************************************************************)
THEOREM DamageCorrect == Spec => []DamageIsConfined
<1>1. AllInv => DamageIsConfined
      BY DamageInvConfines DEF AllInv
<1> QED BY <1>1, AllCorrect, PTL
=============================================================================
