----------------------- MODULE L4SInterceptorProofs -----------------------
(***************************************************************************)
(* Proofs about EcnConn and L4SInterceptor, for every number of writers,   *)
(* packets, streams and calls of BindRemoteStream: the type invariant,     *)
(* that a packet to a peer of the socket's family leaves with a codepoint  *)
(* that its writer or a call beside it asked for and one to another family *)
(* as Not-ECT, and that every mark is told once.                           *)
(***************************************************************************)
EXTENDS L4SInterceptor, SequenceTheorems, TLAPS

(* A packet that another packet's removal leaves is one that was there.    *)
LEMMA RemoveAtProperties ==
    ASSUME NEW S, NEW seq \in Seq(S), NEW k \in 1 .. Len(seq)
    PROVE  RemoveAt(seq, k) \in Seq(S)
<1>1. \A i \in 1 .. Len(seq) : seq[i] \in S
      BY ElementOfSeq
<1>2. SubSeq(seq, 1, k - 1) \in Seq(S)
      BY <1>1, SubSeqProperties, LenProperties
<1>3. SubSeq(seq, k + 1, Len(seq)) \in Seq(S)
      BY <1>1, SubSeqProperties, LenProperties
<1> QED BY <1>2, <1>3, ConcatProperties DEF RemoveAt

-----------------------------------------------------------------------------
(* The socket.                                                             *)

Kept(p, own) ==
    IF p.peer = own
    THEN p.ecn \in {p.asked} \cup p.beside \/ p.marked
    ELSE p.ecn = NotECT

WritersOK ==
    /\ isIPv6 \in BOOLEAN
    /\ option \in [Families -> ECN]
    /\ defaultECN \in ECN
    /\ call \in [Writers -> {"idle", "tos", "set", "write"}]
    /\ asked \in [Writers -> ECN \cup {NoECN}]
    /\ \A w \in Writers : asked[w] = NoECN <=> call[w] = "idle"
    /\ beside \in [Writers -> SUBSET ECN]
    /\ written \in 0 .. MaxPackets
    /\ hearsV6 \in BOOLEAN

(* Two calls that overlap know of each other.                              *)
OverlapInv ==
    \A v, w \in Busy : v # w => asked[v] \in beside[w]

(* A writer finds on the socket what it asked for, or a call beside it,    *)
(* and for the other family what was there at the beginning.               *)
OptionInv ==
    /\ \A w \in Writers : call[w] = "write" => option[Own] \in {asked[w]} \cup beside[w]
    /\ \A f \in Families : f # Own => option[f] = NotECT

FlightInv ==
    /\ flight \in Seq(Packet)
    /\ \A k \in 1 .. Len(flight) : Kept(flight[k], Own)

ConnInv == WritersOK /\ OverlapInv /\ OptionInv /\ FlightInv

(* No write is under way at the beginning.                                 *)
LEMMA ConnInvInit == ConnInit => ConnInv
<1> SUFFICES ASSUME ConnInit PROVE ConnInv
    OBVIOUS
<1>1. flight = << >> /\ << >> \in Seq(Packet) /\ Len(<< >>) = 0
      BY EmptySeq DEF ConnInit
<1>2. 0 \in 0 .. MaxPackets
      BY EcnConnAssumption
<1>3. option \in [Families -> ECN]
      BY DEF ConnInit, ECN, NotECT, ECT1
<1>4. WritersOK
      BY <1>2, <1>3 DEF ConnInit, WritersOK, ECN, NoECN, ECT1
<1>5. OverlapInv /\ OptionInv
  <2>1. \A f \in Families : f # Own => option[f] = NotECT
        BY DEF ConnInit
  <2> QED BY <2>1 DEF ConnInit, OverlapInv, OptionInv, Busy
<1> QED BY <1>1, <1>4, <1>5 DEF ConnInv, FlightInv

(* The lower two bits of a value are a codepoint.                          *)
LEMMA CodepointType == \A tos \in TOSValues : Codepoint(tos) \in ECN
<1> SUFFICES ASSUME NEW tos \in TOSValues PROVE Codepoint(tos) \in ECN
    OBVIOUS
<1>1. tos \in 0 .. 255
      BY EcnConnAssumption
<1>2. tos % 4 \in 0 .. 3
      BY <1>1
<1> QED BY <1>2 DEF Codepoint, ECN, NotECT, ECT1, ECT0, CE

(* The codepoints of calls under way are codepoints.                       *)
LEMMA BusyAsked ==
    ASSUME WritersOK, NEW w \in Busy
    PROVE  w \in Writers /\ asked[w] \in ECN /\ asked[w] # NoECN
BY DEF WritersOK, Busy

(* A call that begins, and those beside it, take note of each other.       *)
LEMMA BeginKeeps ==
    ASSUME ConnInv, NEW w \in Writers, NEW ecn \in ECN,
           NEW step \in {"tos", "set"}, Begin(w, step, ecn), defaultECN' \in ECN
    PROVE  ConnInv'
<1> DEFINE among == {asked[u] : u \in Busy}
<1>1. among \in SUBSET ECN
      BY BusyAsked DEF ConnInv
<1>2. /\ call[w] = "idle" /\ w \notin Busy
      /\ call' = [call EXCEPT ![w] = step]
      /\ asked' = [asked EXCEPT ![w] = ecn]
      /\ beside' = [v \in Writers |-> IF v = w THEN among
                                      ELSE IF v \in Busy THEN beside[v] \cup {ecn}
                                      ELSE beside[v]]
      /\ UNCHANGED <<isIPv6, option, written, flight, hearsV6>>
      BY DEF Begin, Busy
<1> HIDE DEF among
<1>3. beside' \in [Writers -> SUBSET ECN]
      BY <1>1, <1>2 DEF ConnInv, WritersOK
<1>4. ecn # NoECN /\ step # "idle"
      BY DEF ECN, NoECN, NotECT, ECT1, ECT0, CE
<1>5. WritersOK'
      BY <1>2, <1>3, <1>4 DEF ConnInv, WritersOK
<1>6. Busy' = Busy \cup {w}
      BY <1>2, <1>4 DEF ConnInv, WritersOK, Busy
<1>7. \A v \in Busy : /\ v \in Writers /\ v # w /\ asked'[v] = asked[v]
                      /\ beside'[v] = beside[v] \cup {ecn} /\ asked[v] \in among
      BY <1>2 DEF ConnInv, WritersOK, Busy, among
<1>8. asked'[w] = ecn /\ beside'[w] = among
      BY <1>2 DEF ConnInv, WritersOK
<1>9. OverlapInv'
      BY <1>6, <1>7, <1>8 DEF ConnInv, OverlapInv
<1>10. OptionInv'
  <2> SUFFICES ASSUME NEW v \in Writers, call'[v] = "write"
               PROVE  option[Own] \in {asked'[v]} \cup beside'[v]
      BY <1>2 DEF ConnInv, OptionInv, Own
  <2>1. v # w /\ call[v] = "write"
        BY <1>2 DEF ConnInv, WritersOK
  <2>2. v \in Busy
        BY <2>1 DEF Busy
  <2> QED BY <2>1, <2>2, <1>7 DEF ConnInv, OptionInv
<1>11. FlightInv'
       BY <1>2 DEF ConnInv, FlightInv, Own
<1> QED BY <1>5, <1>9, <1>10, <1>11 DEF ConnInv

(* A call that returns is beside nobody any more.                          *)
LEMMA ReturnKeeps ==
    ASSUME WritersOK, OverlapInv, NEW w \in Writers, Return(w)
    PROVE  /\ call' \in [Writers -> {"idle", "tos", "set", "write"}]
           /\ asked' \in [Writers -> ECN \cup {NoECN}]
           /\ \A v \in Writers : asked'[v] = NoECN <=> call'[v] = "idle"
           /\ beside' \in [Writers -> SUBSET ECN]
           /\ OverlapInv'
           /\ call'[w] = "idle"
           /\ \A v \in Writers \ {w} : /\ call'[v] = call[v] /\ asked'[v] = asked[v]
                                       /\ beside'[v] = beside[v]
<1>1. /\ call'[w] = "idle" /\ asked'[w] = NoECN
      /\ \A v \in Writers \ {w} : /\ call'[v] = call[v] /\ asked'[v] = asked[v]
                                  /\ beside'[v] = beside[v]
      BY DEF Return, WritersOK
<1>2. /\ call' \in [Writers -> {"idle", "tos", "set", "write"}]
      /\ asked' \in [Writers -> ECN \cup {NoECN}]
      /\ beside' \in [Writers -> SUBSET ECN]
      BY DEF Return, WritersOK
<1>3. \A v \in Writers : asked'[v] = NoECN <=> call'[v] = "idle"
      BY <1>1 DEF WritersOK
<1>4. Busy' = Busy \ {w}
      BY <1>1 DEF Busy
<1>5. OverlapInv'
      BY <1>1, <1>4 DEF OverlapInv, Busy
<1> QED BY <1>1, <1>2, <1>3, <1>5

(* The option is set to what a call asked that all others know of.         *)
LEMMA SetTOSKeeps == ASSUME ConnInv, NEW w \in Writers, SetTOS(w) PROVE ConnInv'
<1>1. /\ w \in Busy /\ asked[w] \in ECN /\ asked[w] # NoECN
      /\ option' = [option EXCEPT ![Own] = asked[w]]
      /\ UNCHANGED <<isIPv6, defaultECN, written, flight, hearsV6>>
      BY DEF ConnInv, WritersOK, SetTOS, Busy
<1>2. Own \in Families /\ Own' = Own
      BY <1>1 DEF Own, Families
<1>3. /\ option' \in [Families -> ECN] /\ option'[Own'] = asked[w]
      /\ \A f \in Families : f # Own' => option'[f] = NotECT
      BY <1>1, <1>2 DEF ConnInv, WritersOK, OptionInv
<1>4. FlightInv'
      BY <1>1, <1>2 DEF ConnInv, FlightInv
<1>5. \A v \in Writers : v # w /\ call[v] = "write" => option'[Own'] \in beside[v]
      BY <1>1, <1>3 DEF ConnInv, OverlapInv, Busy
<1>6. CASE call[w] = "tos"
  <2>1. call' = [call EXCEPT ![w] = "write"] /\ UNCHANGED <<asked, beside>>
        BY <1>6 DEF SetTOS
  <2>2. WritersOK'
        BY <1>1, <1>3, <1>6, <2>1 DEF ConnInv, WritersOK
  <2>3. Busy' = Busy
        BY <1>6, <2>1 DEF ConnInv, WritersOK, Busy
  <2>4. OverlapInv'
        BY <2>1, <2>3 DEF ConnInv, OverlapInv
  <2>5. OptionInv'
        BY <1>3, <1>5, <2>1 DEF ConnInv, WritersOK, OptionInv
  <2> QED BY <1>4, <2>2, <2>4, <2>5 DEF ConnInv
<1>7. CASE call[w] = "set"
  <2>1. Return(w) /\ WritersOK /\ OverlapInv
        BY <1>7 DEF SetTOS, ConnInv
  <2>2. WritersOK' /\ OverlapInv'
        BY <1>1, <1>3, <2>1, ReturnKeeps DEF WritersOK
  <2>3. OptionInv'
        BY <1>3, <1>5, <2>1, ReturnKeeps DEF OptionInv
  <2> QED BY <1>4, <2>2, <2>3 DEF ConnInv
<1> QED BY <1>6, <1>7 DEF SetTOS

(* A setsockopt that fails changes nothing for the others.                 *)
LEMMA SetTOSFailsKeeps == ASSUME ConnInv, NEW w \in Writers, SetTOSFails(w) PROVE ConnInv'
<1>1. /\ Return(w) /\ WritersOK /\ OverlapInv
      /\ UNCHANGED <<isIPv6, option, defaultECN, written, flight, hearsV6>>
      BY DEF SetTOSFails, ConnInv
<1>2. WritersOK' /\ OverlapInv'
      BY <1>1, ReturnKeeps DEF WritersOK
<1>3. OptionInv' /\ FlightInv'
      BY <1>1, ReturnKeeps DEF ConnInv, OptionInv, FlightInv, Own
<1> QED BY <1>2, <1>3 DEF ConnInv

(* A packet leaves with what the writer finds on the socket.               *)
LEMMA WriteKeeps ==
    ASSUME ConnInv, NEW w \in Writers, NEW peer \in Families, Write(w, peer)
    PROVE  ConnInv'
<1> DEFINE p == [ecn |-> option[peer], peer |-> peer, asked |-> asked[w],
                 beside |-> beside[w], marked |-> FALSE]
<1>1. /\ Return(w) /\ WritersOK /\ OverlapInv /\ call[w] = "write" /\ written < MaxPackets
      /\ written' = written + 1 /\ flight' = Append(flight, p)
      /\ UNCHANGED <<isIPv6, option, defaultECN, hearsV6>>
      BY DEF Write, ConnInv
<1>2. asked[w] \in ECN
      BY <1>1 DEF WritersOK
<1>3. p \in Packet
      BY <1>1, <1>2 DEF Packet, WritersOK
<1>4. Kept(p, Own)
      BY <1>1 DEF Kept, ConnInv, OptionInv
<1> HIDE DEF p
<1>5. written' \in 0 .. MaxPackets
      BY <1>1, EcnConnAssumption DEF WritersOK
<1>6. WritersOK' /\ OverlapInv'
      BY <1>1, <1>5, ReturnKeeps DEF WritersOK
<1>7. OptionInv'
      BY <1>1, ReturnKeeps DEF ConnInv, OptionInv, Own
<1>8. FlightInv'
  <2>1. /\ flight' \in Seq(Packet) /\ Len(flight') = Len(flight) + 1
        /\ flight'[Len(flight) + 1] = p
        /\ \A k \in 1 .. Len(flight) : flight'[k] = flight[k]
        BY <1>1, <1>3, AppendProperties DEF ConnInv, FlightInv
  <2>2. \A k \in 1 .. Len(flight') : k \in 1 .. Len(flight) \/ k = Len(flight) + 1
        BY <2>1, LenProperties DEF ConnInv, FlightInv
  <2>3. Own' = Own
        BY <1>1 DEF Own
  <2> QED BY <1>4, <2>1, <2>2, <2>3 DEF ConnInv, FlightInv
<1> QED BY <1>6, <1>7, <1>8 DEF ConnInv

(* The network only turns an ECN-capable packet into a marked one.         *)
LEMMA MarkKeeps == ASSUME ConnInv, NEW k \in DOMAIN flight, Mark(k) PROVE ConnInv'
<1>1. k \in 1 .. Len(flight) /\ flight[k] \in Packet
      BY LenProperties, ElementOfSeq DEF ConnInv, FlightInv
<1> DEFINE p == [flight[k] EXCEPT !.ecn = CE, !.marked = TRUE]
<1>2. p \in Packet /\ p.marked /\ p.peer = flight[k].peer
      BY <1>1 DEF Packet, ECN
<1>3. flight[k].peer = Own
      BY <1>1 DEF Mark, ConnInv, FlightInv, Kept, NotECT, ECT1, ECT0
<1>4. Kept(p, Own)
      BY <1>2, <1>3 DEF Kept
<1>5. /\ flight' = [flight EXCEPT ![k] = p]
      /\ UNCHANGED <<isIPv6, option, defaultECN, call, asked, beside, written, hearsV6>>
      BY DEF Mark
<1> HIDE DEF p
<1>6. flight' \in Seq(Packet) /\ Len(flight') = Len(flight)
      BY <1>1, <1>2, <1>5, ExceptSeq DEF ConnInv, FlightInv
<1>7. \A j \in 1 .. Len(flight) : flight'[j] = IF j = k THEN p ELSE flight[j]
      BY <1>1, <1>5, LenProperties DEF ConnInv, FlightInv
<1>8. FlightInv'
      BY <1>4, <1>5, <1>6, <1>7 DEF ConnInv, FlightInv, Own
<1> QED BY <1>5, <1>8 DEF ConnInv, WritersOK, OverlapInv, OptionInv, Busy, Own

(* A packet that is read leaves the flight.                                *)
LEMMA ReadKeeps == ASSUME ConnInv, NEW k \in DOMAIN flight, ReadMsgUDP(k) PROVE ConnInv'
<1> DEFINE S == {p \in Packet : Kept(p, Own)}
<1>1. k \in 1 .. Len(flight) /\ Len(flight) \in Nat
      BY LenProperties DEF ConnInv, FlightInv
<1>2. flight \in Seq(S)
  <2>1. \A j \in 1 .. Len(flight) : flight[j] \in S
        BY ElementOfSeq DEF ConnInv, FlightInv
  <2>2. flight = [j \in 1 .. Len(flight) |-> flight[j]]
        BY LenProperties DEF ConnInv, FlightInv
  <2> HIDE DEF S
  <2> QED BY <1>1, <2>1, <2>2
<1>3. flight' \in Seq(S)
      BY <1>1, <1>2, RemoveAtProperties DEF ReadMsgUDP
<1>4. \A j \in 1 .. Len(flight') : flight'[j] \in S
      BY <1>3, ElementOfSeq
<1>5. flight' \in Seq(Packet)
      BY <1>3, SeqMonotonic
<1>6. FlightInv'
      BY <1>4, <1>5 DEF FlightInv, ReadMsgUDP, Own
<1> QED BY <1>6 DEF ReadMsgUDP, ConnInv, WritersOK, OverlapInv, OptionInv, Busy, Own

(* Every step keeps the invariant of the connection.                       *)
LEMMA ConnInvNext == ConnInv /\ [ConnNext]_connVars => ConnInv'
<1> SUFFICES ASSUME ConnInv, [ConnNext]_connVars PROVE ConnInv'
    OBVIOUS
<1>1. CASE UNCHANGED connVars
      BY <1>1 DEF connVars, ConnInv, WritersOK, OverlapInv, OptionInv, FlightInv, Busy, Own
<1>2. ASSUME NEW w \in Writers,
             \/ \E tos \in TOSValues :
                   WriteMsgUDP(w, tos) \/ SetDefaultECN(w, tos) \/ CallSetTOS(w, tos)
             \/ WriteToUDP(w) \/ SetTOS(w) \/ SetTOSFails(w)
             \/ \E peer \in Families : Write(w, peer)
      PROVE  ConnInv'
  <2>0. defaultECN \in ECN
        BY DEF ConnInv, WritersOK
  <2>1. ASSUME NEW tos \in TOSValues, WriteMsgUDP(w, tos) PROVE ConnInv'
        BY <2>0, <2>1, BeginKeeps, CodepointType DEF WriteMsgUDP
  <2>2. ASSUME NEW tos \in TOSValues, SetDefaultECN(w, tos) PROVE ConnInv'
        BY <2>2, BeginKeeps, CodepointType DEF SetDefaultECN
  <2>3. ASSUME NEW tos \in TOSValues, CallSetTOS(w, tos) PROVE ConnInv'
        BY <2>0, <2>3, BeginKeeps, CodepointType DEF CallSetTOS
  <2>4. CASE WriteToUDP(w)
        BY <2>0, <2>4, BeginKeeps DEF WriteToUDP
  <2> QED BY <1>2, <2>1, <2>2, <2>3, <2>4, SetTOSKeeps, SetTOSFailsKeeps, WriteKeeps
<1>3. ASSUME NEW k \in DOMAIN flight, Mark(k) \/ ReadMsgUDP(k) PROVE ConnInv'
      BY <1>3, MarkKeeps, ReadKeeps
<1> QED BY <1>1, <1>2, <1>3 DEF ConnNext, ConnWrites

(* The interceptor behind the socket does not change what the socket does. *)
LEMMA InterceptorStep == [Next]_vars => [ConnNext]_connVars
BY DEF Next, vars, ConnNext, BindRemoteStream, UnbindRemoteStream, GetTracker, OnFeedback,
       Reset, Receive

(***************************************************************************)
(* A packet to a peer of the socket's own family leaves with a codepoint   *)
(* that its writer asked for or a call that overlaps it, one to another    *)
(* family as Not-ECT, for any number of writers, on an IPv4 or an IPv6     *)
(* socket, whatever the interceptor behind it does.                        *)
(***************************************************************************)
THEOREM CodepointCorrect == Spec => []CodepointIsAsked
<1>1. Init => ConnInv
      BY ConnInvInit DEF Init
<1>2. ConnInv => CodepointIsAsked
  <2> SUFFICES ASSUME ConnInv, NEW k \in DOMAIN flight PROVE Kept(flight[k], Own)
      BY DEF CodepointIsAsked, Kept
  <2> QED BY LenProperties DEF ConnInv, FlightInv
<1> QED BY <1>1, <1>2, ConnInvNext, InterceptorStep, PTL DEF Spec

-----------------------------------------------------------------------------
(* The trackers.                                                           *)

(* A tracker appended to a function on 1 .. n makes one on 1 .. n + 1.     *)
LEMMA AppendTracker ==
    ASSUME NEW S, NEW n \in Nat, NEW f \in [1 .. n -> S], NEW e \in S
    PROVE  Append(f, e) = [t \in 1 .. n + 1 |-> IF t = n + 1 THEN e ELSE f[t]]
<1>1. f \in Seq(S) /\ Len(f) = n
      OBVIOUS
<1>2. Append(f, e) \in Seq(S) /\ Len(Append(f, e)) = n + 1
      BY <1>1, AppendProperties
<1>3. /\ \A t \in 1 .. Len(f) : Append(f, e)[t] = f[t]
      /\ Append(f, e)[Len(f) + 1] = e
      BY <1>1, AppendProperties
<1>4. DOMAIN Append(f, e) = 1 .. n + 1
      BY <1>2, LenProperties
<1>5. \A t \in 1 .. n + 1 : t = n + 1 \/ t \in 1 .. n
      OBVIOUS
<1>6. \A t \in 1 .. n + 1 : Append(f, e)[t] = IF t = n + 1 THEN e ELSE f[t]
      BY <1>1, <1>3, <1>5
<1>7. Append(f, e) \in [1 .. n + 1 -> S]
      BY <1>2, LenProperties
<1> QED BY <1>6, <1>7

TrackersOK ==
    /\ onFeedback \in BOOLEAN
    /\ stream \in Seq(SSRCs) /\ Len(stream) <= MaxBinds
    /\ trackers \in [SSRCs -> Bound \cup {NoTracker}]
    /\ counts \in [Bound -> Counts]
    /\ totalPackets \in [Bound -> Nat]
    /\ reading \in [Bound -> {"read", "feedback"}]
    /\ held \subseteq Bound
    /\ taken \in [Bound -> Counts]
    /\ got \in [Bound -> Counts]
    /\ feedback \in [Bound -> Nat]

(* What CountsAreKept says of one tracker.                                 *)
Told(count, total, took, heard) ==
    /\ \A e \in ECN : count[e] + took[e] = heard[e]
    /\ total = count[NotECT] + count[ECT1] + count[ECT0] + count[CE]

(* What MarksReachTheCallback says of one tracker with marks marks.        *)
Called(phase, marks, calls, isHeld) ==
    IF onFeedback
    THEN /\ calls + (IF phase = "feedback" THEN 1 ELSE 0) = marks
         /\ marks > 0 => isHeld \/ phase = "feedback"
    ELSE calls = 0 /\ phase = "read"

AllTold == \A t \in Bound : Told(counts[t], totalPackets[t], taken[t], got[t])
AllCalled == \A t \in Bound : Called(reading[t], got[t][CE], feedback[t], t \in held)
AllFound == \A s \in SSRCs : NewestIsFound(s)

(* The property, part by part.                                             *)
LEMMA MarksAreToldParts == MarksAreTold <=> AllTold /\ AllCalled /\ AllFound
BY DEF MarksAreTold, CountsAreKept, MarksReachTheCallback, AllTold, AllCalled, AllFound,
       Told, Called

(* A packet that is recorded.                                              *)
LEMMA ToldRecord ==
    ASSUME NEW count \in Counts, NEW took \in Counts, NEW heard \in Counts, NEW total \in Nat,
           NEW e \in ECN, Told(count, total, took, heard)
    PROVE  Told([count EXCEPT ![e] = @ + 1], total + 1, took, [heard EXCEPT ![e] = @ + 1])
<1> USE DEF ECN, NotECT, ECT1, ECT0, CE
<1>1. count \in [ECN -> Nat] /\ took \in [ECN -> Nat] /\ heard \in [ECN -> Nat]
      BY DEF Counts
<1>2. \A f \in ECN : /\ [count EXCEPT ![e] = @ + 1][f] = count[f] + IF f = e THEN 1 ELSE 0
                     /\ [heard EXCEPT ![e] = @ + 1][f] = heard[f] + IF f = e THEN 1 ELSE 0
      BY <1>1
<1>3. \A f \in ECN : count[f] \in Nat /\ took[f] \in Nat /\ heard[f] \in Nat
      BY <1>1
<1>4. CASE e = NotECT
      BY <1>2, <1>3, <1>4 DEF Told
<1>5. CASE e = ECT1
      BY <1>2, <1>3, <1>5 DEF Told
<1>6. CASE e = ECT0
      BY <1>2, <1>3, <1>6 DEF Told
<1>7. CASE e = CE
      BY <1>2, <1>3, <1>7 DEF Told
<1> QED BY <1>4, <1>5, <1>6, <1>7

(* A reset.                                                                *)
LEMMA ToldReset ==
    ASSUME NEW count \in Counts, NEW took \in Counts, NEW heard \in Counts, NEW total \in Nat,
           Told(count, total, took, heard)
    PROVE  Told(Zero, 0, [e \in ECN |-> took[e] + count[e]], heard)
<1>1. \A e \in ECN : count[e] \in Nat /\ took[e] \in Nat /\ heard[e] \in Nat
      BY DEF Counts
<1>2. {NotECT, ECT1, ECT0, CE} \subseteq ECN
      BY DEF ECN
<1> QED BY <1>1, <1>2 DEF Told, Zero

-----------------------------------------------------------------------------

TrackInv == TrackersOK /\ AllTold /\ AllCalled /\ AllFound

(* There is no tracker at the beginning.                                   *)
LEMMA TrackInvInit == Init => TrackInv
<1>1. << >> \in Seq(SSRCs) /\ Len(<< >>) = 0
      BY EmptySeq
<1>2. SUFFICES ASSUME Init PROVE TrackInv
      OBVIOUS
<1>3. Bound = {}
      BY <1>1, <1>2 DEF Init, Bound
<1>4. \A S : << >> \in [{} -> S]
      OBVIOUS
<1> QED BY <1>1, <1>2, <1>3, <1>4, InterceptorAssumption
        DEF Init, TrackInv, TrackersOK, AllTold, AllCalled, AllFound, NewestIsFound

(* The tracker that a bind makes is new; the others are what they were.    *)
LEMMA BindKeeps == ASSUME TrackInv, NEW s \in SSRCs, BindRemoteStream(s) PROVE TrackInv'
<1>1. PICK n \in Nat : n = Len(stream) /\ Bound = 1 .. n
      BY LenProperties DEF TrackInv, TrackersOK, Bound
<1>2. stream' \in Seq(SSRCs) /\ Len(stream') = n + 1 /\ Len(stream') <= MaxBinds
      BY <1>1, AppendProperties, InterceptorAssumption DEF BindRemoteStream, TrackInv, TrackersOK
<1>3. Bound' = 1 .. n + 1 /\ n + 1 \in Bound'
      BY <1>1, <1>2 DEF Bound
<1>4. trackers' \in [SSRCs -> Bound' \cup {NoTracker}]
      BY <1>1, <1>2, <1>3 DEF BindRemoteStream, TrackInv, TrackersOK
<1>5. Zero \in Counts
      BY DEF Zero, Counts
<1>6. /\ counts' \in [Bound' -> Counts] /\ counts'[n + 1] = Zero
      /\ \A t \in 1 .. n : counts'[t] = counts[t]
  <2>1. counts \in [1 .. n -> Counts] /\ counts' = Append(counts, Zero)
        BY <1>1 DEF BindRemoteStream, TrackInv, TrackersOK
  <2>2. n \in Nat /\ Zero \in Counts
        BY <1>1, <1>5
  <2>3. counts' = [t \in 1 .. n + 1 |-> IF t = n + 1 THEN Zero ELSE counts[t]]
        BY <2>1, <2>2, AppendTracker
  <2> QED BY <2>1, <2>2, <2>3, <1>3
<1>7. /\ taken' \in [Bound' -> Counts] /\ taken'[n + 1] = Zero
      /\ \A t \in 1 .. n : taken'[t] = taken[t]
  <2>1. taken \in [1 .. n -> Counts] /\ taken' = Append(taken, Zero)
        BY <1>1 DEF BindRemoteStream, TrackInv, TrackersOK
  <2>2. n \in Nat /\ Zero \in Counts
        BY <1>1, <1>5
  <2>3. taken' = [t \in 1 .. n + 1 |-> IF t = n + 1 THEN Zero ELSE taken[t]]
        BY <2>1, <2>2, AppendTracker
  <2> QED BY <2>1, <2>2, <2>3, <1>3
<1>8. /\ got' \in [Bound' -> Counts] /\ got'[n + 1] = Zero
      /\ \A t \in 1 .. n : got'[t] = got[t]
  <2>1. got \in [1 .. n -> Counts] /\ got' = Append(got, Zero)
        BY <1>1 DEF BindRemoteStream, TrackInv, TrackersOK
  <2>2. n \in Nat /\ Zero \in Counts
        BY <1>1, <1>5
  <2>3. got' = [t \in 1 .. n + 1 |-> IF t = n + 1 THEN Zero ELSE got[t]]
        BY <2>1, <2>2, AppendTracker
  <2> QED BY <2>1, <2>2, <2>3, <1>3
<1>9. /\ totalPackets' \in [Bound' -> Nat] /\ totalPackets'[n + 1] = 0
      /\ \A t \in 1 .. n : totalPackets'[t] = totalPackets[t]
  <2> DEFINE S == Nat
  <2>1. PICK z \in S : z = 0 /\ totalPackets \in [1 .. n -> S] /\ totalPackets' = Append(totalPackets, z)
        BY <1>1 DEF BindRemoteStream, TrackInv, TrackersOK
  <2> HIDE DEF S
  <2>2. totalPackets' = [t \in 1 .. n + 1 |-> IF t = n + 1 THEN z ELSE totalPackets[t]]
        BY <2>1, <1>1, AppendTracker
  <2>3. /\ totalPackets'[n + 1] = z
        /\ \A t \in 1 .. n : totalPackets'[t] = totalPackets[t]
        BY <2>2, <1>1
  <2>4. totalPackets' \in [1 .. n + 1 -> S]
    <3>1. \A t \in 1 .. n : totalPackets[t] \in S
          BY <2>1
    <3>2. \A t \in 1 .. n + 1 : t = n + 1 \/ t \in 1 .. n
          BY <1>1
    <3>3. \A t \in 1 .. n + 1 : (IF t = n + 1 THEN z ELSE totalPackets[t]) \in S
          BY <2>1, <3>1, <3>2
    <3> QED BY <2>2, <3>3
  <2> QED BY <2>1, <2>3, <2>4, <1>3 DEF S
<1>10. /\ feedback' \in [Bound' -> Nat] /\ feedback'[n + 1] = 0
       /\ \A t \in 1 .. n : feedback'[t] = feedback[t]
  <2> DEFINE S == Nat
  <2>1. PICK z \in S : z = 0 /\ feedback \in [1 .. n -> S] /\ feedback' = Append(feedback, z)
        BY <1>1 DEF BindRemoteStream, TrackInv, TrackersOK
  <2> HIDE DEF S
  <2>2. feedback' = [t \in 1 .. n + 1 |-> IF t = n + 1 THEN z ELSE feedback[t]]
        BY <2>1, <1>1, AppendTracker
  <2>3. /\ feedback'[n + 1] = z
        /\ \A t \in 1 .. n : feedback'[t] = feedback[t]
        BY <2>2, <1>1
  <2>4. feedback' \in [1 .. n + 1 -> S]
    <3>1. \A t \in 1 .. n : feedback[t] \in S
          BY <2>1
    <3>2. \A t \in 1 .. n + 1 : t = n + 1 \/ t \in 1 .. n
          BY <1>1
    <3>3. \A t \in 1 .. n + 1 : (IF t = n + 1 THEN z ELSE feedback[t]) \in S
          BY <2>1, <3>1, <3>2
    <3> QED BY <2>2, <3>3
  <2> QED BY <2>1, <2>3, <2>4, <1>3 DEF S
<1>11. /\ reading' \in [Bound' -> {"read", "feedback"}] /\ reading'[n + 1] = "read"
       /\ \A t \in 1 .. n : reading'[t] = reading[t]
  <2> DEFINE S == {"read", "feedback"}
  <2>1. PICK z \in S : z = "read" /\ reading \in [1 .. n -> S] /\ reading' = Append(reading, z)
        BY <1>1 DEF BindRemoteStream, TrackInv, TrackersOK
  <2> HIDE DEF S
  <2>2. reading' = [t \in 1 .. n + 1 |-> IF t = n + 1 THEN z ELSE reading[t]]
        BY <2>1, <1>1, AppendTracker
  <2>3. /\ reading'[n + 1] = z
        /\ \A t \in 1 .. n : reading'[t] = reading[t]
        BY <2>2, <1>1
  <2>4. reading' \in [1 .. n + 1 -> S]
    <3>1. \A t \in 1 .. n : reading[t] \in S
          BY <2>1
    <3>2. \A t \in 1 .. n + 1 : t = n + 1 \/ t \in 1 .. n
          BY <1>1
    <3>3. \A t \in 1 .. n + 1 : (IF t = n + 1 THEN z ELSE reading[t]) \in S
          BY <2>1, <3>1, <3>2
    <3> QED BY <2>2, <3>3
  <2> QED BY <2>1, <2>3, <2>4, <1>3 DEF S
<1>12. Told(Zero, 0, Zero, Zero) /\ Zero[CE] = 0
       BY DEF Told, Zero, ECN
<1>13. UNCHANGED <<onFeedback, held>> /\ held \subseteq 1 .. n
       BY <1>1 DEF BindRemoteStream, TrackInv, TrackersOK
<1>14. AllTold'
  <2> SUFFICES ASSUME NEW t \in Bound'
               PROVE  Told(counts'[t], totalPackets'[t], taken'[t], got'[t])
      BY DEF AllTold, Told
  <2>1. CASE t = n + 1
        BY <2>1, <1>6, <1>7, <1>8, <1>9, <1>12
  <2>2. CASE t # n + 1
    <3>1. t \in 1 .. n /\ t \in Bound
          BY <1>1, <1>3, <2>2
    <3> QED BY <3>1, <1>6, <1>7, <1>8, <1>9 DEF TrackInv, AllTold
  <2> QED BY <2>1, <2>2
<1>15. AllCalled'
  <2> SUFFICES ASSUME NEW t \in Bound'
               PROVE  Called(reading'[t], got'[t][CE], feedback'[t], t \in held)
      BY <1>13 DEF AllCalled, Called
  <2>1. CASE t = n + 1
        BY <2>1, <1>8, <1>10, <1>11, <1>12 DEF Called
  <2>2. CASE t # n + 1
    <3>1. t \in 1 .. n /\ t \in Bound
          BY <1>1, <1>3, <2>2
    <3> QED BY <3>1, <1>8, <1>10, <1>11 DEF TrackInv, AllCalled
  <2> QED BY <2>1, <2>2
<1>16. AllFound'
  <2> SUFFICES ASSUME NEW r \in SSRCs, trackers'[r] # NoTracker
               PROVE  /\ stream'[trackers'[r]] = r
                      /\ \A t \in Bound' : stream'[t] = r => t <= trackers'[r]
      BY DEF AllFound, NewestIsFound
  <2>1. stream'[n + 1] = s /\ \A t \in 1 .. n : stream'[t] = stream[t]
        BY <1>1, AppendProperties DEF BindRemoteStream, TrackInv, TrackersOK
  <2>2. CASE r = s
    <3>1. trackers'[r] = n + 1
          BY <1>2, <2>2 DEF BindRemoteStream, TrackInv, TrackersOK
    <3> QED BY <3>1, <2>1, <2>2, <1>1, <1>3
  <2>3. CASE r # s
    <3>1. trackers'[r] = trackers[r] /\ trackers[r] \in 1 .. n
          BY <1>1, <2>3 DEF BindRemoteStream, TrackInv, TrackersOK
    <3>2. stream[trackers[r]] = r /\ \A t \in 1 .. n : stream[t] = r => t <= trackers[r]
          BY <3>1, <1>1 DEF TrackInv, AllFound, NewestIsFound
    <3>3. \A t \in Bound' : t = n + 1 \/ t \in 1 .. n
          BY <1>1, <1>3
    <3> QED BY <3>1, <3>2, <3>3, <2>1, <2>3
  <2> QED BY <2>2, <2>3
<1>17. TrackersOK'
       BY <1>1, <1>2, <1>3, <1>4, <1>6, <1>7, <1>8, <1>9, <1>10, <1>11, <1>13
          DEF TrackInv, TrackersOK
<1> QED BY <1>14, <1>15, <1>16, <1>17 DEF TrackInv

(* A packet that is recorded is counted under its own codepoint.           *)
LEMMA RecordKeeps ==
    ASSUME TrackInv, NEW t \in Bound, NEW ecn \in ECN, Read(t, ecn)
    PROVE  TrackInv'
<1>1. Bound' = Bound
      BY DEF Read, Bound
<1>2. /\ counts[t] \in Counts /\ taken[t] \in Counts /\ got[t] \in Counts
      /\ totalPackets[t] \in Nat /\ feedback[t] \in Nat
      BY DEF TrackInv, TrackersOK
<1>3. /\ [counts[t] EXCEPT ![ecn] = @ + 1] \in Counts
      /\ [got[t] EXCEPT ![ecn] = @ + 1] \in Counts
      BY <1>2 DEF Counts
<1>4. /\ counts' = [counts EXCEPT ![t] = [counts[t] EXCEPT ![ecn] = @ + 1]]
      /\ got' = [got EXCEPT ![t] = [got[t] EXCEPT ![ecn] = @ + 1]]
      BY DEF Read, Record, TrackInv, TrackersOK
<1>5. TrackersOK'
      BY <1>1, <1>2, <1>3, <1>4 DEF Read, Record, TrackInv, TrackersOK
<1>6. /\ counts'[t] = [counts[t] EXCEPT ![ecn] = @ + 1]
      /\ got'[t] = [got[t] EXCEPT ![ecn] = @ + 1]
      /\ totalPackets'[t] = totalPackets[t] + 1
      /\ reading[t] = "read"
      /\ reading'[t] = IF ecn = CE /\ onFeedback THEN "feedback" ELSE "read"
      /\ \A u \in Bound \ {t} : /\ counts'[u] = counts[u] /\ got'[u] = got[u]
                                /\ totalPackets'[u] = totalPackets[u]
                                /\ reading'[u] = reading[u]
      /\ UNCHANGED <<onFeedback, trackers, stream, held, taken, feedback>>
      BY <1>4 DEF Read, Record, TrackInv, TrackersOK
<1>7. AllTold'
  <2>1. Told([counts[t] EXCEPT ![ecn] = @ + 1], totalPackets[t] + 1, taken[t],
             [got[t] EXCEPT ![ecn] = @ + 1])
    <3>1. Told(counts[t], totalPackets[t], taken[t], got[t])
          BY DEF TrackInv, AllTold
    <3> QED BY <1>2, <3>1, ToldRecord
  <2>2. \A u \in Bound \ {t} : Told(counts'[u], totalPackets'[u], taken'[u], got'[u])
        BY <1>6 DEF TrackInv, AllTold
  <2>3. Told(counts'[t], totalPackets'[t], taken'[t], got'[t])
        BY <1>6, <2>1
  <2> QED BY <2>2, <2>3, <1>1 DEF AllTold, Told
<1>8. AllCalled'
  <2>1. got'[t][CE] = got[t][CE] + (IF ecn = CE THEN 1 ELSE 0) /\ got[t][CE] \in Nat
        BY <1>2, <1>6 DEF Counts, ECN
  <2>2. Called("read", got[t][CE], feedback[t], t \in held)
        BY <1>6 DEF TrackInv, AllCalled
  <2>3. Called(reading'[t], got'[t][CE], feedback[t], t \in held)
        BY <1>2, <1>6, <2>1, <2>2 DEF Called
  <2>4. \A u \in Bound \ {t} : Called(reading'[u], got'[u][CE], feedback[u], u \in held)
        BY <1>6 DEF TrackInv, AllCalled
  <2> QED BY <1>1, <1>6, <2>3, <2>4 DEF AllCalled, Called
<1>9. AllFound'
      BY <1>1, <1>6 DEF TrackInv, AllFound, NewestIsFound
<1> QED BY <1>5, <1>7, <1>8, <1>9 DEF TrackInv

(* GetTracker gives out trackers and changes none.                         *)
LEMMA GetTrackerKeeps == ASSUME TrackInv, NEW s \in SSRCs, GetTracker(s) PROVE TrackInv'
<1>1. /\ Bound' = Bound /\ held' = held \cup {trackers[s]} /\ trackers[s] \in Bound
      /\ UNCHANGED <<onFeedback, trackers, stream, counts, totalPackets, reading, taken, got,
                     feedback>>
      BY DEF GetTracker, Bound, TrackInv, TrackersOK
<1>2. TrackersOK' /\ AllTold' /\ AllFound'
      BY <1>1 DEF TrackInv, TrackersOK, AllTold, Told, AllFound, NewestIsFound
<1>3. AllCalled'
      BY <1>1 DEF TrackInv, AllCalled, Called
<1> QED BY <1>2, <1>3 DEF TrackInv

(* A call of the callback gives it the tracker that has the mark.          *)
LEMMA FeedbackKeeps == ASSUME TrackInv, NEW t \in Bound, OnFeedback(t) PROVE TrackInv'
<1>1. /\ Bound' = Bound /\ held' = held \cup {t} /\ reading[t] = "feedback"
      /\ reading' = [reading EXCEPT ![t] = "read"]
      /\ feedback' = [feedback EXCEPT ![t] = @ + 1]
      /\ UNCHANGED <<onFeedback, trackers, stream, counts, totalPackets, taken, got>>
      BY DEF OnFeedback, Bound
<1>2. TrackersOK' /\ AllTold' /\ AllFound'
      BY <1>1 DEF TrackInv, TrackersOK, AllTold, Told, AllFound, NewestIsFound
<1>3. /\ reading'[t] = "read" /\ feedback'[t] = feedback[t] + 1 /\ feedback[t] \in Nat
      /\ \A u \in Bound \ {t} : reading'[u] = reading[u] /\ feedback'[u] = feedback[u]
      BY <1>1 DEF TrackInv, TrackersOK
<1>4. Called(reading'[t], got[t][CE], feedback'[t], t \in held')
      BY <1>1, <1>3 DEF TrackInv, AllCalled, Called
<1>5. \A u \in Bound \ {t} : Called(reading'[u], got[u][CE], feedback'[u], u \in held')
      BY <1>1, <1>3 DEF TrackInv, AllCalled, Called
<1>6. AllCalled'
      BY <1>1, <1>4, <1>5 DEF AllCalled, Called
<1> QED BY <1>2, <1>6 DEF TrackInv

(* A reset tracker counts nothing: who resets it is told.                  *)
LEMMA ResetKeeps == ASSUME TrackInv, NEW t \in Bound, Reset(t) PROVE TrackInv'
<1>1. Bound' = Bound
      BY DEF Reset, Bound
<1>2. /\ counts[t] \in Counts /\ taken[t] \in Counts /\ got[t] \in Counts
      /\ totalPackets[t] \in Nat
      BY DEF TrackInv, TrackersOK
<1>3. Zero \in Counts /\ [e \in ECN |-> taken[t][e] + counts[t][e]] \in Counts
      BY <1>2 DEF Zero, Counts
<1>4. taken' = [taken EXCEPT ![t] = [e \in ECN |-> taken[t][e] + counts[t][e]]]
      BY DEF Reset, TrackInv, TrackersOK
<1>5. TrackersOK'
      BY <1>1, <1>2, <1>3, <1>4 DEF Reset, TrackInv, TrackersOK
<1>6. AllTold'
  <2>1. Told(Zero, 0, [e \in ECN |-> taken[t][e] + counts[t][e]], got[t])
        BY <1>2, ToldReset DEF TrackInv, AllTold
  <2>2. Told(counts'[t], totalPackets'[t], taken'[t], got'[t])
        BY <1>4, <2>1 DEF Reset, TrackInv, TrackersOK
  <2>3. \A u \in Bound \ {t} : Told(counts'[u], totalPackets'[u], taken'[u], got'[u])
        BY <1>4 DEF Reset, TrackInv, TrackersOK, AllTold
  <2> QED BY <1>1, <2>2, <2>3 DEF AllTold, Told
<1>7. AllCalled' /\ AllFound'
      BY <1>1 DEF Reset, TrackInv, AllCalled, Called, AllFound, NewestIsFound
<1> QED BY <1>5, <1>6, <1>7 DEF TrackInv

(* A stream that is unbound is found no more, its tracker stays.           *)
LEMMA UnbindKeeps == ASSUME TrackInv, NEW s \in SSRCs, UnbindRemoteStream(s) PROVE TrackInv'
<1>1. /\ Bound' = Bound /\ trackers' = [trackers EXCEPT ![s] = NoTracker]
      /\ UNCHANGED <<onFeedback, stream, counts, totalPackets, reading, held, taken, got,
                     feedback>>
      BY DEF UnbindRemoteStream, Bound
<1>2. TrackersOK' /\ AllTold'
      BY <1>1 DEF TrackInv, TrackersOK, AllTold, Told
<1>3. AllCalled'
      BY <1>1 DEF TrackInv, AllCalled, Called
<1>4. AllFound'
      BY <1>1 DEF TrackInv, TrackersOK, AllFound, NewestIsFound
<1> QED BY <1>2, <1>3, <1>4 DEF TrackInv

(* A packet on its way has a codepoint, heard or not.                      *)
LEMMA ParsedIsECN == ConnInv => \A k \in DOMAIN flight : ParseECN(k) \in ECN
<1> SUFFICES ASSUME ConnInv, NEW k \in DOMAIN flight PROVE ParseECN(k) \in ECN
    OBVIOUS
<1>1. flight[k] \in Packet
      BY LenProperties, ElementOfSeq DEF ConnInv, FlightInv
<1> QED BY <1>1 DEF Packet, ParseECN, ECN

(* Every step keeps the invariant of the trackers.                         *)
LEMMA TrackInvNext == ConnInv /\ TrackInv /\ [Next]_vars => TrackInv'
<1> SUFFICES ASSUME ConnInv, TrackInv, [Next]_vars PROVE TrackInv'
    OBVIOUS
<1>1. CASE UNCHANGED interceptorVars
      BY <1>1 DEF interceptorVars, TrackInv, TrackersOK, AllTold, Told, AllCalled, Called,
                  AllFound, NewestIsFound, Bound
<1>2. ASSUME NEW t \in Bound, NEW k \in DOMAIN flight, Receive(t, k) PROVE TrackInv'
      BY <1>1, <1>2, ParsedIsECN, RecordKeeps DEF Receive, ReadUncounted
<1> QED BY <1>1, <1>2, BindKeeps, UnbindKeeps, GetTrackerKeeps, FeedbackKeeps, ResetKeeps
        DEF Next, vars

(***************************************************************************)
(* Every codepoint a reader got is counted or was told once, every mark    *)
(* calls for feedback once and comes to the application's knowledge, and   *)
(* GetTracker finds the newest tracker of a stream, for any number of      *)
(* streams and binds.                                                      *)
(***************************************************************************)
THEOREM MarksCorrect == Spec => []MarksAreTold
<1>1. Init => ConnInv
      BY ConnInvInit DEF Init
<1>2. TrackInv => MarksAreTold
      BY MarksAreToldParts DEF TrackInv
<1> QED BY <1>1, <1>2, ConnInvNext, InterceptorStep, TrackInvInit, TrackInvNext, PTL DEF Spec

(***************************************************************************)
(* Every variable of the socket and of the interceptor keeps its type.     *)
(***************************************************************************)
THEOREM TypeCorrect == Spec => []TypeOK
<1>1. Init => ConnInv
      BY ConnInvInit DEF Init
<1>2. ConnInv => ConnTypeOK
      BY DEF ConnInv, WritersOK, FlightInv, ConnTypeOK
<1>3. TrackInv /\ ConnTypeOK => TypeOK
      BY DEF TrackInv, TrackersOK, TypeOK
<1> QED BY <1>1, <1>2, <1>3, ConnInvNext, InterceptorStep, TrackInvInit, TrackInvNext,
           PTL DEF Spec
=============================================================================
