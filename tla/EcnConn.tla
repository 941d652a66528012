----------------------------- MODULE EcnConn ------------------------------
(***************************************************************************)
(* pkg/ecnconn: a UDP socket whose packets carry an ECN codepoint.  The    *)
(* codepoint is an option of the socket, not of a packet: each write sets  *)
(* it under mu and writes after the unlock, so goroutines that write at    *)
(* the same time can send each other's codepoint.  There are two options,  *)
(* one for packets to IPv4 peers and one for packets to IPv6 peers, and an *)
(* IPv6 socket, which reaches both, has only the second one set.  No       *)
(* program of the repository uses the package yet.                         *)
(***************************************************************************)
EXTENDS Integers, Sequences, SequencesExt

CONSTANTS
    Writers,    \* goroutines that call the methods
    TOSValues,  \* what they pass: an ECN codepoint in the lower two bits
    MaxPackets  \* bound: packets written, after the last no call begins

NotECT == 0
ECT1 == 1
ECT0 == 2
CE == 3
ECN == {NotECT, ECT1, ECT0, CE}

(* ecn & 0x03.                                                             *)
Codepoint(tos) == tos % 4

ASSUME EcnConnAssumption == TOSValues \subseteq 0 .. 255 /\ MaxPackets \in Nat

NoECN == 4
Families == {"v4", "v6"}

VARIABLES
    isIPv6,
    option,     \* IP_TOS and IPV6_TCLASS: the codepoint for peers of a family
    defaultECN,
    call,       \* where each writer is: idle, to set tos (then write), to write
    asked,      \* the codepoint of its call
    beside,     \* history: those asked for by calls that overlap its call
    written,    \* history: the number of packets written
    flight,     \* packets written and not read yet, in no order
    hearsV6     \* IPV6_RECVTCLASS is set

connVars == <<isIPv6, option, defaultECN, call, asked, beside, written, flight, hearsV6>>

(* The family of the socket, and those of the peers that it reaches.       *)
Own == IF isIPv6 THEN "v6" ELSE "v4"
Reached == IF isIPv6 THEN Families ELSE {"v4"}

Packet == [ecn : ECN, peer : Families, asked : ECN, beside : SUBSET ECN, marked : BOOLEAN]

ConnTypeOK ==
    /\ isIPv6 \in BOOLEAN
    /\ option \in [Families -> ECN]
    /\ defaultECN \in ECN
    /\ call \in [Writers -> {"idle", "tos", "set", "write"}]
    /\ asked \in [Writers -> ECN \cup {NoECN}]
    /\ \A w \in Writers : asked[w] = NoECN <=> call[w] = "idle"
    /\ beside \in [Writers -> SUBSET ECN]
    /\ written \in 0 .. MaxPackets
    /\ flight \in Seq(Packet)
    /\ hearsV6 \in BOOLEAN

(* WrapConn: neither SetTOS nor IPV6_RECVTCLASS has to succeed, and the    *)
(* second one does not on an IPv4 socket.                                  *)
ConnInit ==
    /\ isIPv6 \in BOOLEAN
    /\ \E ecn \in {NotECT, ECT1} :
          option = [f \in Families |-> IF f = Own THEN ecn ELSE NotECT]
    /\ defaultECN = ECT1
    /\ call = [w \in Writers |-> "idle"]
    /\ asked = [w \in Writers |-> NoECN]
    /\ beside = [w \in Writers |-> {}]
    /\ written = 0
    /\ flight = << >>
    /\ hearsV6 \in {isIPv6, FALSE}

-----------------------------------------------------------------------------

Busy == {w \in Writers : call[w] # "idle"}

Begin(w, step, ecn) ==
    /\ call[w] = "idle" /\ written < MaxPackets
    /\ call' = [call EXCEPT ![w] = step]
    /\ asked' = [asked EXCEPT ![w] = ecn]
    /\ beside' = [v \in Writers |-> IF v = w THEN {asked[u] : u \in Busy}
                                    ELSE IF v \in Busy THEN beside[v] \cup {ecn}
                                    ELSE beside[v]]
    /\ UNCHANGED <<isIPv6, option, written, flight, hearsV6>>

WriteMsgUDP(w, tos) ==
    /\ Begin(w, "tos", Codepoint(tos))
    /\ UNCHANGED defaultECN

(* Mutant: the default is taken to be set on the socket.                   *)
WriteToUDPTrustsSocket(w) ==
    /\ Begin(w, "write", defaultECN)
    /\ UNCHANGED defaultECN

(* The default is read under mu, which SetTOS then takes again.            *)
WriteToUDP(w) ==
    /\ Begin(w, "tos", defaultECN)
    /\ UNCHANGED defaultECN

(* A call of SetTOS for itself.                                            *)
CallSetTOS(w, tos) ==
    /\ Begin(w, "set", Codepoint(tos))
    /\ UNCHANGED defaultECN

(* Mutant: the default keeps the bits above the codepoint.                 *)
SetDefaultECNUnmasked(w, tos) ==
    /\ Begin(w, "set", Codepoint(tos))
    /\ defaultECN' = tos

(* The default is set under mu, which SetTOS then takes again.             *)
SetDefaultECN(w, tos) ==
    /\ Begin(w, "set", Codepoint(tos))
    /\ defaultECN' = Codepoint(tos)

Return(w) ==
    /\ call' = [call EXCEPT ![w] = "idle"]
    /\ asked' = [asked EXCEPT ![w] = NoECN]
    /\ beside' = [beside EXCEPT ![w] = {}]

(* Under mu: the option of the socket's own family only.                   *)
SetTOS(w) ==
    /\ call[w] \in {"tos", "set"}
    /\ option' = [option EXCEPT ![Own] = asked[w]]
    /\ \/ call[w] = "tos" /\ call' = [call EXCEPT ![w] = "write"] /\ UNCHANGED <<asked, beside>>
       \/ call[w] = "set" /\ Return(w)
    /\ UNCHANGED <<isIPv6, defaultECN, written, flight, hearsV6>>

(* setsockopt fails: nothing is written, a new default stays.              *)
SetTOSFails(w) ==
    /\ call[w] \in {"tos", "set"}
    /\ Return(w)
    /\ UNCHANGED <<isIPv6, option, defaultECN, written, flight, hearsV6>>

(* conn.WriteToUDP, to a peer of any family that the socket reaches.       *)
Write(w, peer) ==
    /\ call[w] = "write" /\ written < MaxPackets
    /\ peer \in Reached
    /\ written' = written + 1
    /\ flight' = Append(flight, [ecn |-> option[peer], peer |-> peer, asked |-> asked[w],
                                 beside |-> beside[w], marked |-> FALSE])
    /\ Return(w)
    /\ UNCHANGED <<isIPv6, option, defaultECN, hearsV6>>

(* A router that is congested marks a packet of an ECN-capable transport.  *)
Mark(k) ==
    /\ flight[k].ecn \in {ECT1, ECT0}
    /\ flight' = [flight EXCEPT ![k].ecn = CE, ![k].marked = TRUE]
    /\ UNCHANGED <<isIPv6, option, defaultECN, call, asked, beside, written, hearsV6>>

(***************************************************************************)
(* parseECNFromOOB, at a peer whose socket was wrapped like this one:      *)
(* without a control message a packet counts as NotECT.  IP_RECVTOS is     *)
(* always set.                                                             *)
(***************************************************************************)
ParseECN(k) == IF flight[k].peer = "v4" \/ hearsV6 THEN flight[k].ecn ELSE NotECT

(* ReadMsgUDP: any packet on its way may be the next, some never come.     *)
ReadMsgUDP(k) ==
    /\ flight' = RemoveAt(flight, k)
    /\ UNCHANGED <<isIPv6, option, defaultECN, call, asked, beside, written, hearsV6>>

ConnWrites ==
    \/ \E w \in Writers :
          \/ \E tos \in TOSValues :
                WriteMsgUDP(w, tos) \/ SetDefaultECN(w, tos) \/ CallSetTOS(w, tos)
          \/ WriteToUDP(w) \/ SetTOS(w) \/ SetTOSFails(w)
          \/ \E peer \in Families : Write(w, peer)
    \/ \E k \in DOMAIN flight : Mark(k)

ConnNext == ConnWrites \/ \E k \in DOMAIN flight : ReadMsgUDP(k)

-----------------------------------------------------------------------------

(***************************************************************************)
(* A packet to a peer of the socket's own family leaves with the codepoint *)
(* its writer asked for, or with one that a call beside it asked for: what *)
(* calls set that ended before it began, or that begin after it, does not  *)
(* reach it.  One to an IPv4 peer of a dual-stack socket leaves as Not-ECT *)
(* whatever was asked for, and so is never marked.                         *)
(***************************************************************************)
CodepointIsAsked ==
    \A k \in DOMAIN flight :
        IF flight[k].peer = Own
        THEN flight[k].ecn \in {flight[k].asked} \cup flight[k].beside \/ flight[k].marked
        ELSE flight[k].ecn = NotECT
=============================================================================
