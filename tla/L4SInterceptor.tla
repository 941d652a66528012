-------------------------- MODULE L4SInterceptor --------------------------
(***************************************************************************)
(* pkg/l4s: an interceptor that counts the ECN codepoints of each incoming *)
(* stream and, if it was given a callback, calls for feedback when a       *)
(* packet is marked.  The reader that BindRemoteStream returns keeps the   *)
(* tracker it was made with: a stream that is bound again gets a new one,  *)
(* a stream that is unbound is still counted by its reader, in a tracker   *)
(* that GetTracker does not find any more.                                 *)
(***************************************************************************)
EXTENDS EcnConn

CONSTANTS
    SSRCs,
    MaxBinds    \* bound: calls of BindRemoteStream

ASSUME InterceptorAssumption == MaxBinds \in Nat

VARIABLES
    onFeedback, \* the optional callback is set
    trackers,   \* SSRC -> tracker or NoTracker; trackers are numbered
    stream,     \* the SSRC of each tracker
    counts,     \* of each tracker: codepoint -> packets
    totalPackets,
    reading,    \* where the reader of each tracker is
    held,       \* trackers that the application was given
    taken,      \* history: what the calls of Reset have returned
    got,        \* history: the codepoints each reader has got
    feedback    \* history: calls of onFeedback, for each tracker

interceptorVars == <<onFeedback, trackers, stream, counts, totalPackets, reading, held,
                     taken, got, feedback>>
vars == <<connVars, interceptorVars>>

NoTracker == 0
Bound == 1 .. Len(stream)
Counts == [ECN -> Nat]
Zero == [e \in ECN |-> 0]

TypeOK ==
    /\ ConnTypeOK
    /\ onFeedback \in BOOLEAN
    /\ stream \in Seq(SSRCs) /\ Len(stream) <= MaxBinds
    /\ trackers \in [SSRCs -> Bound \cup {NoTracker}]
    /\ counts \in [Bound -> Counts]
    /\ totalPackets \in [Bound -> Nat]
    /\ reading \in [Bound -> {"read", "feedback"}]
    /\ held \subseteq Bound
    /\ taken \in [Bound -> Counts]
    /\ got \in [Bound -> Counts]
    /\ feedback \in [Bound -> Nat]

Init ==
    /\ ConnInit
    /\ onFeedback \in BOOLEAN
    /\ held = {}
    /\ trackers = [s \in SSRCs |-> NoTracker]
    /\ stream = << >> /\ counts = << >> /\ totalPackets = << >> /\ reading = << >>
    /\ taken = << >> /\ got = << >> /\ feedback = << >>

-----------------------------------------------------------------------------

(* Under mu.  The stream may have a tracker already.                       *)
BindRemoteStream(s) ==
    /\ Len(stream) < MaxBinds
    /\ stream' = Append(stream, s)
    /\ trackers' = [trackers EXCEPT ![s] = Len(stream')]
    /\ counts' = Append(counts, Zero)
    /\ totalPackets' = Append(totalPackets, 0)
    /\ reading' = Append(reading, "read")
    /\ taken' = Append(taken, Zero)
    /\ got' = Append(got, Zero)
    /\ feedback' = Append(feedback, 0)
    /\ UNCHANGED <<connVars, onFeedback, held>>

(* Under mu.                                                               *)
UnbindRemoteStream(s) ==
    /\ trackers' = [trackers EXCEPT ![s] = NoTracker]
    /\ UNCHANGED <<connVars, onFeedback, stream, counts, totalPackets, reading, held,
                   taken, got, feedback>>

(* GetTracker and GetAllTrackers, under mu.                                *)
GetTracker(s) ==
    /\ trackers[s] # NoTracker
    /\ held' = held \cup {trackers[s]}
    /\ UNCHANGED <<connVars, onFeedback, trackers, stream, counts, totalPackets, reading,
                   taken, got, feedback>>

(* Record, under the tracker's mu.                                         *)
Record(t, ecn) ==
    /\ counts' = [counts EXCEPT ![t][ecn] = @ + 1]
    /\ totalPackets' = [totalPackets EXCEPT ![t] = @ + 1]

(* The reader gets a packet with a codepoint in its attributes.            *)
Read(t, ecn) ==
    /\ reading[t] = "read"
    /\ Record(t, ecn)
    /\ got' = [got EXCEPT ![t][ecn] = @ + 1]
    /\ reading' = [reading EXCEPT ![t] = IF ecn = CE /\ onFeedback THEN "feedback" ELSE "read"]
    /\ UNCHANGED <<onFeedback, trackers, stream, held, taken, feedback>>

(* Without the attribute, or shorter than an RTP header: passed through.   *)
ReadUncounted(t) ==
    /\ reading[t] = "read"
    /\ UNCHANGED interceptorVars

(* Mutant: the callback gets the tracker that the map has by now.          *)
OnFeedbackFromMap(t) ==
    /\ reading[t] = "feedback"
    /\ reading' = [reading EXCEPT ![t] = "read"]
    /\ feedback' = [feedback EXCEPT ![t] = @ + 1]
    /\ held' = held \cup ({trackers[stream[t]]} \ {NoTracker})
    /\ UNCHANGED <<connVars, onFeedback, trackers, stream, counts, totalPackets, taken, got>>

(* The callback gets the reader's own tracker.                             *)
OnFeedback(t) ==
    /\ reading[t] = "feedback"
    /\ reading' = [reading EXCEPT ![t] = "read"]
    /\ feedback' = [feedback EXCEPT ![t] = @ + 1]
    /\ held' = held \cup {t}
    /\ UNCHANGED <<connVars, onFeedback, trackers, stream, counts, totalPackets, taken, got>>

(* Reset, under the tracker's mu, by who was given it.                     *)
Reset(t) ==
    /\ t \in held
    /\ taken' = [taken EXCEPT ![t] = [e \in ECN |-> @[e] + counts[t][e]]]
    /\ counts' = [counts EXCEPT ![t] = Zero]
    /\ totalPackets' = [totalPackets EXCEPT ![t] = 0]
    /\ UNCHANGED <<connVars, onFeedback, trackers, stream, reading, held, got, feedback>>

(* The packet goes from the socket to a reader, with its codepoint.        *)
Receive(t, k) == ReadMsgUDP(k) /\ (Read(t, ParseECN(k)) \/ ReadUncounted(t))

Next ==
    \/ ConnWrites /\ UNCHANGED interceptorVars
    \/ \E s \in SSRCs : BindRemoteStream(s) \/ UnbindRemoteStream(s) \/ GetTracker(s)
    \/ \E t \in Bound : OnFeedback(t) \/ Reset(t) \/ \E k \in DOMAIN flight : Receive(t, k)

Spec == Init /\ [][Next]_vars

-----------------------------------------------------------------------------

(***************************************************************************)
(* Every codepoint a reader got is told once: it is counted in the         *)
(* reader's own tracker or was returned by one Reset of it, and the counts *)
(* add up to the total.                                                    *)
(***************************************************************************)
CountsAreKept(t) ==
    /\ \A e \in ECN : counts[t][e] + taken[t][e] = got[t][e]
    /\ totalPackets[t] = counts[t][NotECT] + counts[t][ECT1] + counts[t][ECT0] + counts[t][CE]

(***************************************************************************)
(* With a callback each mark calls for feedback once, and no mark is left  *)
(* in a tracker that the application was never given, although the stream  *)
(* may be bound again or unbound before the call.                          *)
(***************************************************************************)
MarksReachTheCallback(t) ==
    IF onFeedback
    THEN /\ feedback[t] + (IF reading[t] = "feedback" THEN 1 ELSE 0) = got[t][CE]
         /\ got[t][CE] > 0 => t \in held \/ reading[t] = "feedback"
    ELSE feedback[t] = 0 /\ reading[t] = "read"

(***************************************************************************)
(* Without one, marks are told to who asks: GetTracker finds no tracker    *)
(* but the newest one of its stream.  What an older reader of the stream   *)
(* counts is out of its reach, and so is an unbound stream.                *)
(***************************************************************************)
NewestIsFound(s) ==
    trackers[s] # NoTracker =>
        stream[trackers[s]] = s /\ \A t \in Bound : stream[t] = s => t <= trackers[s]

(***************************************************************************)
(* Together: a mark that was got is told, by the callback or on demand.    *)
(***************************************************************************)
MarksAreTold ==
    /\ \A t \in Bound : CountsAreKept(t) /\ MarksReachTheCallback(t)
    /\ \A s \in SSRCs : NewestIsFound(s)
=============================================================================
