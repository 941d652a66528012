------------------------------- MODULE AnnexB -------------------------------
(***************************************************************************)
(* pkg/h264/annexb.go: AnnexBReader.ReadNAL as the state machine it is,    *)
(* one byte at a time over a buffer that outlives the call, against a      *)
(* definition of what the NAL units of a byte stream are; what AnnexBWriter*)
(* and LengthPrefixedWriter make of the NAL units it returns; and          *)
(* LengthPrefixedReader over the latter stream, cut anywhere.              *)
(***************************************************************************)
EXTENDS Integers, Sequences, SequencesExt, FiniteSetsExt

CONSTANTS
    Alphabet,       \* byte values: 0 and 1, and what is neither
    MaxInput        \* bound: bytes of stdin

ASSUME AnnexBAssumption ==
    /\ {0, 1} \subseteq Alphabet
    /\ Alphabet \subseteq 0 .. 255
    /\ MaxInput \in Nat

VARIABLES
    input,          \* the bytes of stdin, all of them
    taken,          \* how many ReadByte has returned
    buf, hasEOF,    \* the fields of AnnexBReader
    call,           \* outside ReadNAL, in its loop, or it returned io.EOF
    nals,           \* what the calls have returned
    written,        \* history: the stream AnnexBWriter makes of it
    framed,         \* history: the stream LengthPrefixedWriter makes of it
    ends,           \* history: where in framed each NAL unit ends
    cut,            \* how many bytes of framed arrive before its end
    reader,         \* LengthPrefixedReader: nothing yet, reading, or it failed
    pos,            \* how many bytes it has taken
    got             \* what its calls have returned

made  == <<nals, written, framed, ends>>
other == <<cut, reader, pos, got>>
vars  == <<input, taken, buf, hasEOF, call, made, other>>

Byte == 0 .. 255

StartCode  == <<0, 0, 0, 1>>
StartCode3 == <<0, 0, 1>>

TypeOK ==
    /\ input \in BoundedSeq(Alphabet, MaxInput)
    /\ taken \in 0 .. Len(input)
    /\ buf \in Seq(Alphabet)
    /\ hasEOF \in BOOLEAN
    /\ call \in {"out", "in", "eof"}
    /\ nals \in Seq(Seq(Alphabet) \ {<< >>})
    /\ written \in Seq(Alphabet)
    /\ framed \in Seq(Byte)
    /\ ends \in Seq(Nat)
    /\ cut \in 0 .. Len(framed)
    /\ reader \in {"none", "reading", "failed"}
    /\ pos \in Nat
    /\ got \in Seq(Seq(Byte) \ {<< >>})

Init ==
    /\ input \in BoundedSeq(Alphabet, MaxInput)
    /\ taken = 0
    /\ buf = << >>
    /\ hasEOF = FALSE
    /\ call = "out"
    /\ nals = << >>
    /\ written = << >>
    /\ framed = << >>
    /\ ends = << >>
    /\ cut = 0
    /\ reader = "none"
    /\ pos = 0
    /\ got = << >>

-----------------------------------------------------------------------------
(* AnnexBWriter and LengthPrefixedWriter.                                  *)

(* Mutant: the writer uses the three-byte start code.                      *)
WriteNAL3(data) == StartCode3 \o data

WriteNAL(data) == StartCode \o data

(* binary.BigEndian.                                                       *)
Shift(n)  == n \div 256
Uint32(n) == <<Shift(Shift(Shift(n))) % 256, Shift(Shift(n)) % 256, Shift(n) % 256, n % 256>>
Number(b) == ((b[1] * 256 + b[2]) * 256 + b[3]) * 256 + b[4]

WriteLengthPrefixed(data) == Uint32(Len(data)) \o data

-----------------------------------------------------------------------------
(* AnnexBReader.                                                           *)

(* A call returns a NAL unit, which is written in both formats.            *)
Return(data) ==
    /\ nals' = Append(nals, data)
    /\ written' = written \o WriteNAL(data)
    /\ framed' = framed \o WriteLengthPrefixed(data)
    /\ ends' = Append(ends, Len(framed'))
    /\ call' = "out"

ReadsOn == UNCHANGED <<call, made>>

Drop(s, n) == SubSeq(s, n + 1, Len(s))
Chop(s, n) == SubSeq(s, 1, Len(s) - n)

(* A call: the start code that ended the call before is skipped.           *)
Enter ==
    /\ call = "out"
    /\ IF hasEOF /\ buf = << >>
       THEN call' = "eof" /\ UNCHANGED buf
       ELSE /\ call' = "in"
            /\ buf' = CASE IsPrefix(StartCode, buf)  -> Drop(buf, 4)
                        [] IsPrefix(StartCode3, buf) -> Drop(buf, 3)
                        [] OTHER                     -> buf
    /\ UNCHANGED <<input, taken, hasEOF, made, other>>

(* The start code the bytes end with: the longer one if they do with both. *)
CodeShortFirst(bytes) ==
    IF IsSuffix(StartCode3, bytes) THEN StartCode3
    ELSE IF IsSuffix(StartCode, bytes) THEN StartCode
    ELSE << >>

CodeAtEnd(bytes) ==
    IF IsSuffix(StartCode, bytes) THEN StartCode
    ELSE IF IsSuffix(StartCode3, bytes) THEN StartCode3
    ELSE << >>

(* Mutant: a start code that follows another one ends a NAL unit too.      *)
AppendByteEmpty(bytes) ==
    LET code == CodeAtEnd(bytes)
    IN  IF code = << >> THEN buf' = bytes /\ ReadsOn
        ELSE buf' = code /\ Return(Chop(bytes, Len(code)))

(***************************************************************************)
(* One more byte in the buffer: it may complete a start code, with a NAL   *)
(* unit before it, which is returned, or with nothing before it.           *)
(***************************************************************************)
AppendByte(bytes) ==
    LET code == CodeAtEnd(bytes)
    IN  \/ /\ code = << >>
           /\ buf' = bytes /\ ReadsOn
        \/ /\ code # << >> /\ bytes # code
           /\ buf' = code /\ Return(Chop(bytes, Len(code)))
        \/ /\ code # << >> /\ bytes = code
           /\ buf' = << >> /\ ReadsOn

ReadByte ==
    /\ call = "in"
    /\ ~hasEOF
    /\ taken < Len(input)
    /\ taken' = taken + 1
    /\ AppendByte(Append(buf, input[taken + 1]))
    /\ UNCHANGED <<input, hasEOF, other>>

(* The end of the input: what is left in the buffer is the last NAL unit.  *)
AtEOF ==
    /\ call = "in"
    /\ hasEOF \/ taken = Len(input)
    /\ hasEOF' = TRUE
    /\ IF buf = << >> THEN call' = "eof" /\ UNCHANGED made
                      ELSE Return(buf)
    /\ buf' = << >>
    /\ UNCHANGED <<input, taken, other>>

-----------------------------------------------------------------------------
(* LengthPrefixedReader.                                                   *)

(* What it reads from: the stream may end anywhere.                        *)
Cut ==
    /\ call = "eof" /\ reader = "none"
    /\ cut' \in 0 .. Len(framed)
    /\ reader' = "reading"
    /\ UNCHANGED <<input, taken, buf, hasEOF, call, made, pos, got>>

(***************************************************************************)
(* ReadNAL of LengthPrefixedReader at an offset of the stream: the NAL     *)
(* unit, or an error if the stream ends within it or the length is 0.      *)
(***************************************************************************)
NoNAL == << >>

(* Mutant: of a NAL unit that is cut what is there is returned, as Read    *)
(* would, and not ReadFull.                                                *)
ReadLengthPrefixedShort(s, at) ==
    IF at + 4 > Len(s) THEN NoNAL
    ELSE LET end == at + 4 + Number(SubSeq(s, at + 1, at + 4))
         IN  SubSeq(s, at + 5, IF end > Len(s) THEN Len(s) ELSE end)

ReadLengthPrefixed(s, at) ==
    IF at + 4 > Len(s) THEN NoNAL
    ELSE LET length == Number(SubSeq(s, at + 1, at + 4))
         IN  IF at + 4 + length > Len(s) THEN NoNAL
             ELSE SubSeq(s, at + 5, at + 4 + length)

ReadFramed ==
    /\ reader = "reading"
    /\ LET data == ReadLengthPrefixed(SubSeq(framed, 1, cut), pos)
       IN  \/ /\ data # NoNAL
              /\ got' = Append(got, data)
              /\ pos' = pos + 4 + Len(data)
              /\ UNCHANGED reader
           \/ /\ data = NoNAL
              /\ reader' = "failed"
              /\ UNCHANGED <<pos, got>>
    /\ UNCHANGED <<input, taken, buf, hasEOF, call, made, cut>>

Next == Enter \/ ReadByte \/ AtEOF \/ Cut \/ ReadFramed

Spec == Init /\ [][Next]_vars

-----------------------------------------------------------------------------
(* Properties.                                                             *)

(***************************************************************************)
(* The NAL units of a byte stream: what lies between two start codes, less *)
(* the zero byte that makes the second one longer, and what follows the    *)
(* last; empty ones do not count.                                          *)
(***************************************************************************)
Occurs(s) == {i \in 1 .. Len(s) - 2 : SubSeq(s, i, i + 2) = StartCode3}
Starts(s) == {1} \cup {i + 3 : i \in Occurs(s)}
End(s, i) ==
    LET later == {j \in Occurs(s) : j >= i}
    IN  IF later = {} THEN Len(s)
        ELSE LET j == Min(later) IN IF j > i /\ s[j - 1] = 0 THEN j - 2 ELSE j - 1
Full(s) == {i \in Starts(s) : i <= End(s, i)}

(* The one that begins at i is the Rank(s, i)-th.                          *)
Rank(s, i) == Cardinality({j \in Full(s) : j <= i})

Split(s) ==
    [k \in 1 .. Cardinality(Full(s)) |->
        LET i == CHOOSE i \in Full(s) : Rank(s, i) = k IN SubSeq(s, i, End(s, i))]

(***************************************************************************)
(* Calling ReadNAL to the end yields exactly the NAL units of the input,   *)
(* although the buffer is cut, kept and skipped between the calls.         *)
(***************************************************************************)
ReadsAllNALs == call = "eof" => nals = Split(input)

(***************************************************************************)
(* What the receiver writes is read back as the same NAL units: no byte of *)
(* a NAL unit, a zero at its end least of all, is taken for start code.    *)
(***************************************************************************)
RoundTrip == Split(written) = nals

(***************************************************************************)
(* The length-prefixed format, cut at any byte, yields the NAL units that  *)
(* are whole and then an error, never a part of one, as long as none is so *)
(* long that its length does not fit the prefix (2^32 bytes or more).      *)
(***************************************************************************)
LengthsFit == \A k \in 1 .. Len(nals) : Shift(Shift(Shift(Len(nals[k])))) < 256

CutStreamYieldsWholeNALs ==
    reader = "failed" /\ LengthsFit =>
        /\ IsPrefix(got, nals)
        /\ \A k \in 1 .. Len(nals) : k <= Len(got) <=> ends[k] <= cut
=============================================================================
