------------------------------ MODULE Framing ------------------------------
(***************************************************************************)
(* hbb_common/bytes_codec.rs: how the messages of every TCP connection are *)
(* cut out of a stream of bytes.  A frame is its length, shifted left by   *)
(* two and written little endian in one to four bytes, the two free bits   *)
(* telling how many; then the payload.  The network delivers the bytes in  *)
(* pieces of any size.  After set_raw on both sides (port forwarding, see  *)
(* PortForward) the stream is passed on as it comes.                       *)
(*                                                                         *)
(* Byte values are 0 .. Radix - 1; the program has Radix = 256, and TLC    *)
(* takes a small one so that small frames reach every width of the head.   *)
(***************************************************************************)
EXTENDS Integers, Sequences, SequencesExt

CONSTANTS
  Radix,      \* values of a byte
  Lengths,    \* lengths of the payloads sent
  MaxFrames,  \* bound: frames sent; after that many both sides turn raw
  MaxRaw      \* bound: bytes sent after set_raw

ASSUME FramingAssumption ==
  /\ Radix \in Nat /\ Radix > 0 /\ Radix % 4 = 0
  /\ Lengths \subseteq Nat
  /\ MaxFrames \in Nat /\ MaxRaw \in Nat

VARIABLES
  framed,     \* payloads given to encode (history)
  rawOut,     \* BytesCodec.raw of the sender
  rawSent,    \* bytes given to encode after set_raw (history)
  pipe,       \* bytes on their way
  src,        \* bytes read and not decoded yet
  need,       \* DecodeState: Head, or <<n>> for Data(n)
  rawIn,      \* BytesCodec.raw of the receiver
  decoded,    \* payloads returned by decode
  rawGot      \* bytes returned by decode after set_raw

framingVars == <<framed, rawOut, rawSent, pipe, src, need, rawIn, decoded, rawGot>>

Head0 == <<>>
Bytes == 0 .. Radix - 1

-----------------------------------------------------------------------------
(* The head of a frame.                                                    *)

Quarter == Radix \div 4

\* the bytes of h, the lowest first
Byte1(h) == h % Radix
Byte2(h) == (h \div Radix) % Radix
Byte3(h) == ((h \div Radix) \div Radix) % Radix
Byte4(h) == (((h \div Radix) \div Radix) \div Radix) % Radix

\* 0x3F, 0x3FFF, 0x3FFFFF and 0x3FFFFFFF are the longest of each width.
Fits1(n) == n < Quarter
Fits2(n) == n < Quarter * Radix
Fits3(n) == n < Quarter * Radix * Radix
Fits4(n) == n < Quarter * Radix * Radix * Radix

\* encode, the head: the two lowest bits are the width less one.
EncodeHead(n) ==
  CASE Fits1(n) -> <<Byte1(4 * n)>>
    [] ~Fits1(n) /\ Fits2(n) -> <<Byte1(4 * n + 1), Byte2(4 * n + 1)>>
    [] ~Fits2(n) /\ Fits3(n) -> <<Byte1(4 * n + 2), Byte2(4 * n + 2), Byte3(4 * n + 2)>>
    [] ~Fits3(n) /\ Fits4(n) -> <<Byte1(4 * n + 3), Byte2(4 * n + 3), Byte3(4 * n + 3),
                                  Byte4(4 * n + 3)>>

\* decode_head: how many bytes
HeadLength(first) == (first % 4) + 1

\* ... and the length they hold
DecodeHead(b) ==
  (CASE Len(b) = 1 -> b[1]
     [] Len(b) = 2 -> b[1] + Radix * b[2]
     [] Len(b) = 3 -> b[1] + Radix * (b[2] + Radix * b[3])
     [] Len(b) = 4 -> b[1] + Radix * (b[2] + Radix * (b[3] + Radix * b[4]))) \div 4

-----------------------------------------------------------------------------
FramingTypeOK ==
  /\ framed \in Seq(Seq(Bytes)) /\ decoded \in Seq(Seq(Bytes))
  /\ rawOut \in BOOLEAN /\ rawIn \in BOOLEAN
  /\ {rawSent, pipe, src, rawGot} \subseteq Seq(Bytes)
  /\ need \in {Head0} \cup {<<n>> : n \in Lengths}

FramingInit ==
  /\ framed = <<>> /\ decoded = <<>>
  /\ rawOut = FALSE /\ rawIn = FALSE
  /\ rawSent = <<>> /\ rawGot = <<>>
  /\ pipe = <<>> /\ src = <<>>
  /\ need = Head0

\* encode: a payload of n bytes; one too long is refused (Overflow).  Payloads
\* are told apart by the value of their bytes.
Encode(n) ==
  /\ ~rawOut /\ Len(framed) < MaxFrames /\ Fits4(n)
  /\ LET payload == [i \in 1 .. n |-> (Len(framed) + 2) % Radix] IN
       /\ framed' = Append(framed, payload)
       /\ pipe' = pipe \o EncodeHead(n) \o payload
  /\ UNCHANGED <<rawOut, rawSent, src, need, rawIn, decoded, rawGot>>

\* FramedStream::set_raw of the sender, and encode when raw
SetRawOut ==
  /\ ~rawOut /\ Len(framed) = MaxFrames
  /\ rawOut' = TRUE
  /\ UNCHANGED <<framed, rawSent, pipe, src, need, rawIn, decoded, rawGot>>

EncodeRaw ==
  /\ rawOut /\ Len(rawSent) < MaxRaw
  /\ \E b \in {0, Radix - 1} :
       /\ rawSent' = Append(rawSent, b)
       /\ pipe' = Append(pipe, b)
  /\ UNCHANGED <<framed, rawOut, src, need, rawIn, decoded, rawGot>>

\* The network delivers some of the bytes.
Arrive(k) ==
  /\ src' = src \o SubSeq(pipe, 1, k)
  /\ pipe' = SubSeq(pipe, k + 1, Len(pipe))
  /\ UNCHANGED <<framed, rawOut, rawSent, need, rawIn, decoded, rawGot>>

HeadArrivedBug == src # <<>> /\ Len(src) > HeadLength(src[1])
HeadArrived == src # <<>> /\ Len(src) >= HeadLength(src[1])

\* what is left of the buffer once the head is read
PastHeadBug == src
PastHead == SubSeq(src, HeadLength(src[1]) + 1, Len(src))

\* decode_data: the payload once all of it is there; until then the state
\* remembers how long it is.
Data(n, rest) ==
  IF Len(rest) < n
    THEN /\ need' = <<n>> /\ src' = rest /\ UNCHANGED decoded
    ELSE /\ need' = Head0
         /\ decoded' = Append(decoded, SubSeq(rest, 1, n))
         /\ src' = SubSeq(rest, n + 1, Len(rest))

\* Otherwise decode returns None: the head, or the payload, is not all there yet.
PartArrived == IF need = Head0 THEN HeadArrived ELSE Len(src) >= need[1]

\* decode, called whenever bytes have come and again until it returns None; the
\* receiver handles what it returns before it calls it again
Decode ==
  /\ ~rawIn /\ Len(decoded) < MaxFrames
  /\ PartArrived
  /\ IF need = Head0
       THEN Data(DecodeHead(SubSeq(src, 1, HeadLength(src[1]))), PastHead)
       ELSE Data(need[1], src)
  /\ UNCHANGED <<framed, rawOut, rawSent, pipe, rawIn, rawGot>>

\* set_raw of the receiver, on the frame after which the sender does so too
SetRawIn ==
  /\ ~rawIn /\ Len(decoded) = MaxFrames
  /\ rawIn' = TRUE
  /\ UNCHANGED <<framed, rawOut, rawSent, pipe, src, need, decoded, rawGot>>

\* what a raw decode returns: the whole buffer
SplitOff == src

DecodeRaw ==
  /\ rawIn /\ src # <<>>
  /\ rawGot' = rawGot \o SplitOff
  /\ src' = <<>>
  /\ UNCHANGED <<framed, rawOut, rawSent, pipe, need, rawIn, decoded>>

FramingSend == (\E n \in Lengths : Encode(n)) \/ SetRawOut \/ EncodeRaw
FramingReceive == Decode \/ SetRawIn \/ DecodeRaw
FramingDeliver == \E k \in 1 .. Len(pipe) : Arrive(k)
FramingNext == FramingSend \/ FramingReceive \/ FramingDeliver

FramingSpec == FramingInit /\ [][FramingNext]_framingVars
-----------------------------------------------------------------------------
(* Properties.                                                             *)

\* What decode returns are the payloads given to encode, in order and whole,
\* however the network cuts the stream, for every width of the head; and once
\* both sides are raw not a byte is lost or taken for a head.
FramesPreserved == IsPrefix(decoded, framed) /\ IsPrefix(rawGot, rawSent)

\* For those who use it the stream is two channels, one of payloads and, after
\* set_raw, one of bytes: what decode returned once stays returned.
Payloads == INSTANCE Channel WITH sent <- framed, got <- decoded
RawBytes == INSTANCE Channel WITH sent <- rawSent, got <- rawGot
ImplementsChannels == Payloads!Spec /\ RawBytes!Spec

\* The receiver has something to do: a part of a frame is there, it is to turn
\* raw, or it is raw and has bytes.
CanReceive ==
  IF rawIn THEN src # <<>> ELSE Len(decoded) < MaxFrames => PartArrived

\* The decoder does not sit on a frame that has arrived: when nothing is under
\* way and it has nothing to do, everything sent has been returned.
NothingStuck ==
  pipe = <<>> /\ ~CanReceive =>
    /\ decoded = framed
    /\ rawGot = rawSent
=============================================================================
