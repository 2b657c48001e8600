----------------------------- MODULE FrameStream -----------------------------
(***************************************************************************)
(* The wire format of modern/core/zs407_protocol.c and what a receiver      *)
(* should find in a finished stream of bytes.  The ten header bytes are     *)
(* abstracted to four (the two magic bytes, the version, the payload        *)
(* length), the four trailer bytes to two, the CRC to a small checksum that *)
(* depends on the order of the bytes.                                       *)
(***************************************************************************)
EXTENDS Integers, Sequences

CONSTANTS Byte,               \* the values of a byte, 0..k
          MagicLow, MagicHigh,
          Versions,           \* the supported protocol versions
          MaxPayload,         \* ZS407_PROTOCOL_MAX_PAYLOAD
          StorageCapacity     \* the parser's storage_capacity

HeaderBytes == 4
TrailerBytes == 2
Overhead == HeaderBytes + TrailerBytes

\* zs407_stream_parser_init refuses a storage smaller than an empty frame.
ASSUME FrameAssumption ==
  /\ Byte \subseteq Nat
  /\ MagicLow \in Byte /\ MagicHigh \in Byte /\ MagicLow # MagicHigh
  /\ Versions \subseteq Byte
  /\ MaxPayload \in Nat
  /\ StorageCapacity \in Nat /\ StorageCapacity >= Overhead

CrcInit == 3
CrcUpdate(crc, byte) == (3 * crc + byte + 1) % 4

\* The checksum state after the bytes of s, starting from crc.
CrcFold(crc, s) ==
  LET state[i \in 0..Len(s)] ==
        IF i = 0 THEN crc ELSE CrcUpdate(state[i - 1], s[i])
  IN state[Len(s)]

\* the checksum as the trailer carries it
Trailer(crc) == <<crc, 3 - crc>>

PayloadLength(header) == header[HeaderBytes]

\* Takes the storage for as large as the longest frame.
HeaderFitsAnyway(header) ==
  /\ header[1] = MagicLow /\ header[2] = MagicHigh
  /\ header[3] \in Versions
  /\ PayloadLength(header) <= MaxPayload

\* parser_header
HeaderOK(header) ==
  /\ header[1] = MagicLow /\ header[2] = MagicHigh
  /\ header[3] \in Versions
  /\ PayloadLength(header) <= MaxPayload
  /\ Overhead + PayloadLength(header) <= StorageCapacity

\* zs407_frame_decode on a whole frame; the parser's storage does not limit it.
Decodes(frame) ==
  /\ Len(frame) >= Overhead
  /\ frame[1] = MagicLow /\ frame[2] = MagicHigh /\ frame[3] \in Versions
  /\ PayloadLength(frame) <= MaxPayload
  /\ Len(frame) = Overhead + PayloadLength(frame)
  /\ LET covered == Len(frame) - TrailerBytes
     IN SubSeq(frame, covered + 1, Len(frame)) =
          Trailer(CrcFold(CrcInit, SubSeq(frame, 1, covered)))

\* The claims a left-to-right scan of s makes: a valid header at the first
\* place not yet claimed takes its whole frame, whether or not its checksum
\* turns out to match; any other byte is skipped.  A frame that s ends in is
\* not claimed yet.
Claims(s) ==
  LET from[p \in 1..(Len(s) + 1)] ==
        IF p + HeaderBytes - 1 > Len(s) THEN <<>>
        ELSE LET header == SubSeq(s, p, p + HeaderBytes - 1)
                 length == Overhead + PayloadLength(header)
             IN IF ~HeaderOK(header) THEN from[p + 1]
                ELSE IF p + length - 1 > Len(s) THEN <<>>
                ELSE <<SubSeq(s, p, p + length - 1)>> \o from[p + length]
  IN from[1]

\* Those of them that zs407_frame_decode accepts.
Decoded(claims) ==
  LET decoded[i \in 0..Len(claims)] ==
        IF i = 0 THEN <<>>
        ELSE IF Decodes(claims[i]) THEN Append(decoded[i - 1], claims[i])
        ELSE decoded[i - 1]
  IN decoded[Len(claims)]
=============================================================================
