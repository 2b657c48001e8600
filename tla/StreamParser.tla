---------------------------- MODULE StreamParser ----------------------------
(***************************************************************************)
(* zs407_stream_parser of modern/core/zs407_protocol.c.  A call of feed     *)
(* brings a fragment of the byte stream; one action is one turn of its      *)
(* loop, or the half of it that completes a header.  storage holds the      *)
(* parser's used bytes, so used is its length.                              *)
(***************************************************************************)
EXTENDS FrameStream, SequencesExt

CONSTANTS MaxStream,     \* bound on the bytes ever fed
          MaxFragment    \* bound on the bytes of one call

VARIABLES
  input,            \* the bytes of the current call not yet consumed
  storage,          \* storage[0 .. used - 1]
  expected,         \* the frame's length, 0 while its header is incomplete
  crc, crc_bytes,   \* the running checksum and how many bytes it covers
  accepted_frames, rejected_frames, discarded_bytes,
  delivered,        \* history: the frames given to the consumer
  fed               \* history: every byte ever fed

counters == <<accepted_frames, rejected_frames, discarded_bytes>>
vars == <<input, storage, expected, crc, crc_bytes, counters, delivered, fed>>

used == Len(storage)
Fragments == UNION {[1..n -> Byte] : n \in 1..MaxFragment}
After(s, n) == SubSeq(s, n + 1, Len(s))

Init == /\ input = <<>> /\ storage = <<>> /\ expected = 0
        /\ crc = CrcInit /\ crc_bytes = 0
        /\ accepted_frames = 0 /\ rejected_frames = 0 /\ discarded_bytes = 0
        /\ delivered = <<>> /\ fed = <<>>

\* A new call of zs407_stream_parser_feed.
Feed == /\ input = <<>>
        /\ input' \in Fragments
        /\ Len(fed) + Len(input') <= MaxStream
        /\ fed' = fed \o input'
        /\ UNCHANGED <<storage, expected, crc, crc_bytes, counters, delivered>>

\* used == 0: look for the first magic byte.
Hunt ==
  /\ input # <<>> /\ used = 0
  /\ LET found == {i \in 1..Len(input) : input[i] = MagicLow}
         skipped == IF found = {} THEN Len(input) ELSE Min(found) - 1
     IN /\ discarded_bytes' = discarded_bytes + skipped
        /\ storage' = IF found = {} THEN <<>> ELSE <<MagicLow>>
        /\ input' = After(input, skipped + Len(storage'))
  /\ UNCHANGED <<expected, crc, crc_bytes, accepted_frames, rejected_frames,
                 delivered, fed>>

\* A repeated first magic byte is dropped like any other wrong byte.
SecondMagicNoOverlap ==
  /\ input # <<>> /\ used = 1
  /\ input' = Tail(input)
  /\ storage' = IF Head(input) = MagicHigh THEN <<MagicLow, MagicHigh>> ELSE <<>>
  /\ discarded_bytes' = discarded_bytes + 2 - Len(storage')
  /\ UNCHANGED <<expected, crc, crc_bytes, accepted_frames, rejected_frames,
                 delivered, fed>>

\* used == 1: the second magic byte, or the first one once more.
SecondMagic ==
  /\ input # <<>> /\ used = 1
  /\ input' = Tail(input)
  /\ storage' = CASE Head(input) = MagicHigh -> <<MagicLow, MagicHigh>>
                  [] Head(input) = MagicLow  -> <<MagicLow>>
                  [] OTHER                   -> <<>>
  /\ discarded_bytes' = discarded_bytes + 2 - Len(storage')
  /\ UNCHANGED <<expected, crc, crc_bytes, accepted_frames, rejected_frames,
                 delivered, fed>>

\* What the header still lacks, as far as this fragment has it.
HeaderCount == Min({HeaderBytes - used, Len(input)})
Filled == storage \o SubSeq(input, 1, HeaderCount)

HeaderPart ==
  /\ input # <<>> /\ used \in 2..(HeaderBytes - 1)
  /\ Len(Filled) < HeaderBytes
  /\ storage' = Filled /\ input' = After(input, HeaderCount)
  /\ UNCHANGED <<expected, crc, crc_bytes, counters, delivered, fed>>

\* The header is complete and valid: parser_header and parser_crc_catch_up.
HeaderAccepted ==
  /\ input # <<>> /\ used \in 2..(HeaderBytes - 1)
  /\ Len(Filled) = HeaderBytes /\ HeaderOK(Filled)
  /\ storage' = Filled /\ input' = After(input, HeaderCount)
  /\ expected' = Overhead + PayloadLength(Filled)
  /\ crc_bytes' = HeaderBytes /\ crc' = CrcFold(CrcInit, Filled)
  /\ UNCHANGED <<counters, delivered, fed>>

\* Where a frame may start in a rejected header; its first byte is not one.
Restarts(s) ==
  {i \in 2..Len(s) : /\ s[i] = MagicLow
                     /\ i < Len(s) => s[i + 1] = MagicHigh
                     /\ i + 1 < Len(s) => s[i + 2] \in Versions}

\* Forgets that the magic may be cut in two by the end of the header.
ResynchronizeWholeMagic(s) ==
  LET starts == {i \in Restarts(s) : i < Len(s)}
  IN IF starts = {} THEN <<>> ELSE After(s, Min(starts) - 1)

\* parser_resynchronize: what is kept of a rejected header
Resynchronize(s) ==
  IF Restarts(s) = {} THEN <<>> ELSE After(s, Min(Restarts(s)) - 1)

HeaderRejected ==
  /\ input # <<>> /\ used \in 2..(HeaderBytes - 1)
  /\ Len(Filled) = HeaderBytes /\ ~HeaderOK(Filled)
  /\ storage' = Resynchronize(Filled) /\ input' = After(input, HeaderCount)
  /\ rejected_frames' = rejected_frames + 1
  /\ discarded_bytes' = discarded_bytes + HeaderBytes - Len(storage')
  /\ expected' = 0 /\ crc' = CrcInit /\ crc_bytes' = 0
  /\ UNCHANGED <<accepted_frames, delivered, fed>>

\* The rest of the frame, as far as this fragment has it.
BodyCount == Min({expected - used, Len(input)})
Extended == storage \o SubSeq(input, 1, BodyCount)

\* Hashes the trailer along with the payload.
CaughtUpPastPayload(s) == Len(s)

\* parser_crc_catch_up: the bytes the checksum covers once s is stored
CaughtUp(s) == Min({Len(s), expected - TrailerBytes})
CrcCaughtUp(s) == CrcFold(crc, SubSeq(s, crc_bytes + 1, CaughtUp(s)))

BodyPart ==
  /\ input # <<>> /\ expected # 0 /\ Len(Extended) < expected
  /\ storage' = Extended /\ input' = After(input, BodyCount)
  /\ crc' = CrcCaughtUp(Extended) /\ crc_bytes' = CaughtUp(Extended)
  /\ UNCHANGED <<expected, counters, delivered, fed>>

\* parser_complete; the frame is consumed whether or not its CRC matches.
BodyComplete ==
  /\ input # <<>> /\ expected # 0 /\ Len(Extended) = expected
  /\ IF After(Extended, expected - TrailerBytes) = Trailer(CrcCaughtUp(Extended))
     THEN /\ accepted_frames' = accepted_frames + 1
          /\ delivered' = Append(delivered, Extended)
          /\ UNCHANGED rejected_frames
     ELSE /\ rejected_frames' = rejected_frames + 1
          /\ UNCHANGED <<accepted_frames, delivered>>
  /\ input' = After(input, BodyCount)
  /\ storage' = <<>> /\ expected' = 0 /\ crc' = CrcInit /\ crc_bytes' = 0
  /\ UNCHANGED <<discarded_bytes, fed>>

Next == Feed \/ Hunt \/ SecondMagic \/ HeaderPart \/ HeaderAccepted
        \/ HeaderRejected \/ BodyPart \/ BodyComplete

Spec == Init /\ [][Next]_vars

-----------------------------------------------------------------------------
(* Properties.                                                               *)

consumed == SubSeq(fed, 1, Len(fed) - Len(input))

\* The storage is the end of the consumed stream, begins like a frame and is
\* never over-full: no copy, shift or reset loses or duplicates a byte and no
\* memcpy runs past storage_capacity (zs407_protocol.c:346-349, 443-491).
WindowIsSuffix ==
  /\ IsSuffix(storage, consumed)
  /\ used >= 1 => storage[1] = MagicLow
  /\ used >= 2 => storage[2] = MagicHigh
  /\ IF expected = 0 THEN used < HeaderBytes
                     ELSE used < expected /\ expected <= StorageCapacity

\* The running checksum covers exactly the bytes it should, each once and in
\* order, however the frame was cut into fragments (zs407_protocol.c:376-385).
CrcCoversPrefix ==
  /\ crc = CrcFold(CrcInit, SubSeq(storage, 1, crc_bytes))
  /\ crc_bytes = IF expected = 0 THEN 0 ELSE Min({used, expected - TrailerBytes})

\* The frames delivered are those a scan of the whole stream claims and
\* zs407_frame_decode accepts: fragmentation, leading noise and overlapping
\* false headers change nothing (docs/PROTOCOL_V2.md:96-99).
DeliversClaims == delivered = Decoded(Claims(consumed))

\* Every consumed byte is in a claimed frame, counted as discarded or still
\* in the storage (zs407_protocol.c:319, 333, 345, 434-459).
BytesAccounted ==
  LET claimed == FlattenSeq(Claims(consumed))
  IN Len(consumed) = discarded_bytes + used + Len(claimed)
=============================================================================
