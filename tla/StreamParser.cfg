\* 2 3 1 n is the header of a frame with n payload bytes.  A payload of 2 is
\* too long for the storage, one of 3 for the protocol.  Nine bytes hold a
\* frame after or inside a false header, in every division into fragments.
CONSTANTS
  Byte = {0, 1, 2, 3}
  MagicLow = 2
  MagicHigh = 3
  Versions = {1}
  MaxPayload = 2
  StorageCapacity = 7
  MaxStream = 9
  MaxFragment = 3
SPECIFICATION Spec
INVARIANTS WindowIsSuffix CrcCoversPrefix DeliversClaims BytesAccounted
CHECK_DEADLOCK FALSE
