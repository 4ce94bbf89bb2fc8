CONSTANTS
  Template <- TheTemplate
  Otps <- TheOtps
  NumCells = 2
  Bases = {2, 468, 510}
  Offsets <- TheOffsets
  ByteOr <- BitOr
  Opcodes = {0, 144, 255}
  Lengths = {0, 1, 2, 247, 248, 252, 255, 256, 488, 495, 496, 497, 504, 600}
  Sums = {0, 1, 170, 255}
  SeqStart = 65533
  MaxPackets = 3
SPECIFICATION Spec
INVARIANTS OtpVoted ConfigPatched ThresholdsFollow PixelsPlaced PacketsRoundTrip
CHECK_DEADLOCK FALSE
