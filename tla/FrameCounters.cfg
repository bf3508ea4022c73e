SPECIFICATION Spec
CONSTANTS
  BufSizes = {384, 960}
  PadLens = {0, 64, 256, 512}
  Extras = {0, 3, 19}
  MaxPayload = 512
  LongMax = 3
  UInt = {0, 3, 4}
INVARIANT CountersKept
