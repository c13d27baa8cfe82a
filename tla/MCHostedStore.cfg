SPECIFICATION Spec
CONSTANTS
  Sessions = {s1}
  Authority = authority
  Payload <- MCPayload
  Headroom = 3
  MaxEntries = 2
  MaxControl = 4
INVARIANTS AckedIsKept AlwaysReopens RetiredIsGone
