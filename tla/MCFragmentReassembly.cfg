CONSTANTS
  m1 = m1
  m2 = m2
  m3 = m3
  k1 = k1
  k2 = k2
  Messages <- MCMessages
  Keys <- MCKeys
  KeyOf <- MCKeyOf
  LengthsOf <- MCLengthsOf
  MaxFragmented = 1
  Ttl = 3
  Patience = 1
  Delay = 1
  MaxClock = 7
SPECIFICATION Spec
INVARIANTS
  TypeOK
  AcknowledgedIsDelivered
  OneMessagePerEntry
  WithinLimit
PROPERTIES
  DeliversOnce
CHECK_DEADLOCK FALSE
