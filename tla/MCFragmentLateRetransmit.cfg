CONSTANTS
  m1 = m1
  m2 = m2
  m3 = m3
  k1 = k1
  k2 = k2
  Messages <- OneMessage
  Keys <- OneKey
  KeyOf <- OneKeyOf
  LengthsOf <- OneLengthsOf
  MaxFragmented = 1
  Ttl = 3
  Patience = 1
  Delay = 1
  MaxClock = 5
SPECIFICATION Spec
PROPERTIES
  RetransmittedFinalBlockAcked
CHECK_DEADLOCK FALSE
