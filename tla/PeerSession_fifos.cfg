\* FIFOs of two packets; words of two bits; 16 bits of unsigned int.
SPECIFICATION FairSpec
CONSTANTS
  Size = 2
  Words = 4
  Headers <- SmallHeaders
  Ciphers <- KnownCiphers
  Mtus <- SomeMtus
  UMod = 65536

  
  
  
PROPERTIES
  EndLostOnlyEarly
  BroadcastReturns
  SessionStops
\* The session ends, or is stuck as SessionStops says.
CHECK_DEADLOCK FALSE
