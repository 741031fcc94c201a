CONSTANTS
  Initiator = initiator
  Responder = responder
  Body = {x}
  MaxNonce = 3
  Tampered = tampered
SPECIFICATION FairSpec
INVARIANTS
  ReceivedIsPrefix
  OneFramePerNonce
  StreamsWellChunked
  AuthenticIsAdmitted
PROPERTIES
  FailureIsFinal
  ImplementsChannel
  SentIsReceived
