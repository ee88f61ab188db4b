\* Every message through the wire, and the mini server with its clients.
SPECIFICATION Spec
CONSTANTS
  c1 = c1
  c2 = c2
  Exchanges <- MCExchanges
  Connection = {c1, c2}
  Greetings <- MCGreetings
  Requests <- MCRequests
  MaxRequests = 2
INVARIANTS
  
  
  SequenceNumbersFollow
  OnlyTheUserIsServed
  
PROPERTIES
  SessionsEnd
CHECK_DEADLOCK FALSE
