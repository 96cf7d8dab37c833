SPECIFICATION Spec
CONSTANTS
  Sockets = {s1, s2, s3}
  NumCards = 3
INVARIANTS TypeOK OneLink CardsOnce
PROPERTIES KeepsTrying Answered
