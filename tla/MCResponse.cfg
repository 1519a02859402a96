SPECIFICATION ResponseFairSpec
CONSTANTS
  Responses <- MCResponses
  Token <- MCToken
  EndChar = "quote"
  LengthSize = 8
  MaxNumber = 310
INVARIANTS
  BodyAsFramed
  FindsValue
  CookiesAsSet
PROPERTY Closes
CHECK_DEADLOCK FALSE
