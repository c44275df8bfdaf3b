SPECIFICATION FairSpec
CONSTANTS
  TxSize = 3
  Text = 2
  Digits <- OneOrTwo
  ReplyLen = 5
INVARIANTS
  RepliesWhole
  QuietWhenClosed
PROPERTIES
  PrintsEnd
