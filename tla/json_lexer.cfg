\* Every text of a few characters, lexed, and its strings decoded and written again.
SPECIFICATION Spec
CONSTANTS
  Bad = Bad
  StringByte <- MCStringByte
  Unit <- MCUnit
  NumberByte <- MCNumberByte
  CommentByte <- MCCommentByte
  TokenByte <- MCTokenByte
  MaxChars = 6
  MaxTokens = 2
INVARIANTS TypeOK TokensAreWhatTheySpell NothingIsSkipped QuotedReadsBack EscapesKeepCodePoints
PROPERTIES LexedInTheEnd
CHECK_DEADLOCK FALSE
