\* A picture can be fetched with a fresh and with a cached token; one of the
\* lifetimes is shorter than the margin.
SPECIFICATION Spec
CONSTANTS
  text = text  mixed = mixed  link = link  place = place  picture = picture
  a = a  b = b  lan = lan
  Msg <- MCMsg
  Kind <- MCKind
  Url = {a, b, lan}
  Urls <- MCUrls
  PublicUrl = {a, b}
  Keys <- MCKeys
  Timeout = 1
  Skew = 4
  Lifetimes = {3, 6}
  MaxClock = 5
  MaxTurns = 2
INVARIANTS
  TypeOK
  TokenGoodWhenUsed
  TrailInOrder
  PublishedComplete
CHECK_DEADLOCK FALSE
