SPECIFICATION Spec
CONSTANTS
  admin = admin
  guest = guest
  mItem = mItem
  gJoin = gJoin
  gItem = gItem
  gEvent = gEvent
  aCommand = aCommand
  aBare = aBare
  Message <- Bare
  NoMsg = NoMsg
  Sender <- Senders
  From <- FromOf
  Kind <- KindOf
  HasMsgId <- MsgIds
  Admins <- OnlyAdmin
  Handler = {h1, h2}
  Conn = {c1, c2}
  MaxDeliveries = 2
  MaxLost = 1
SYMMETRY Interchangeable
INVARIANT
  JobsOnlyForMembers
CHECK_DEADLOCK FALSE
