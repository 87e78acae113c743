\* One chat, a message each way, two handlers, one restart or failing query.
SPECIFICATION Spec
CONSTANTS
  u1 = u1
  u2 = u2
  m1 = m1
  m2 = m2
  c1 = c1
  User = {u1, u2}
  Message = {m1, m2}
  Chat = {c1}
  Handler = {p1, p2}
  SenderOf <- OneSender
  ChatOf <- OneChat
  Pair <- OnePair
  NoUser = NoUser
  NoMessage = NoMessage
  NoChat = NoChat
  MaxSockets = 1
  MaxRefreshing = 0
  MaxFaults = 1
SYMMETRY Handlers
INVARIANTS
  TypeOK
  ReadImpliesDelivered
  DeliveryInv
PROPERTY
  ImplementsReceiptLife
