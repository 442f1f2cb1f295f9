SPECIFICATION FairSpec
CONSTANTS
  Clients = {c1, c2}
  Groups = {g1}
  NoGroup = NoGroup
  Blocks = {b1, b2}
  Null = Null
  NoOne = NoOne
  Sender = Sender
  Local = Local
  NoArgs = NoArgs
  MaxSaid = 1
INVARIANTS TypeOK OnlyLeaversBreakIt SenderStaysOnList EveryMatchServed WrongEarAfterClose
PROPERTY LeaversGo
CHECK_DEADLOCK FALSE
