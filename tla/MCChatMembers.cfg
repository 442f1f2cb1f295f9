SPECIFICATION Spec
CONSTANTS
  Clients = {c1, c2, c3}
  Groups = {g1}
  NoGroup = NoGroup
  Blocks = {b1, b2, b3}
  Null = Null
  NoOne = NoOne
  Sender = Sender
  Local = Local
  NoArgs = NoArgs
  MaxSaid = 0
INVARIANTS ListOfMembers OnlyLeaversBreakIt LoginHeard ExitHeardUnlessReused
SYMMETRY Symmetry
CHECK_DEADLOCK FALSE
