CONSTANTS
  b1 = b1
  b2 = b2
  send = send
  other = other
  Nil = Nil
  Relayers = {r1, r2, r3}
  Blocks = {b1, b2}
  Num <- MCNum
  Id <- MCId
  NilBlocks = {}
  Acts = {send, other}
  Actions <- MCActions
  Types = {y1}
  Amounts = {1, 2}
  Throws = {}
  Redeposit = FALSE
  SelfCalls = TRUE
  MaxInline = 8
SPECIFICATION MCSpec
INVARIANTS ConfirmExact NeverStalls PeersTracked
PROPERTIES AllRelayed NodesConverge
CHECK_DEADLOCK FALSE
