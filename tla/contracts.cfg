CONSTANTS
  b1 = b1
  b2 = b2
  send = send
  other = other
  Nil = Nil
  Relayers = {r1, r2, r3}
  Blocks = {b1, f1, b2}
  Num <- MCNum
  Id <- MCId
  NilBlocks = {f1}
  Acts = {send, other}
  Actions <- MCActions
  Types = {y1}
  Amounts = {0, 1}
  Throws = {other}
  Redeposit = TRUE
  SelfCalls = FALSE
  MaxInline = 2
SPECIFICATION MCSpec
INVARIANTS
  ContractsTypeOK DeliveredInOrder NoneStranded SumsExact OwedIsHeld
  NotCrossed ElectedTop LimitsHold
CHECK_DEADLOCK FALSE
