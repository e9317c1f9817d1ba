SPECIFICATION MCSpec
INVARIANTS
  ExecutionTypeOK TablesHold ChargesExact AuthorityHolds RecordsAgree RunsExact
  LimitsAgree
CHECK_DEADLOCK FALSE
