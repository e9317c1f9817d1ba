SPECIFICATION ShrinkingSpec
INVARIANT CommittedBecomesHead
CHECK_DEADLOCK FALSE
