\* Two purchases at once, ids that come round, late and damaged answers.
CONSTANTS
  Customer = {c1, c2}
  LastId = 4
  Nobody = Nobody
  Deleted = Deleted
  Absent = Absent
SPECIFICATION FairSpec
INVARIANTS
  OwnerWaits
  AnswerFindsAsker
PROPERTIES
  CustomersEnd
CHECK_DEADLOCK FALSE
