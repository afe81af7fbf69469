CONSTANT Parts = {"matching", "billing", "file", "access", "assistant", "listing", "money", "figures", "import page", "close page"}
SPECIFICATION Spec
INVARIANTS
  ProposalsSound
  MonthBilledOnce
  RowsAccounted
  ActsWithinAccess
  AnswersAreGrounded
  WalkSeesAll
  MoneyExact
  
  PagesActOnWhatTheyShow
CHECK_DEADLOCK FALSE
