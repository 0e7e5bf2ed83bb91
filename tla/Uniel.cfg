\* Answers and ports fail, answers are not late.
SPECIFICATION LiveSpec
CONSTANTS
  Calls <- AllCalls
  Values = {0, 255}
  Faults = {"line", "port"}
  MaxWaiting = 1
INVARIANT OwnAnswer
PROPERTY Recovers
