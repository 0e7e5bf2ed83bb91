\* One late answer, two registers of a module.
SPECIFICATION LiveSpec
CONSTANTS
  Calls <- TwoRegisters
  Values = {0, 255}
  Faults = {"late"}
  MaxWaiting = 2
PROPERTY TransientErrorsPass
