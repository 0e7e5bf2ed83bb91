\* An input with interrupts, one without, and an inverted output that is commanded.
SPECIFICATION LiveSpec
CONSTANTS
  NumLines = 3
  Outputs = {3}
  Inverted = {1, 3}
  Edge <- TwoInputsAndOutput
  Commanded = {3}
  None = None
PROPERTIES InputSettles InvertedOutputSettles
