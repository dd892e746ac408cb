\* Three elements of 64: a row of 192, as a hidden size of 768 / 4 would be.
CONSTANTS
  MaxRows = 2
  HiddenSizes = {1, 2, 3, 4}
  Schemes = {"int8", "fp8_channel"}
  TokenPrograms = 2
SPECIFICATION BatchedSpec
INVARIANT ScalesAreOfTheirGroup
\* apply() returns.
CHECK_DEADLOCK FALSE
