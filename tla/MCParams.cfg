CONSTANTS
  StackLimit = 12
  AnchorDepth = 8
  Passes = 3
  Documents <- MCDocuments
SPECIFICATION Spec
CHECK_DEADLOCK FALSE
INVARIANTS LayersAddUp ResultIsMeaning
PROPERTIES MemoIsInvisible WritesTakeEffect
