CONSTANTS
  MessageCapacity = 4
  MaxLen = 6
  MaxNesting = 2
SPECIFICATION Spec
PROPERTY
  PrintfWritesAll
