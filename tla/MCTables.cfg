\* The plans of MCTableOperators on words of 4 bits, with halves of 2.
SPECIFICATION Spec
CONSTANTS
  Width = 4
  Calls <- MCCalls
INVARIANTS TypeOK SortKeeps TreeKeeps AnswerExact
