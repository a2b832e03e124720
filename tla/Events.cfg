CONSTANTS
  Workers = {w1, w2, w3}
  MaxPublish = 4
  MaxExpiries = 2
  Nil = Nil
SPECIFICATION Spec
INVARIANTS TypeOK CountsEveryWrite TimesInOrder
PROPERTIES FirstOccurrenceKept
CHECK_DEADLOCK FALSE
