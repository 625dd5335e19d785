SPECIFICATION Spec
CONSTANTS
  Texts = {detailA, plain, empty}
  Sensitive = {detailA}
  plain = plain
  EmptyText = empty
  MaxEdits = 1
  MaxVersion = 1
  Requests = {q1, q2}
  Kinds = {"card", "badge"}
  Backlog = 1
  Nobody = nobody
PROPERTIES
  AiAnswers
  EverybodyIsAnswered
CHECK_DEADLOCK FALSE
