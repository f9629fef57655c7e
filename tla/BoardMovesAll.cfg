SPECIFICATION Spec
CONSTANTS
  Keys = {1}
  Statuses = {todo, doing, review}
  todo = todo
  doing = doing
  review = review
  Columns <- TwoColumns
  Sprints = {backlog, s1}
  None = None
  SprintBatch = 20
  MaxId = 2
  Env <- Unraced
INVARIANT TypeOK
INVARIANT MoveIsShown
INVARIANT NoMoveLost
PROPERTY PushedFromWhereItWas
PROPERTY HeldForAReason
