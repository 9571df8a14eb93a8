SPECIFICATION Spec
CONSTANTS
  Callers = {g1, g2}
  Statuses = {200, 401, 404, 429, 503}
  Headers = {Empty, After30}
  Empty = Empty
  MaxCalls = 2
SYMMETRY Symmetry
INVARIANTS
  TypeOK
  UndisturbedIsOwn
  SelfEvidentSurvives
