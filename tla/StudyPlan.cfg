SPECIFICATION Spec
CHECK_DEADLOCK FALSE
CONSTANTS
  reading = reading
  essay = essay
  goal = goal
  Items = {"q"}
  Scores = {40, 80}
  MaxHint = 1
  Skills = {reading, essay}
  Objectives = {goal}
  Activities = {a}
  SkillOf <- OfEssay
  SkillOfItem <- OfReading
  CriterionSkill = essay
  Sessions = {s}
  Requests = {q1, q2}
  MaxCommits = 4
  MaxRow = 3
  MaxRequests = 3
  MaxEvents = 5
  Nil = Nil
SYMMETRY OneLikeAnother
INVARIANTS
  TypeOK
  ModelCurrent
PROPERTIES
  DoneStaysDone
