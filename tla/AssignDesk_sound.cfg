CONSTANTS
  Submission = {1, 2, 3}
  Evaluator = {1, 2}
  Question <- Questions
SPECIFICATION Spec
INVARIANTS PlanSound
