CONSTANTS
  Statuses = {0, 1}
  Writers = {w1, w2}
  Sizes = {2}
  Limit = 3
  Nobody = Nobody
SYMMETRY Symmetry
SPECIFICATION RunSpec
INVARIANTS TypeOK TrapsMatchAnswer AnswerTellsTruth
PROPERTIES RefinesRunLifecycle RefinesSink
