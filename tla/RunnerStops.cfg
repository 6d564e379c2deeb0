SPECIFICATION Spec
CONSTANTS
  s1 = s1
  s2 = s2
  t1 = t1
  t2 = t2
  Starters = {s1, s2}
  Stoppers = {t1, t2}
  Prompts = 2
  Kinds = {"benign", "loading", "inference", "training"}
  MaxRuns = 2
INVARIANTS StrayIsTold HonestIsNotAccused
SYMMETRY RequestSymmetry
CHECK_DEADLOCK FALSE
