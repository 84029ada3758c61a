CONSTANTS
  s1 = s1
  s2 = s2
  k1 = k1
  k2 = k2
  Supers = {s1, s2}
  Cores = {k1, k2}
  Stable = 1
  Polls = 1
SPECIFICATION FairSpec
INVARIANTS GuardedCore OneOfEach
PROPERTIES ImplementsAdapter AnswersAreOwn StopCleans CallEnds
