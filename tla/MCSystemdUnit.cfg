CONSTANTS
  Stable = 2
SPECIFICATION Spec
INVARIANTS SaidIsTrue RetrySucceeds
PROPERTIES ImplementsAdapter DeletedLast
