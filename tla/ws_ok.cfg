SPECIFICATION Spec
CONSTANT Requests = {1, 2, 3}
INVARIANT TypeOK NilAfterFailure
PROPERTY CancelledReturns
CHECK_DEADLOCK FALSE
