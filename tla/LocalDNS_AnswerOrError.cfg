\* A QueryIP whose option enables a family, with the caller's context
\* cancelled at any point.
SPECIFICATION Spec
CONSTANT EnabledChoices = {TRUE}
INVARIANT AnswerOrError
CHECK_DEADLOCK FALSE
