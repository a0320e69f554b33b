\* Two EMR steps or ECS containers: enough for a step that is rewritten
\* next to one that is not.  Every operator class and argument shape.
CONSTANTS
    MaxSteps = 2
    None = None

SPECIFICATION Spec

INVARIANT TypeOK
INVARIANT ProviderJobTracked

\* Wrapping is one step: the operator then runs, outside this model.
CHECK_DEADLOCK FALSE
