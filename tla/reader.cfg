CONSTANTS
    Responses <- MCResponses
    FollowUps <- MCFollowUps
    ProgressTimeout = 1
SPECIFICATION Spec
INVARIANTS ReadIsReference NoMissedMarker InactiveHasNoProgress IdleIsEmpty
CHECK_DEADLOCK FALSE
