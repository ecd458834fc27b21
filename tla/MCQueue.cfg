SPECIFICATION Spec
CONSTANT MaxFaults = 2
INVARIANTS TypeOK UserReachesSend
PROPERTIES CancelEndsSend ReachedInTheEnd
