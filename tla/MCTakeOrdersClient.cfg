SPECIFICATION Spec
CONSTANTS
    Request <- MCRequest
    MaxFlakes = 1
INVARIANTS ReadyWillSucceed BestOfHealthy
