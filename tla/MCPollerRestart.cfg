\* Polling switched off and on again.
CONSTANTS
    Loops = {l1, l2}
    Requests = {q1}
    Recons = {r1}
    Main = main
    Clients = {c1, c2}
    NoClient = none
    FailureCap = 3
    Flaky = FALSE
    Inputs = {"toggle", "tick", "signal"}
SPECIFICATION Spec
INVARIANT RunningHasLoop
CHECK_DEADLOCK FALSE
