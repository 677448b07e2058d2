\* Outages, reconnects, toggles and shutdown under the scheduler's fairness.
CONSTANTS
    Loops = {l1}
    Requests = {q1}
    Recons = {r1}
    Main = main
    Clients = {c1, c2}
    NoClient = none
    FailureCap = 3
    Flaky = FALSE
    Inputs = {"toggle"}
SPECIFICATION FairSpec
PROPERTIES
    PollerHeals
    StopEndsLoops
CHECK_DEADLOCK FALSE
