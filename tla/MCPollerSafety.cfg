\* Every interleaving of two loops, a request, two reconnects and main.
CONSTANTS
    Loops = {l1, l2}
    Requests = {q1}
    Recons = {r1, r2}
    Main = main
    Clients = {c1, c2, c3}
    NoClient = none
    FailureCap = 3
    Flaky = TRUE
    Inputs = {"toggle", "tick", "signal"}
SPECIFICATION Spec
SYMMETRY Symmetry
INVARIANTS
    TypeOK
    TickExclusion
    SingleReconnect
    NoClientLeak
    CurrentClientOpen
    AlertedOnlyWhenFailing
    PollerInv
PROPERTY ImplementsContract
CHECK_DEADLOCK FALSE
