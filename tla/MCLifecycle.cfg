SPECIFICATION LCSpec
CONSTANTS
    NaN = NaN
    Invalid = Invalid
    Scripts = {"launcher", "run-all"}
    Gateway = Gateway
    payment = payment
    ai = ai
    Simulators = {payment, ai}
    PortOf <- MCPortOf
    Environments <- MCEnvironments
    Grace = 2
    MaxInFlight = 1
    MaxIncidents = 3
INVARIANTS
    StopsInTime
    AcceptedConfigFits
PROPERTIES
    NoneLeftBehind
CHECK_DEADLOCK FALSE
