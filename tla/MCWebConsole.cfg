SPECIFICATION Spec
CONSTANTS
    acme = acme
    globex = globex
    findingA = findingA
    findingG = findingG
    Tenants = {acme, globex}
    Findings = {findingA, findingG}
    Owner <- MCOwner
    Capabilities = {"explain", "map"}
    None = none
    MaxFlight = 2
INVARIANTS
    TypeOK
    ShellIsGuarded
    ShownIsOwn
    AnalysisMatchesFinding
    RoutedPageIsShown
    NoOrphanSpinner
CHECK_DEADLOCK FALSE
