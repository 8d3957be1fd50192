\* One key varied over every layer; one doctor, one start, one callback.
SPECIFICATION Spec
CONSTANTS
    Block = 4
    Random = 2
    Launches <- MCLaunches
    Requests <- MCRequests
    Issued <- MCIssued
    AppBytes <- MCAppBytes
    Messages <- MCMessages
    Noise <- MCNoise
INVARIANTS
    TypeOK
    TopLayerDecides
    ReportTellsTheSource
    ApprovedServiceAnswers
    AcceptedIsGenuine
\* A command ends, a service that answered its one callback stops.
CHECK_DEADLOCK FALSE
