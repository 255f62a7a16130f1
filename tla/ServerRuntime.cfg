SPECIFICATION Spec
CONSTANTS
    MaxSessions = 2
    Users = {single}
    MultiSessionUsers = {}
    Anonymous = Anonymous
    Peers = {tcp, ws}
    WebSockets = {ws}
    SecureChannels = {tcp}
    Calls = {k1, k2}
    RequestedTimeouts = {9}
    RequireEncryption = TRUE
    DefaultTimeout = 1
    MinTimeout = 1
    MaxTimeout = 1
    MaxSubscriptions = 1
SYMMETRY CallSymmetry
INVARIANTS OneSessionPerUser RegistriesAgree
PROPERTY DisplacedOnlyOnRequest
