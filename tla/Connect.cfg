\* Eleven kinds of client against six server configurations and three states
\* of the PKI directories: two operations, one fault, one restart.
CONSTANTS
  Servers <- MCServers
  Parameters <- MCParameters
  InitialFiles <- MCFiles
  Sizes = {7}
  MaxOperations = 2
  MaxFaults = 1
  MaxRestarts = 1
SPECIFICATION Spec
INVARIANTS
  TrustedPeer
  SelectionStands
  RefusalsExplained
  LastWordIsTrue
  FoundIsDialable
