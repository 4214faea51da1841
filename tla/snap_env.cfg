SPECIFICATION Spec
CONSTANTS
  Ports <- MCPorts
  Commands <- MCCommands
INVARIANTS TypeOK DoneMeansSnapped NoneAskedUnparsed ParsedAsWritten PodArchiveParses
PROPERTY SnapEnds
CHECK_DEADLOCK FALSE
