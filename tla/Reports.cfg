\* Two nodes with one bridge each, and one failing request or deleting user.
SPECIFICATION FairSpec
CONSTANTS
  Nodes <- TwoNodes
  Bridges <- OneBridge
  Ports = {"veth"}
  Names <- DashNames
  InfoName <- DashName
  Nobody = "nobody"
  MaxFaults = 1
INVARIANTS TypeOK ReportsNamed
PROPERTIES KeepsOthersReports ReportsSettle
