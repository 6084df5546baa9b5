\* One egress port, a pod whose interface comes, goes and changes its vlan, and both
\* goroutines at work on it.
SPECIFICATION FairSpec
CONSTANTS
  Egress <- OneEgress
  Pods <- OnePod
  Vids = {1, 5}
  MaxFaults = 1
  MaxNotes = 1
INVARIANT TypeOK
PROPERTIES UsedVlansReachEgress UnusedVlansLeaveEgress UntaggedGetsThrough
