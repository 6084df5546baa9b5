\* Two egress ports and a pod; no request fails.
SPECIFICATION Spec
CONSTANTS
  Egress <- TwoEgresses
  Pods <- OnePod
  Vids = {1, 5}
  MaxFaults = 0
  MaxNotes = 1
PROPERTY DeletesOnlyUnused
