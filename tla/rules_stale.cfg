\* An update given a version that is no longer the rule's.
CONSTANTS
  p1 = p1  p2 = p2
  Workers = {w1, w2}
  Rules = {1}
  Plans = {p1, p2}
  None = None
  MaxId = 3
SPECIFICATION Spec
PROPERTY StaleUpdatesRefused
