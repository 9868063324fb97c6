SPECIFICATION Spec
CONSTANTS
  Groups <- GroupsInUse
  Goals = {0, 1, 12}
  MaxStops = 1
  MaxDowngrades = 1
INVARIANTS SchemaIsOfRevision NothingInTheWay RowsFollowRevision DriftAtHead
PROPERTIES ImplementsRollout Arrives
CHECK_DEADLOCK FALSE
