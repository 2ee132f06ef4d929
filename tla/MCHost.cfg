SPECIFICATION BothSpec
CONSTANTS
  Commands = {p1, p2}
  Operations = {"destroy", "force", "reconcile", "gc"}
  Requests = {"watch", "shot", "click"}
  Kind <- MCKind
  Key <- MCKey
  WebKeys = {"web"}
  Impatient = {"click"}
  MaxSeq = 2
  MaxFailures = 1
SYMMETRY Symmetry
INVARIANTS EndedMeansOver ReportedDestroyHolds GcSparesTheLiving
PROPERTIES HostNeverRewritesTheEnd ImplementsContract CapturesShowTheLog ClicksAreCurrent
CHECK_DEADLOCK FALSE
