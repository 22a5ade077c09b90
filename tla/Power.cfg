SPECIFICATION FairSpec
CONSTANTS
  Job = {j1, j2}
  NoJob = NoJob
  Verb = {"start", "restart"}
INVARIANTS Attributed SavedOrAdmitted RunsAtMostOnce HonestPhase
PROPERTIES JobsSettle
