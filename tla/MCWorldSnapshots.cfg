SPECIFICATION FairSpec
CONSTANTS
  Keep = 1
  NoId = NoId
  NoPrint = NoPrint
  NoFile = NoFile
  NoPlan = NoPlan
  Absent = Absent
  MaxIds = 4
  MaxEvents = 3
INVARIANTS
  CurrentIsReadable
  PublishedIsWhole
  RequestedReparseIsPending
  NoWorkerOutlivesStop
  AnswersAreOneSnapshot
PROPERTIES
  CurrentNeverRegresses
  NeverSilentlyStale
  DiskFullIsRetried
CHECK_DEADLOCK FALSE
