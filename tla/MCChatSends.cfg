SPECIFICATION ChatSpec
CONSTANTS
  Send = {s1, s2, s3}
  Copies = 1
  MaxCrashes = 2
  MaxDrops = 1
SYMMETRY Symmetry
CHECK_DEADLOCK FALSE
INVARIANTS
  OneAtATime CancelledNeverSends UploadNotStranded ReturnedDraftUnsent
  ShownSentRan
