\* Limits and bookkeeping of the streams, and the release of those that were left.
SPECIFICATION Spec
CONSTANTS
  v1 = v1
  v2 = v2
  s1 = s1
  s2 = s2
  s3 = s3
  Viewers = {v1, v2}
  Streams = {s1, s2, s3}
  None = None
  MaxStreams = 1
  MaxReleasing = 2
INVARIANTS TypeOK StreamLimits OwnStreamOnly ViewersCounted
PROPERTY LeftStreamsGo
