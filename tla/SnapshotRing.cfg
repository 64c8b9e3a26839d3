SPECIFICATION RingSpec
CONSTANTS
  Capacity = 3
  Snapshots = {s1, s2, s3}
  Zero = Zero
  None = None
PROPERTY IsBoundedHistory
