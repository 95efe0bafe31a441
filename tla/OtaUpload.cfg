SPECIFICATION FairSpec
CONSTANTS
    u1 = u1  u2 = u2  NULL = NULL  Factory = Factory
    Uploads = {u1, u2}
    BodyLen <- MCBodyLen
    HeaderLen = 2
    MaxRead = 3
    Damaged = {}
INVARIANTS TypeOK OneHandle RunningIntact CleanUploadInstalled
PROPERTIES UploadAnswered
