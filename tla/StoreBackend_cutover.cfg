SPECIFICATION BackendSpec
CONSTANTS
 Entries = {1,2,3}
 Fixed = {}
 MaxJobs = 4
 MaxEdits = 1
CHECK_DEADLOCK FALSE
PROPERTY LiveStoreReviewed
