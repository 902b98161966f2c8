\* One agent; one answer lost, one crash, one retry of each job; server and agent fair.
SPECIFICATION FairSpec
CONSTANTS
    Labels = {l1}
    Agents = {a1}
    Clerks = {u1, u2}
    Printers = {"cloud", "lan"}
    MaxJobs = 3
    MaxLosses = 1
    MaxCrashes = 1
    MaxRetries = 1
CHECK_DEADLOCK FALSE
INVARIANT PrintedAsRecorded
PROPERTIES PrintingIsReported PendingIsTaken
