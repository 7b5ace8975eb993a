CONSTANTS
    dump = dump
    list = list
    Downloads <- TheDownloads
    Lists <- TheLists
    MaxChanges = 1
    MaxQueued = 1
    MaxFaults = 1
SPECIFICATION Spec
CHECK_DEADLOCK FALSE
INVARIANTS QueueIsServed SourceIsWhole InstalledIsWhole WorkReachesStore
