\* Two states, entries of one and two length digits, a process that is killed once.
SPECIFICATION Spec
CONSTANTS
    Ids <- MCIds
    Data <- MCData
    Base = 4
    MaxCrashes = 1
INVARIANTS
    Durable
    SnapshotIsFile
PROPERTIES
    StartKeepsFile
