SPECIFICATION Spec
CONSTANTS
    s1 = s1
    s2 = s2
    disk = disk
    bucket = bucket
    Ids <- MCIds
    First <- s1
    Places <- MCPlaces
    LocalPlaces <- MCLocalPlaces
    HomeOf <- MCHomeOf
    Keys = {k}
    Blank = Blank
    Files = {f1, f2}
    Requests = {q1, q2}
    Readers = {rd}
    NoOne = NoOne
    NoId = NoId
    NoPlace = NoPlace
    NoFile = NoFile
INVARIANT StartupSucceeds
INVARIANT ChecksHoldUntilWritten
INVARIANT FilesMatchObjects
INVARIANT ReadersFindFiles
