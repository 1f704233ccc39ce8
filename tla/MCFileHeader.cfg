CONSTANTS
    f1 = f1
    f2 = f2
    Files <- MCFiles
    NumSectors = 8
    SectorSize = 2
    NumDirect = 2
    MaxSize = 9
SPECIFICATION Spec
INVARIANT TypeOK
INVARIANT ByteToSectorMatchesLayout
INVARIANT NoSectorShared
