CONSTANTS
    f1 = f1
    f2 = f2
    Files <- MCFiles
    NumSectors = 8
    SectorSize = 2
    NumDirect = 2
    MaxSize = 5
SPECIFICATION Spec
INVARIANT SectorsAccounted
