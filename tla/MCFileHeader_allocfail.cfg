CONSTANTS
    f1 = f1
    f2 = f2
    Files <- MCFiles
    NumSectors = 4
    SectorSize = 2
    NumDirect = 2
    MaxSize = 9
SPECIFICATION Spec
INVARIANT SectorsAccounted
