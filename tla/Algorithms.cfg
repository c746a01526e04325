SPECIFICATION Spec
CONSTANTS
    MaxDirs = 4
    MaxDepth = 2
    Dashed = {"-m", "--model", "--host", "--port", "-p", "--mmproj", "-c", "-fa"}
    MaxJSON = 2
    MaxUpload = 3
    Filler = ""
    NoModel = "none"
    MaxString = 3
    MaxParsed = 2
    MaxNesting = 3
    Huge = 1048576
    Limit = 4
    Newline = "n"
INVARIANTS WalkFindsAll CommandSound StreamFaithful FiguresAsMeasured RequestWhole FilesReadRight
CHECK_DEADLOCK FALSE
