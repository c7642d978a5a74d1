SPECIFICATION Spec
CONSTANTS
    Data = {0, 1}
    BlockSize = 2
    Half = 8
    MaxOff = 2
    MaxLen = 4
PROPERTIES FileSpec
VIEW View
