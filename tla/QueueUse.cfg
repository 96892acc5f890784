SPECIFICATION Spec
CONSTANTS
    Value = {1, 2}
    Blank = Blank
    InitialCapacity = {0, 1, 3, 8}
    MaxSize = 9
PROPERTIES Delivers
