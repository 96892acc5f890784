SPECIFICATION FairSpec
CONSTANTS
    Value = {1, 2}
    Blank = Blank
    Task = {t1, t2, t3}
    Capacities = {0, 1, 2}
    MaxSize = 2
INVARIANTS TypeOK NoReaderStranded NoWriterStranded
PROPERTIES Delivers CloseAnswersAll
