CONSTANTS
    t1 = t1
    t2 = t2
    press1 = press1
    text1 = text1
    None = None
    Tasks = {t1, t2}
    DayEnd = 2
    Reported = {"started", "completed", "skipped"}
    Events = {press1, text1}
    Buttons = {press1}
    FormalTitles = {t2}
    ModelActions = {"completed"}
    At <- AtDef
    Plans <- PlansDef
    Presses <- PressesDef
    Messages <- MessagesDef
    Earlier <- EarlierDef
    Remembered = 1
    Handlers = {1, 2}
    MaxTries = 2
    MaxFaults = 1
SPECIFICATION MCSpec
INVARIANTS TypeOK FeedbackIsGrounded AnsweredIsRecorded ReplyTellsRecord
PROPERTIES TextActionIsPlanned TextGoesToOpenTask EveryReportAnswered
CHECK_DEADLOCK FALSE
