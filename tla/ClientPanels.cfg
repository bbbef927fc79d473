SPECIFICATION Spec
CONSTANTS
    MaxAnswers = 2
    MaxMessages = 2
    MaxProbes = 2
    MaxTexts = 2
    MaxVisits = 2
    MaxProjects = 1
    MaxRuns = 1
    MaxActs = 4
    MaxAsked = 2
    MaxFetches = 2
    MaxNovels = 2
    MaxPieces = 2
INVARIANTS
    PanelsTypeOK
    DraftSurvivesMounting
    AnsweredOnce
    ReadsFindWrites
    DocStaysHome
    NewestDocKept
    GeneratedAsShown
    SettingsReturn
    NewUntilSeen
PROPERTIES
    NewestDocStored
CHECK_DEADLOCK FALSE
