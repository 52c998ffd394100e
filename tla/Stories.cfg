SPECIFICATION Spec
CONSTANTS
    Items = {1, 2, 3}
    StoryItem = 0
    Threads <- SomeThreads
    Concurrency = 2
    Retries = 1
    Collections = 2
    Comments = {1, 2, 3, 4}
    Discussions <- SomeDiscussions
    MaximumComments = 2
    Articles <- SomeArticles
    ArticleTokens = 3
    CommentTokens = 4
    CommentSizes <- SomeSizes
    Preparers = {p1, p2}
    ArticlePages <- SomePages
    HasArchive = TRUE
    MaximumRedirects = 1
    Stories = {"s", "t"}
    MaxJobs = 2
    ArticleTexts = {"a"}
    CommentTexts = {"c"}
    Versions = {1, 2}
    MaxChanges = 1
    CitedIds = {1, 2, 8, 9}
    SelectedComments = {1, 2}
    LlmAnswers <- SomeAnswers
    MaxClaims = 2
    MaxInsights = 1
    MaxSupport = 2
    MaxNotes = 2
    MaxCitationAttempts = 2
    MaxAttempts = 3
    Schedulers = {"A", "B"}
    Zones <- SomeZones
    Hours <- SomeHours
    DayHours = 4
    EditionTimes = {1, 3}
    LookBackDays = 1
    MissedRunGrace = 3
    TopStories <- Ranking
    StoryCount = 1
    Gone <- Unavailable
    FirstHour = 0
    LastHour = 4
    Requests = {"r1", "r2", "r3"}
    IdentitiesOf <- Identified
    Limit = 1
    Window = 2
    MaxDelay = 1
    LastMoment = 3
INVARIANTS
     ContextIsFair RestrictedIsRespected 
      
PROPERTIES
     LimitsAreKept PartsEnd
CHECK_DEADLOCK FALSE
