CONSTANTS
    t1 = t1
    t2 = t2
    c1 = c1
    c2 = c2
    NoText = NoText
    NoList = NoList
    NoValue = NoText
    HttpEntities = {"e1", "e2"}
    Names = {"n"}
    Servers = {t1, t2}
    Tvs = {t1, t2}
    Vars = {"Volume"}
    MaxSids = 2
    MaxAge = 2
    MaxMoves = 2
    MaxRequests = 2
    Calls = {c1, c2}
    Invocations <- MCRequests
    Descriptions <- MCDescriptions
    Outcomes <- MCOutcomes
    Alnum = {"S", "P", "V"}
    MaxRegistrations = 2
    Descs <- AllDescs
    Targets <- AllTargets
    Mxs = {0}
    DEFAULT_MX = 2
    MAX_TIME_TOREAD = 3
    Junk <- MCJunk
    MaxDatagrams = 2
    MaxLate = 1
    Answers <- MCAnswers
    SOCKET_BUFFER_SIZE = 3
    BUFSIZE = 2
    HTTP_READ_BYTES <- NoLimit
    RequestSize = 2
    BasePaths <- MCBasePaths
    MaxRel = 4
INIT Init
NEXT Next
CHECK_DEADLOCK FALSE
INVARIANTS
    TreeSound ListSound TableCurrent SearchSound DescriptionTold RoundTrip
    AliasSound UrlResolved ControlAnswered TableComplete TransferWhole HeadersKept
