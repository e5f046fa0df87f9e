CONSTANTS
    Components = {"streams", "containers", "texts", "bodies", "allocator", "hashes", "processes", "packets", "descriptor", "channels"}
    Off = Off
    Cases <- MCCases
    boundary <- MCboundary
    HeaderLine <- MCHeaderLine
    pipeline_limit = 2
    MaxRead = 60
    Short = 10
    Long = 13
    Block = 8
    WS_MAX_FRAME_SIZE = 14
    max_msg_size = 27
    Hash <- MCHash
    HashBits = 8
    FIO_SET_CUCKOO_STEPS = 11
    FIO_SET_MAX_MAP_SEEK = 96
    FIO_SET_MAX_MAP_FULL_COLLISIONS = 96
    FIO_STR_SMALL_CAPA = 4
    WORD = 4
    Nodes = {1, 2, 3, 4}
    List = 0
    FIO_ARY_PADDING = 4
    UNSHIFT_ROOM = 8
    Keys = {"a", "b", "c"}
    Objs <- MCObjs
    Letters = {"x", "y"}
    MaxItems = 3
    MaxCapa = 14
    MaxObjs = 3
    MaxRefs = 2
    Structs = {"list", "array", "string", "map", "objects"}
    Unsound = {}
    Jobs <- MCJobs
    Files <- MCFiles
    Trees <- MCTrees
    Templates <- MCTemplates
    Contexts <- MCContexts
    MUSTACHE_NESTING_LIMIT = 12
    CliNames <- MCCliNames
    JSON_MAX_DEPTH = 6
    Word = 4096
    PARAMS_MAX_DEPTH = 5
    NESTING = 4
    LONGEST_FILE_EXTENSION_LENGTH = 15
    MimeTypes <- MCMimeTypes
    public_folder <- MCFolder
    Roots <- MCRoots
    STACK = 3
    PAGE = 1
    HTTP_MAX_HEADER_LENGTH = 2
    Chunks <- MCChunks
    MaxLen = 2
    MaxStreams = 2
    Pthread = {t1, t2}
    Arena = {1, 2}
    Mapping = {1}
    FIO_MEMORY_BLOCKS_PER_ALLOCATION = 2
    FIO_MEMORY_BLOCK_SLICES = 4
    FIO_MEMORY_BLOCK_START_POS = 1
    Sizes = {1, 3, 5}
    FIO_MEMORY_BLOCK_ALLOC_LIMIT = 3
    Slots = {1, 2}
    NULL = NULL
    Faults = {}
    Variants <- MCVariants
    Pieces = {0, 1, 2, 3, 5, 7, 13}
    MaxMessage = 19
    MaxResults = 2
    Process <- Processes
    Listener = {"l1", "l2"}
    UnixSocket = {"l1"}
    Client = {"c1"}
    Task = {"a", "b"}
    MaxStarts = 2
    Threads = 2
    NONE = NONE
    Reactor = {r}
    Caller = {c}
    IO = {i}
    Packet = {p1, p2}
    Own = {}
    Urgent = {p2}
    API = {"write", "close"}
    Closer = {c}
    Outcome = {"all", "part", "again"}
    Hooked = FALSE
    SLOWLORIS = 1
    MaxConn = 1
    MaxUses = 4
    Subscription = {"s", "d", "e"}
    Direct = {"d"}
    Handler = {"h1", "h2"}
    Outside = {"o"}
    Clumsy = {}
    MaxMessages = 2
    MaxCalls = 2
    FREE = FREE
SPECIFICATION Spec
CHECK_DEADLOCK FALSE
INVARIANTS
    StreamsSound
    Represents
    TextsConverted
    BodiesReadAsWritten
    AllocationsSound
    HashOfTheWhole
    ProcessesSound
    PacketsSound
    ChannelsSound
PROPERTIES
    FormAdvances
