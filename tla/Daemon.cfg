CONSTANTS
    c1 = c1
    c2 = c2
    k1 = k1
    io = io
    main = main
    None = None
    Callers = {io, main, t1}
    Connections = {c1, c2}
    Jobs = {1, 2, 3, 4, 5}
    max_jobs = 2
    normal_capacity = 1
    completion_capacity = 2
    Registrations = {1, 2}
    Threads = {k1, k2}
    SizeMax = 7
    body_limit = 2
    body_room = 15
    Workloads <- DaemonWorkloads
    Initial <- TwoClosed
SPECIFICATION Spec
INVARIANTS
    AnswersAreTruthful
    IndexHoldsResidents
    EveryCompletionIsAwaited
    NothingOutlivesTheWriter
    FailureSealsAfterTheLast
    BodyVerdictIsOfItsBytes
PROPERTIES
    EveryConnectionEnds
    StopCompletes
