SPECIFICATION SessionSpec
CONSTANTS
    Fetches <- MCFetches
    scheduler = scheduler
    populate = populate
    WarmRequests = 2
    RequestTimeout = 2
    Deadline = 3
INVARIANTS DeadlineSparesWarmFetch
