\* One error while a message is handled.
SPECIFICATION Spec
CONSTANTS
    Transits = {1}
    Statuses = {}
    Packages = {1}
    PackageOf <- EachItsOwn
    Exhausted = {}
    Here = {}
    Held = {}
    Insured = {}
    Ours = {}
    Handlers = {h1}
    Drainers = {}
    BatchSize = 1
    MaxPerRun = 1
    MaxCopies <- Once
    MaxFaults = 1
INVARIANTS DroppedWasProcessed
