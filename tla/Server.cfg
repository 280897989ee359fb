SPECIFICATION ServerSpec

CONSTANTS
    Handlers = {h1, h2}
    Requests = {h1, h2}
    Background = {worker}
    Latest = 2
    h1 = h1
    h2 = h2
    worker = worker
    Mailboxes = {anna, seed}
    Seeded = {seed}
    anna = anna
    seed = seed
    Words = {"secret"}
    None = None

INVARIANTS
    ServerTypeOK
    SchemaBeforeUse
    NothingInterrupted
    OneAccountPerAddress
    AnswersAreTrue

PROPERTIES
    LoginRefusedRightly
    ProcessEnds
