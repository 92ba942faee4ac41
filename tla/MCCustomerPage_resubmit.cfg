SPECIFICATION Spec
CONSTANTS
    Tasks = {t1, t2}
    Intents = {i1}
    MaxFaults = 1
    MaxPostings = 2
    None = None
INVARIANTS
    OnePostingPerIntent
