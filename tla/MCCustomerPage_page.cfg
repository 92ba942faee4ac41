SPECIFICATION FairSpec
CONSTANTS
    Tasks = {t1, t2}
    Intents = {i1}
    MaxFaults = 1
    MaxPostings = 1
    None = None
INVARIANTS
    PageTypeOK
    OneHandlerAtATime
    QuietPageIsCurrent
PROPERTIES
    ActionsEnd
    NoRedirectLoop
