SPECIFICATION Spec
CONSTANTS
    local = local
    openai = openai
    right = right
    wrong = wrong
    blank = blank
    r1 = r1
    r2 = r2
    Apps = {local, openai}
    AppOrder <- AsDiscovered
    AIApps = {local, openai}
    Local = local
    Configs = {right, wrong, blank}
    Blank = blank
    Embedding = right
    Accepts <- Creatable
    Works <- Valid
    NotRunning = NotRunning
    Requests = {r1}
INVARIANTS
    CloudCompletes
