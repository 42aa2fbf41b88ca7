\* Two runs, of one owner or of two, and two reservations at a time.
SPECIFICATION Spec
CONSTANTS
    Owners = {o1, o2}
    o1 = o1
    o2 = o2
    Planners = {o1}
    Runs = {r1, r2}
    Drafts = {d}
    None = None
    MaxCost = 2
    Costs = {1, 3}
    Ceiling = 4
    Calls = 2
    Retries = 1
    MaxVersion = 2
SYMMETRY Symmetry
INVARIANT AssistantsSound
CHECK_DEADLOCK FALSE
