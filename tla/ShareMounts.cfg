CONSTANTS
    a = a
    e1 = e1
    e2 = e2
    None = None
    Names = {a}
    Editors = {e1,e2}
    Usages = {"media", "internal"}
    Exportable = {a}
    Leftovers <- FewLeftovers
    MaxChanges = 2
    Faults = {"run"}
    Prompt = TRUE
SPECIFICATION SmallSpec
PROPERTIES MountsFollow
CHECK_DEADLOCK FALSE
