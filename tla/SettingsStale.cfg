CONSTANTS
    Fields = {f1, f2}
    Values = {v1, v2}
    Unset = Unset
    Rough = Rough
    Normal = v1
    Optional = {f1}
    MaxEdits = 2
    MaxOthers = 0
    MaxFailures = 0
SPECIFICATION Spec
INVARIANT SavedStaysShown
