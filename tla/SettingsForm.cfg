CONSTANTS
    Fields = {f1, f2}
    Values = {v1, v2}
    Unset = Unset
    Rough = Rough
    Normal = v1
    Optional = {f1}
    MaxEdits = 2
    MaxOthers = 1
    MaxFailures = 1
SPECIFICATION Spec
INVARIANTS CleanMeansSaved FreshIsShown
PROPERTY SavesOnlyEdits
