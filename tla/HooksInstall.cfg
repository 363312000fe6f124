SPECIFICATION Spec
CONSTANTS
    Other = {o1, o2}
    Ours = Ours
    MaxGroups = 2
    MaxEdits = 3
SYMMETRY Symmetry
INVARIANTS OthersHooksStay DoneIsDone RegisteredHasScript
