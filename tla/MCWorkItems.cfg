SPECIFICATION Spec
CONSTANTS
    Items = {i1, i2}
    NoItem = NoItem
    Kinds = {"epic", "feature", "story"}
    Analyses = {a1}
    NoAnalysis = NoAnalysis
    Sessions = {s1, s2}
SYMMETRY Symmetry
INVARIANTS TypeOK References DependenciesUnlessRaced HierarchyUnlessRaced RootedUnlessRaced OneApplicationUnlessRaced
CHECK_DEADLOCK FALSE
