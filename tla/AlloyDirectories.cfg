CONSTANTS
    t1 = t1  t2 = t2  steam = steam  office = office  setup = setup  tweak = tweak
    None = None
    Task <- TwoTasks
    Name <- TwoNames
    Recipe <- NoRecipes
    Steps <- NoSteps
    MaxRequests = 4
    MaxMishaps = 1
SPECIFICATION Spec
SYMMETRY TaskSymmetry
INVARIANTS DirectoryHasBottle
PROPERTIES ListExact ListComplete
