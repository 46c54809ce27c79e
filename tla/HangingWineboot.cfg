CONSTANTS
    t1 = t1  t2 = t2  steam = steam  office = office  setup = setup  tweak = tweak
    None = None
    Task <- OneTask
    Name <- OneName
    Recipe <- OneRecipe
    Steps <- SetupSteps
    MaxRequests = 1
    MaxMishaps = 0
SPECIFICATION HangingSpec
PROPERTIES CreationEnds
