CONSTANTS
    t1 = t1  t2 = t2  steam = steam  office = office  setup = setup  tweak = tweak
    None = None
    Task <- TwoTasks
    Name <- OneName
    Recipe <- OneRecipe
    Steps <- SetupSteps
    MaxRequests = 2
    MaxMishaps = 0
SPECIFICATION Spec
PROPERTIES CreatedOnce
