CONSTANTS
    t1 = t1  t2 = t2  steam = steam  office = office  setup = setup  tweak = tweak
    None = None
    Task <- TwoTasks
    Name <- OneName
    Recipe <- TwoRecipes
    Steps <- MCSteps
    MaxRequests = 3
    MaxMishaps = 1
SPECIFICATION FairSpec
INVARIANTS TypeOK
PROPERTIES RunAnswerMeansExited RecipeStopsAtFailure EveryRequestAnswered
