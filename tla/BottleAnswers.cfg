CONSTANTS
    t1 = t1  t2 = t2  b1 = b1  b2 = b2  tool = tool  game = game
    dxvk = dxvk  hud = hud  on = on  off = off  Unset = Unset  None = None
    Key <- MCKey
    Val <- MCVal
    Recipe <- MCRecipe
    Task <- MCTask
    Bottle <- OneBottle
    Steps <- CopySteps
    MaxRequests = 5
    MaxMishaps = 1
SPECIFICATION FairSpec
INVARIANTS ResurrectionHasCause
PROPERTIES EveryRequestAnswered
