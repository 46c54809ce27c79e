CONSTANTS
    t1 = t1  t2 = t2  b1 = b1  b2 = b2  tool = tool  game = game
    dxvk = dxvk  hud = hud  on = on  off = off  Unset = Unset  None = None
    Key <- MCKey
    Val <- MCVal
    Recipe <- MCRecipe
    Task <- OneTask
    Bottle <- OneBottle
    Steps <- MCSteps
    MaxRequests = 2
    MaxMishaps = 0
SPECIFICATION Spec
PROPERTIES AckedBottleListed
