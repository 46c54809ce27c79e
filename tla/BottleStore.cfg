CONSTANTS
    t1 = t1  t2 = t2  b1 = b1  b2 = b2  tool = tool  game = game
    dxvk = dxvk  hud = hud  on = on  off = off  Unset = Unset  None = None
    Key <- MCKey
    Val <- MCVal
    Recipe <- MCRecipe
    Task <- MCTask
    Bottle <- TwoBottles
    Steps <- MCSteps
    MaxRequests = 6
    MaxMishaps = 1
SPECIFICATION Spec
SYMMETRY StoreSymmetry
INVARIANTS TypeOK UnreadableHasCause TornHasCause RecordIsAcked AllOrNothing DeletedStaysDeleted
PROPERTIES ListExact ListComplete ListErrorHasCause ImplementsLifecycle
