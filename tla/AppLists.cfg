CONSTANTS
    s1 = s1  s2 = s2  steam = steam  office = office
    w1 = w1  w2 = w2  games = games  tools = tools  mail = mail
    None = None  NoName = NoName
    Slot <- TwoSlots
    Bottle <- TwoBottles
    MaxActions = 4
    MaxOthers = 1
    Work <- TwoWorkers
    Name <- ThreeNames
    PipeSize = 2
    MaxClicks = 4
    MaxForeign = 1
SPECIFICATION AppsSpec
SYMMETRY AppSymmetry
INVARIANTS TypeOK ListTellsDaemon IdleNotLoading
           AlloyAppTypeOK SettledListTrue IdleNotBusy
