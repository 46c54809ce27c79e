CONSTANTS
    d1 = d1  d2 = d2  c1 = c1  c2 = c2  b1 = b1  b2 = b2
    a1 = a1  a2 = a2  k1 = k1  k2 = k2
    None = None  Absent = Absent  System = System
    Version <- TwoVersions
    RecipeFile <- FiveRecipes
    StartRecipes <- Shipped
    Budgets <- MCBudgets
    Daemon <- TwoDaemons
    Client <- TwoClients
    Bottle <- TwoBottles
    ShortcutName <- Names
    Commands <- MCCommands
    Trees <- SomeTrees
    AlloyDaemon <- TwoAlloyDaemons
    AlloyClient <- TwoAlloyClients
    AlloyCommands <- MCAlloyCommands
SPECIFICATION Spec
SYMMETRY WorkSymmetry
INVARIANTS TypeOK ReachableWhenSettled RuntimeHonoured RecipesWhole BundleWhole AlloyReachable RuntimeComplete CatalogueWhole
