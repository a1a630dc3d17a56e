\* Every kind of request among an edit of the shop and a failing statement.
SPECIFICATION CatalogSpec
CONSTANTS
  Products = {1, 2, 3, 4}
  Categories = {"food", "fruit", "bread"}
  None = None
  Parent <- MCParent
  Price <- MCPrice
  Sections <- MCSections
  Rules <- MCRules
  Starts <- MCStarts
  Queries <- MCQueries
  Limit = 2
  LevelLimit = 1
  TreeLimit = 3
  ShelfCap = 2
  Milli = 2
  MaxTime = 4
  EditBudget = 1
  StatementFaults = 1
INVARIANTS PagesComplete BrowsingAgrees ShelvesJustified
CHECK_DEADLOCK FALSE
