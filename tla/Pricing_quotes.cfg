SPECIFICATION Spec
CONSTANTS
  Ticks = 4
  Campaigns <- MCCampaigns
  Categories <- MCCategories
  NoCategory = "none"
  Parent <- MCParent
  Calls = {"preview", "checkout"}
  Previews = {"preview"}
  Codes <- MCCodes
  ProductsById <- MCProductsById
  CodesByName <- MCCodesByName
  LineCap = 40
  SuggestionCap = 1
  ListCap = 2
  RowCap = 3
  Shops <- MCShops
  ChangeBudget = 1
INVARIANTS CouponsHonoured Accounted OffersToldTruly StackingRespected ChargedAsShown
PROPERTY SuggestionsHold
CHECK_DEADLOCK FALSE
