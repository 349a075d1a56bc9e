SPECIFICATION Spec
CONSTANTS
  Procs = {p1, p2, p3}
  Desks <- AllDesks
  Categories = {"c", "d", "g", "h"}
  Products = {"x", "y"}
  Variants = {"u", "v"}
  Offers = {"o1"}
  Rewards = {"r1", "r2"}
  Coupons = {"k1"}
  Stores = {"s1", "s2"}
  Accounts = {"a1", "a2", "a3"}
  Dates = {"d1"}
  RuleScopes <- Scopes
  InitialCatalog <- SmallShop
  MaxRequests = 3
SYMMETRY Symmetry
INVARIANTS SellableIsLive OfferAsAsked OneRowEach
PROPERTIES OffersStayNarrow RateAsRuled
CHECK_DEADLOCK FALSE
