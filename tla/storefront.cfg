SPECIFICATION Spec
CONSTANTS
  Variants = {"u", "v", "w"}
  ProductOf <- Products
  CategoryOf <- Categories
  Price <- Prices
  Fee = 40
  OfferBook <- SmallBook
  Dates = {0, 1, 2}
  Weekdays = {"mon", "tue"}
  WeekdayOf <- Week
  Slots = {0, 1, 2, 3}
  Dawn = 2
  Hours <- DayAndNight
  Topics = {"hours", "offers"}
  MaxQty = 2
  MaxChanges = 2
INVARIANTS OpenAsPlanned MoneyAddsUp
PROPERTIES MoreNeverDiscountsLess
CHECK_DEADLOCK FALSE
