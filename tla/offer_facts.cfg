\* Config's offer with a deadline, seeded twice, for one dataset or two.
CONSTANTS
  Dataset = {d1, d2}
  Seeder = {s1, s2}
  Term = {"title", "path", "media", "assigner", "use", "dateTime", "lteq", "bound"}
  NotAfter = "bound"
  NoDeadline = "unset"
  Offers <- ConfigOffers
SPECIFICATION GraphSpec
PROPERTIES
  RefinesOfferFacts
\* Calls are finite in number: the system stops when all are made.
CHECK_DEADLOCK FALSE
