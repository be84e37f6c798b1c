\* Seedings of one dataset or two, which may fail half-way.
CONSTANTS
  Dataset = {d1, d2}
  Seeder = {s1, s2}
  Term = {"title", "path", "media", "assigner", "use", "distribute", "dateTime", "count", "lteq", "bound"}
  Offers <- SmallOffers
SPECIFICATION GraphSpec
SYMMETRY Symmetry
INVARIANTS
  GraphTypeOK
  SeedingsReadBack
  ReadsAreTruncations
\* Calls are finite in number: the system stops when all are made.
CHECK_DEADLOCK FALSE
