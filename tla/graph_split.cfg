\* Two seedings of one dataset, two constraints in one permission.
CONSTANTS
  Dataset = {d1}
  Seeder = {s1, s2}
  Term = {"title", "path", "media", "assigner", "use", "distribute", "dateTime", "count", "lteq", "bound"}
  Offers <- TwoConstraintOffers
SPECIFICATION GraphSpec
SYMMETRY Symmetry
INVARIANTS
  CopiesStayWhole
\* Calls are finite in number: the system stops when all are made.
CHECK_DEADLOCK FALSE
