\* Calls while two seedings of one dataset or two go on.
CONSTANTS
  Dataset = {primary, other}
  Seeder = {s1, s2}
  Term = {"title", "path", "media", "assigner", "use", "distribute", "dateTime", "lteq", "bound"}
  Offers <- OneOffer
  Call = {c1}
  PRIMARY_OFFER_ID = primary
SPECIFICATION Spec
INVARIANTS
  WholeOffersAreGot
PROPERTIES
  RefinesAtomicConnector
