\* The one seeding that build makes, under whatever DATASET_ID is.
CONSTANTS
  Dataset = {primary, other}
  Seeder = {build}
  Term = {"title", "path", "media", "assigner", "use", "distribute", "dateTime", "lteq", "bound"}
  Offers <- OneOffer
  Call = {c1}
  PRIMARY_OFFER_ID = primary
SPECIFICATION Spec
INVARIANTS
  PullReturnsTheOffer
