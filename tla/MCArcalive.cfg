CONSTANTS
  Requests = {1, 2, 3}
  Slugs = {"hotdeal", "games"}
  SlugOf <- MCSlugOf
  Origin = "site"
  Contents <- MCContents
SPECIFICATION Spec
INVARIANTS ClosedWhenUnused WholeOrNothing
PROPERTIES ClosedInTheEnd AskedOnce EndsAlways
