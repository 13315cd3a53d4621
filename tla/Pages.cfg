\* Two subjects, an operator who waits for each page change; loads take as long as they like.
SPECIFICATION Spec
CONSTANTS
  Subject = {"s1", "s2"}
  Matching = {"s2"}
  Listings <- MCListings
  Patient = TRUE
  MaxFlight = 5
INVARIANTS
  IsAPath
  ResultLands
PROPERTIES
  EveryPageResolves
