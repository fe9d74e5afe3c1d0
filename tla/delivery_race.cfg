\* Two requests at once, a clock that passes two cutoffs, an operator, a publisher;
\* every day from Monday 2024-12-30, in the ISO year 2025, to February 2027, at
\* the seconds around midnight in UTC and in Jakarta.
SPECIFICATION DeliverySpec
CONSTANTS
  r1 = r1
  r2 = r2
  p1 = p1
  p2 = p2
  Requests = {r1, r2}
  Products = {p1, p2}
  Week = 2
  Cutoff = 1
  Lead = 1
  Attempts = 2
  MaxGroup = 2
  MaxNow = 3
  MaxEdition = 1
  FirstDay = 364
  LastDay = 1130
  Times <- Midnights
  Templates <- Configured
SYMMETRY Renamings
INVARIANTS
  OneBookable
  NextIsNearest
  DefaultIsNextWednesday
  CodeIsIsoWeek
  CodesAreDistinct
PROPERTIES
  CuratedKept
  RolloverKeepsCatalog
  UnavailableWhenTaken
