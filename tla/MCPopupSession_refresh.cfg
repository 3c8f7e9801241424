SPECIFICATION Spec
CONSTANTS
  here = here
  both = both
  Call = {h1, h2, h3}
  NoCall = NoCall
  Cookie = {here, both}
  ByUrl = {here, both}
  ByDomain = {both}
  Pattern <- Searches
  MaxClicks = 4
INVARIANTS ButtonsComeBack SelectionListed LatestListShown
PROPERTIES Settles
