\* Two registrations over two routers: the same path on both, twice on one,
\* static against parameter and wildcard, before and after merges and prefixes.
\* Two middlewares, so that their order counts: on one of the routers, or one on
\* each, added before, between and after the registrations and the merge.
CONSTANTS
  Text = {"", ":", "*", "a", "b", "p"}
  App = {r1, r2}
  Method = {"GET", "HEAD"}
  Route <- Routes
  Prefix <- PrefixTexts
  Path <- RequestPaths
  MaxRoutes = 2
  MaxLayers = 2
SPECIFICATION Spec
SYMMETRY Symmetry
CHECK_DEADLOCK FALSE
INVARIANTS
  TypeOK
  AllowIsExact
  SlashTolerated
  OneChain
PROPERTIES
  NothingLost
  StaticIsFinal
