\* Three keys and two kinds of packet, over all six levels.
SPECIFICATION Spec
CONSTANTS
  Keys = {k1, k2, k3}
  Items = {packable, other}
INVARIANTS
  TypeOK
  CensusExact
  SummaryExact
PROPERTY
  NoOvertaking
