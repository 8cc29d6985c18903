SPECIFICATION Spec
CONSTANTS
  Situations <- Settings
  Nothing = Nothing
  None = None
INVARIANTS ForeignPagesSeeThePublicSide OnlyFittingDataIsStored LocationTellsWhy AddressesStayHome
CHECK_DEADLOCK FALSE
