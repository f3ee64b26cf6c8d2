SPECIFICATION FairSpec
CONSTANTS
  Calls = {k1, k2, k3}
INVARIANTS
  TypeOK
  ModalCoversOutage
  WayBack
PROPERTIES
  ReloadIsLast
  ComesBack
