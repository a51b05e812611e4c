SPECIFICATION AdbSpec
CONSTANTS
  Slots = 2
  CM = {c1, c2, c3}
  c1 = c1
  c2 = c2
  c3 = c3
SYMMETRY Machines
INVARIANT WCarriesOwnData
