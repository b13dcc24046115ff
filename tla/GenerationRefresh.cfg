SPECIFICATION Spec
CONSTANTS
  Thread = {t1, t2, t3}
  MaxResets = 2
INVARIANTS StaleIsFlagged AloneSucceeds
SYMMETRY Symmetry
