SPECIFICATION Spec
CONSTANTS
  a1 = a1
  a2 = a2
  a3 = a3
  w1 = w1
  w2 = w2
  Askers = {a1, a2, a3}
  Words = {w1, w2}
  Probe = Probe
  Nobody = Nobody
  MaxDeaths = 1
SYMMETRY Alike
INVARIANTS TypeOK WordsKept AskedIsArmed
 
\* Every question asked and every word said, there is nothing left to do.
CHECK_DEADLOCK FALSE
