SPECIFICATION Spec
CONSTANTS
  t1 = t1  t2 = t2
  Tasks <- MCTasks
  Products = {"V141x", "CDC"}
  Termios <- MCTermios
  Rates = {0, 1}
  Gpios = {3, 8}
  MaxCalls = 3
SYMMETRY Sym
INVARIANT NineIsWide
CHECK_DEADLOCK FALSE
