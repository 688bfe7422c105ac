CONSTANTS
  nul = nul
  a = a
  b = b
  o1 = o1
  o2 = o2
  o3 = o3
  h1 = h1
  h2 = h2
  Strings = {nul, a, b}
  NUL = nul
  AT_Hash <- MCHash
  MaxAtoms = 3
  Objects = {o1, o2, o3}
  Headers = {h1, h2}
SPECIFICATION Spec
INVARIANT CStrIsSafe
