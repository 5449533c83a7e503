SPECIFICATION Spec
CONSTANTS
  Interactions = {i1, i2}
  NoInteraction = NoInteraction
  Shells = {"fish"}
  Sources = {"spawned", "attached"}
  Modes = {"legacy", "submit_line"}
  Lines = {x}
  Codes = {c0}
  NoCode = NoCode
  MaxShown = 4
  MaxInput = 1
INVARIANT NoLineRunsTwice
