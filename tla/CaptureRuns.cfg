SPECIFICATION Spec
CONSTANTS
  Interactions = {i1, i2}
  NoInteraction = NoInteraction
  Shells = {"posix", "fish", "other"}
  Sources = {"spawned", "attached"}
  Modes = {"legacy", "submit_line", "type", "raw", "keys", "keys_submit"}
  Lines = {x}
  Codes = {c0, c1}
  NoCode = NoCode
  MaxShown = 3
  MaxInput = 1
SYMMETRY InteractionSymmetry
VIEW View
INVARIANT TypeOK
INVARIANT CompletionIsReal
INVARIANT CurrentKeepsOutput
INVARIANT PagesJoin
