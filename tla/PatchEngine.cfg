\* Two replacements, each of which may be installed anywhere.
CONSTANTS
  method = method
  submethod = submethod
  provider = provider
  alias = alias
  table = table
  Slots <- AllSlots
  ClassSlots = {method, submethod}
  DataSlots = {table}
  Base <- Inherits
  Source <- CopiedFrom
  Replacements = {r1, r2}
  Values = {v1, v2}
  Foreign = Foreign
  NoSlot = NoSlot
  Nil = Nil
  Missing = Missing
  Unloaded = Unloaded
  Unset = Unset
SPECIFICATION Spec
SYMMETRY Interchangeable
INVARIANT OriginalsKept
CHECK_DEADLOCK FALSE
