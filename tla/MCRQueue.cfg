CONSTANTS
  Elt = {a, b}
  None = None
  Capacity = 1
  MaxLength = 5
SPECIFICATION QueueSpec
PROPERTIES
  IsBag
