SPECIFICATION Spec
CONSTANTS
  Max64K = 23
  MaxThrows = 1
  Cmds = {1, 2, 3, 4, 5, 6, 7, 8}
  Fields <- AllFields
  Messages <- SomeMessages
  Leftovers <- SomeLeftovers
INVARIANTS TypeOK Framed RoundTrip Refilled StaysInside
