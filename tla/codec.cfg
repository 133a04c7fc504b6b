SPECIFICATION Spec
CONSTANTS
  Chars = {"a", "b", ","}
  Comma = ","
  NUL = NUL
  CountModulus = 3
  Leftovers <- HeapBytes
  Inputs <- Lists
CHECK_DEADLOCK FALSE
INVARIANTS TypeOK RoundTrip FieldsArrive OverrunBounded SendsTheString
