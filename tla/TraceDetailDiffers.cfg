CONSTANTS
  Numerals <- MCNumerals
  Within <- MCWithin
  Order <- MCOrder
  Spans <- MCSpans
  OldCategories = {"unclassified"}
  Principals <- MCPrincipals
  Keys = {}
  Requests = {}
  MaxNow = 4
  DayLength = 3
  BindStep = 2
  TraceSettle = 2
  TraceSpanCap = 4
  TraceDetailCap = 3
  CapabilityCap = 1
SPECIFICATION Spec
INVARIANT
  DetailRepeatsTheList
CHECK_DEADLOCK FALSE
