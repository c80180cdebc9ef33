\* A reader pages through the lists; the other reads are asked in every state.
SPECIFICATION MCSpec
CONSTANTS
  Numerals <- MCNumerals
  Within <- MCWithin
  Order <- MCOrder
  Spans <- MCSpans
  OldCategories = {"unclassified"}
  Principals <- MCPrincipals
  Keys = {"ka", "ki", "kx"}
  Requests <- MCRequests
  MaxNow = 4
  DayLength = 3
  BindStep = 2
  TraceSettle = 2
  TraceSpanCap = 4
  TraceDetailCap = 3
  CapabilityCap = 1
INVARIANTS
  WaterfallIsATree
  NoDeadEnds
  DetailMatchesList
  FailuresAddUp
  PagingIsExact
PROPERTIES
  PagesGoDown
CHECK_DEADLOCK FALSE
