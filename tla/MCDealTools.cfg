SPECIFICATION ToolSpec
CONSTANTS
  spicy = spicy
  homeless = homeless
  priceless = priceless
  invented = invented
  Catalog <- MCCatalog
  Invented <- MCInvented
  RuleScore <- MCRuleScore
  RuledOut <- MCRuledOut
  PriceNull <- MCPriceNull
  PlaceNull <- MCPlaceNull
  CoarseTopK = 3
  TopN = 2
  MaxCalls = 4
INVARIANTS ToolTypeOK ModelOnlyReorders AuditExplainsItems RuledOutStaysOut
CHECK_DEADLOCK FALSE
