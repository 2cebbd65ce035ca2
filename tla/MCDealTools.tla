---------------------------- MODULE MCDealTools ----------------------------
(* DealTools for TLC: a ruled-out deal that scores best, one without       *)
(* district, one without original price and one that is invented.          *)
EXTENDS DealTools

CONSTANTS spicy, homeless, priceless, invented

MCCatalog == {spicy, homeless, priceless}
MCInvented == {invented}
MCRuleScore ==
  [d \in MCCatalog \cup MCInvented |->
     CASE d = spicy -> 2 [] d = homeless -> 1 [] d = priceless -> 0 [] d = invented -> 1]
MCRuledOut == {spicy}
MCPriceNull == {priceless}
MCPlaceNull == {homeless}
=============================================================================
