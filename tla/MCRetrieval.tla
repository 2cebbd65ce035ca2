---------------------------- MODULE MCRetrieval ----------------------------
(* Two states of a catalog of up to three deals: between them one deal     *)
(* disappears, one appears, and one changes its text, price and category.  *)
EXTENDS RetrievalService

Deal(city, cat, price, lo, hi, text, rating) ==
  [city |-> city, category |-> cat, price |-> price, lo |-> lo, hi |-> hi,
   text |-> text, rating |-> rating]

Teahouse == Deal("gz", "cantonese", 90, 2, 4, "tea", 5)
Noodles  == Deal("gz", "noodles", 40, 0, 0, "tea", 4)
Buffet   == Deal("gz", "noodles", 120, 2, 2, "hotpot", 5)
Grill    == Deal("gz", "western", 80, 1, 4, "meat", 4)

MCFiles == { (1 :> Teahouse) @@ (2 :> Buffet) @@ (3 :> Noodles),
             (2 :> Grill) @@ (3 :> Noodles) }

MCAlias == "dimsum" :> "cantonese"

Ask4(cat, hits, blank, maxPrice, people) ==
  [city |-> "gz", category |-> cat, hits |-> hits, blank |-> blank,
   minPrice |-> 10, maxPrice |-> maxPrice, people |-> people]

MCQueries == { Ask4(None, {"tea", "meat", "hotpot"}, FALSE, 0, 0),
               Ask4("dimsum", {"tea"}, FALSE, 100, 3),
               Ask4("dimsum", {"tea"}, FALSE, 100, 6),
               Ask4("noodles", {}, TRUE, 100, 2) }
=============================================================================
