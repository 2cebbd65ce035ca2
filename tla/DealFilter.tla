----------------------------- MODULE DealFilter -----------------------------
(* What a deal must meet to answer a query.                                *)
EXTENDS Integers

CONSTANTS None,   \* no value
          Alias   \* CATEGORY_ALIASES, a function on some categories

(* filter_deals, the WHERE clause of the table and the filter of the local *)
(* matcher: three texts of one filter.                                     *)
Fits(q, cat, d) ==
  /\ q.city \in {None, d.city}
  /\ cat \in {None, d.category}
  /\ q.minPrice <= d.price /\ d.price <= q.maxPrice
  /\ q.people = 0 \/ d.lo = 0 \/ d.hi = 0 \/ (d.lo <= q.people /\ q.people <= d.hi)

Fitting(deals, q, cat) == {i \in DOMAIN deals : Fits(q, cat, deals[i])}
=============================================================================
