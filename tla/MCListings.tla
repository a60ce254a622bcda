------------------------------ MODULE MCListings ------------------------------
(* Instances of Listings for TLC: two vaults of a chain, and an address on *)
(* two chains, whose second and third event tie when both are listed.      *)
EXTENDS Listings

TableRow(t, chain, of, type, key) ==
    [table |-> t, chain |-> chain, of |-> of, type |-> type, at |-> key]

RowOf ==
    [v1 |-> TableRow("vaults", "base", "a", "-", 1),
     v2 |-> TableRow("vaults", "base", "b", "-", 2),
     v3 |-> TableRow("vaults", "other", "a", "-", 3),
     e1 |-> TableRow("events", "base", "a", "swap", 1),
     e2 |-> TableRow("events", "base", "a", "rule", 2),
     e3 |-> TableRow("events", "other", "a", "swap", 2),
     n1 |-> TableRow("notes", "-", "o1", "-", 1)]
RowIds == DOMAIN RowOf

BaseVaults == Filter("vaults", "base", Any, Any, Any)
VaultsOfOwner == Filter("vaults", "base", Any, Any, "o1")
History == Filter("events", Any, "a", Any, Any)
BaseHistory == Filter("events", "base", "a", Any, Any)
Swaps == Filter("events", Any, "a", "swap", Any)
Notes == Filter("notes", Any, "o1", Any, Any)
Detail == Filter("detail", Any, "a", Any, Any)
BaseDetail == Filter("detail", "base", "a", Any, Any)

AllKinds == {BaseVaults, VaultsOfOwner, History, BaseHistory, Swaps, Notes, Detail, BaseDetail}
================================================================================
