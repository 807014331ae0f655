------------------------------- MODULE Orders -------------------------------
(***************************************************************************)
(* Pricing an order: the checks of orders.CreateInput and domain.New, the  *)
(* static catalog, and the multiplication, whose integers have a width.    *)
(***************************************************************************)
EXTENDS Integers

CONSTANTS
    Catalog,      \* product id -> UnitAmount, as NewStatic accepts it
    MaxQuantity,  \* domain.MaxQuantity
    MaxInt        \* math.MaxInt64 of the modelled width

ASSUME CatalogAssumption ==
    /\ MaxInt \in Nat \ {0} /\ MaxQuantity \in Nat \ {0}
    /\ \A p \in DOMAIN Catalog : Catalog[p] \in 1..MaxInt

(* A shape a client may send: no identifier is blank or too long.          *)
ValidInput(r) == r.shaped /\ r.quantity \in 1..MaxQuantity

(* The product of two integers of the width, as the machine computes it.   *)
Wrapped(a, b) ==
    LET m == (a * b) % (2 * (MaxInt + 1))
    IN  IF m > MaxInt THEN m - 2 * (MaxInt + 1) ELSE m

(* ErrAmountOverflow, which is no value of the width.                      *)
Overflow == MaxInt + 1

(* Bug: the guard is missing.                                              *)
multiplyUnchecked(unitAmount, quantity) == Wrapped(unitAmount, quantity)

multiply(unitAmount, quantity) ==
    IF unitAmount > MaxInt \div quantity THEN Overflow
    ELSE Wrapped(unitAmount, quantity)

(* What Create decides before it touches the database: an HTTP status that *)
(* refuses the request, or the amount of the order.                        *)
Priced(r) ==
    IF ~ValidInput(r) THEN [code |-> 400, amount |-> 0]
    ELSE IF r.product \notin DOMAIN Catalog THEN [code |-> 404, amount |-> 0]
    ELSE LET amount == multiply(Catalog[r.product], r.quantity)
         IN  IF amount = Overflow THEN [code |-> 500, amount |-> 0]
             ELSE [code |-> 201, amount |-> amount]
=============================================================================
