------------------------------ MODULE StockRoom ------------------------------
(***************************************************************************)
(* The inventory of one academy: items with a quantity in stock, stock     *)
(* adjustments, and orders, which take stock and give it back when they    *)
(* are cancelled (InventoryService).  Prices, notes and addresses decide   *)
(* nothing and are left out.                                               *)
(*                                                                         *)
(* An order number is count + 1 under a unique index and orders are never  *)
(* deleted, so an insert that succeeds is the next one: an order is its    *)
(* place in the table.                                                     *)
(***************************************************************************)
EXTENDS Integers, Sequences, FiniteSets, Sums

CONSTANTS
    Requests,       \* the HTTP requests the server works on at one time
    Items,          \* the SKUs
    Levels,         \* stock quantities an administrator enters: at least 0
    Deltas,         \* adjustments
    MaxQuantity,    \* the largest quantity of one order line (1000 in the schema)
    StatusInputs,   \* the statuses a client sends
    MaxOrders,      \* bound: rows of the orders table
    MaxStock,       \* bound: an adjustment never raises the stock above it
    MaxReopened     \* bound: how often one order leaves CANCELLED

OrderStatus ==
    {"PENDING", "CONFIRMED", "PROCESSING", "SHIPPED", "DELIVERED", "CANCELLED", "RETURNED"}

ASSUME StockAssumption ==
    /\ IsFiniteSet(Requests) /\ Requests # {}
    /\ Levels \subseteq Nat
    /\ Deltas \subseteq Int
    /\ MaxQuantity \in Nat \ {0}
    /\ StatusInputs \subseteq OrderStatus
    /\ MaxOrders \in Nat /\ MaxStock \in Nat /\ MaxReopened \in Nat

VARIABLES
    shelf,      \* the inventory_items rows: not created, active or not
    stock,      \* stockQty
    orders,     \* the inventory_orders rows with their lines
    req,        \* the requests in progress
    supplied,   \* history: what was put on the shelf, corrections included, until clobbered
    clobbered   \* history: whether an adjustment overwrote a change it had not seen

vars == <<shelf, stock, orders, req, supplied, clobbered>>

Lines == [Items -> 0 .. MaxQuantity]

\* restocked and reopened are history: how often the lines went back on the shelf, and how
\* often the order left CANCELLED.
OrderRow == [lines : Lines, status : OrderStatus, restocked : Nat, reopened : Nat]

Stages == {"idle", "adjust", "order", "status"}

NoLines == [i \in Items |-> 0]

Idle == [stage |-> "idle", item |-> {}, seen |-> 0, next |-> 0, lines |-> NoLines,
         order |-> 0, status |-> "PENDING", restock |-> FALSE]

RequestState ==
    [stage : Stages, item : SUBSET Items, seen : Int, next : Nat, lines : Lines,
     order : Nat, status : OrderStatus, restock : BOOLEAN]

Init ==
    /\ shelf = [i \in Items |-> "none"]
    /\ stock = [i \in Items |-> 0]
    /\ orders = <<>>
    /\ req = [r \in Requests |-> Idle]
    /\ supplied = [i \in Items |-> 0]
    /\ clobbered = [i \in Items |-> FALSE]

Tables == <<shelf, stock, orders, supplied, clobbered>>

IsIdle(r) == req[r].stage = "idle"
Begin(r, fields) == IsIdle(r) /\ req' = [req EXCEPT ![r] = fields]
Finish(r) == req' = [req EXCEPT ![r] = Idle]

-----------------------------------------------------------------------------
(* Items.                                                                  *)

Supply(i, quantity) ==
    supplied' = [supplied EXCEPT ![i] = IF clobbered'[i] THEN 0 ELSE @ + quantity]

Put(i, quantity) ==
    /\ stock' = [stock EXCEPT ![i] = quantity]
    /\ UNCHANGED clobbered
    /\ Supply(i, quantity - stock[i])

CreateItem(r, i, quantity, to) ==
    /\ IsIdle(r)
    /\ shelf[i] = "none"
    /\ shelf' = [shelf EXCEPT ![i] = to]
    /\ Put(i, quantity)
    /\ UNCHANGED <<orders, req>>

\* The update schema is the create schema with every field optional, stockQty and isActive
\* among them.
UpdateItem(r, i, quantity, to) ==
    /\ IsIdle(r)
    /\ shelf[i] # "none"
    /\ shelf' = [shelf EXCEPT ![i] = to]
    /\ Put(i, quantity)
    /\ UNCHANGED <<orders, req>>

RemoveItem(r, i) ==
    /\ IsIdle(r)
    /\ shelf[i] # "none"
    /\ shelf' = [shelf EXCEPT ![i] = "inactive"]
    /\ UNCHANGED <<stock, orders, req, supplied, clobbered>>

Acceptable(quantity) == quantity \in 0 .. MaxStock

\* adjustStock reads the item and writes the sum it computed.
ReadForAdjustment(r, i, delta) ==
    /\ shelf[i] # "none"
    /\ Acceptable(stock[i] + delta)
    /\ Begin(r, [Idle EXCEPT !.stage = "adjust", !.item = {i}, !.seen = stock[i],
                             !.next = stock[i] + delta])
    /\ UNCHANGED Tables

CommitAdjustment(r) ==
    /\ req[r].stage = "adjust"
    /\ \E i \in req[r].item :
          /\ stock' = [stock EXCEPT ![i] = req[r].next]
          /\ clobbered' = [clobbered EXCEPT ![i] = @ \/ stock[i] # req[r].seen]
          /\ Supply(i, req[r].next - req[r].seen)
    /\ Finish(r)
    /\ UNCHANGED <<shelf, orders>>

-----------------------------------------------------------------------------
(* Orders.                                                                 *)

Wanted(lines) == {i \in Items : lines[i] > 0}

Unchecked(lines) == TRUE
InStock(lines) == \A i \in Wanted(lines) : stock[i] >= lines[i]

CheckOrder(r, lines) ==
    /\ Wanted(lines) # {}
    /\ \A i \in Wanted(lines) : shelf[i] = "active"
    /\ InStock(lines)
    /\ Begin(r, [Idle EXCEPT !.stage = "order", !.lines = lines])
    /\ UNCHANGED Tables

\* The row, then a decrement of each line, in the transaction that read the stock.
CommitOrder(r) ==
    LET lines == req[r].lines IN
    /\ req[r].stage = "order"
    /\ Len(orders) < MaxOrders
    /\ orders' = Append(orders, [lines |-> lines, status |-> "PENDING",
                                 restocked |-> 0, reopened |-> 0])
    /\ stock' = [i \in Items |-> stock[i] - lines[i]]
    /\ Finish(r)
    /\ UNCHANGED <<shelf, supplied, clobbered>>

AlwaysGivesBack(o, status) == status = "CANCELLED"
GivesBack(o, status) == status = "CANCELLED" /\ orders[o].status # "CANCELLED"

ReadOrder(r, o, status) ==
    /\ orders[o].status = "CANCELLED" /\ status # "CANCELLED" => orders[o].reopened < MaxReopened
    /\ Begin(r, [Idle EXCEPT !.stage = "status", !.order = o, !.status = status,
                             !.restock = GivesBack(o, status)])
    /\ UNCHANGED Tables

OnePiece(lines, i) == IF lines[i] > 0 THEN 1 ELSE 0
Pieces(lines, i) == lines[i]

\* The increments of a cancellation and the new status, whatever the order's status is now.
CommitStatus(r) ==
    LET q == req[r]
        o == orders[q.order]
    IN
    /\ q.stage = "status"
    /\ o.status = "CANCELLED" /\ q.status # "CANCELLED" => o.reopened < MaxReopened
    /\ orders' = [orders EXCEPT ![q.order] =
                    [o EXCEPT !.status = q.status,
                              !.restocked = @ + (IF q.restock THEN 1 ELSE 0),
                              !.reopened = @ + (IF o.status = "CANCELLED" /\ q.status # "CANCELLED"
                                                THEN 1 ELSE 0)]]
    /\ stock' = [i \in Items |-> stock[i] + (IF q.restock THEN Pieces(o.lines, i) ELSE 0)]
    /\ Finish(r)
    /\ UNCHANGED <<shelf, supplied, clobbered>>

\* A unique index or a lock refuses, or the process dies: the transaction rolls back.
Abandon(r) ==
    /\ ~IsIdle(r)
    /\ Finish(r)
    /\ UNCHANGED Tables

Serve(r) ==
    \/ \E i \in Items, quantity \in Levels, to \in {"active", "inactive"} :
          CreateItem(r, i, quantity, to) \/ UpdateItem(r, i, quantity, to)
    \/ \E i \in Items : RemoveItem(r, i)
    \/ \E i \in Items, delta \in Deltas : ReadForAdjustment(r, i, delta)
    \/ CommitAdjustment(r)
    \/ \E lines \in Lines : CheckOrder(r, lines)
    \/ CommitOrder(r)
    \/ \E o \in DOMAIN orders, status \in StatusInputs : ReadOrder(r, o, status)
    \/ CommitStatus(r)
    \/ Abandon(r)

Next == \E r \in Requests : Serve(r)

Spec == Init /\ [][Next]_vars

-----------------------------------------------------------------------------
TypeOK ==
    /\ shelf \in [Items -> {"none", "active", "inactive"}]
    /\ stock \in [Items -> Int]
    /\ orders \in Seq(OrderRow)
    /\ req \in [Requests -> RequestState]
    /\ supplied \in [Items -> Int]
    /\ clobbered \in [Items -> BOOLEAN]

\* createOrder takes from the stock it checked earlier: an item is sold below zero, but by
\* less than what the requests under way can order at once.
Ordering(i) == {r \in Requests : req[r].stage = "order" /\ req[r].lines[i] > 0}

OversoldWithinRequests ==
    \A i \in Items :
        MaxQuantity * Cardinality(Ordering(i)) < stock[i] + MaxQuantity * Cardinality(Requests)

\* updateOrderStatus restocks on what it read: an order goes back on the shelf once for each
\* request that saw it open, and again after every time it left CANCELLED, never more.
Restocking(o) == {r \in Requests : req[r].stage = "status" /\ req[r].order = o /\ req[r].restock}

RestockedPerReopening ==
    \A o \in DOMAIN orders :
        orders[o].restocked + Cardinality(Restocking(o))
            <= Cardinality(Requests) * (1 + orders[o].reopened)

\* What the orders took from the shelf and did not give back.
Taken(i) == [o \in DOMAIN orders |-> orders[o].lines[i] * (1 - orders[o].restocked)]
Gone(i) == Total(Taken(i), Len(orders))

\* However orders, cancellations and corrections overlap, the stock is what was supplied
\* less what the orders took, except where an adjustment overwrote what it had not read
\* (createOrder, updateOrderStatus and adjustStock write the same column).
StockAccounted == \A i \in Items : ~clobbered[i] => stock[i] = supplied[i] - Gone(i)
=============================================================================
