----------------------------- MODULE StockProofs -----------------------------
(***************************************************************************)
(* What StockRoom guarantees for every number of requests, items and       *)
(* quantities: its types, how far an item can be oversold, how often the   *)
(* lines of an order can go back on the shelf, and when every piece is     *)
(* accounted for.                                                          *)
(***************************************************************************)
EXTENDS StockRoom, FiniteSetTheorems, TLAPS

-----------------------------------------------------------------------------
(* Types, and what a request in progress holds.                            *)

\* A status request names an order on file, and gives back only to cancel.
Placed == \A r \in Requests :
    req[r].stage = "status" => /\ req[r].order \in DOMAIN orders
                               /\ req[r].restock => req[r].status = "CANCELLED"

Typed == TypeOK /\ Placed

LEMMA IdleTyped == Idle \in RequestState /\ Idle.stage = "idle"
BY StockAssumption DEF Idle, RequestState, Stages, NoLines, Lines, OrderStatus

LEMMA InitTyped == Init => Typed
<1> SUFFICES ASSUME Init PROVE Typed
  OBVIOUS
<1>1. orders \in Seq(OrderRow)
  BY DEF Init
<1>2. req \in [Requests -> RequestState]
  BY IdleTyped DEF Init
<1>3. Placed
  BY IdleTyped DEF Init, Placed
<1> QED BY <1>1, <1>2, <1>3 DEF Init, Typed, TypeOK

LEMMA RequestTyped ==
    ASSUME Typed, NEW r \in Requests, NEW fields \in RequestState,
           req' = [req EXCEPT ![r] = fields]
    PROVE  req' \in [Requests -> RequestState]
BY DEF Typed, TypeOK

\* A request that moves on its own keeps everything typed.
LEMMA ReadTyped ==
    ASSUME Typed, NEW r \in Requests, NEW fields \in RequestState,
           req' = [req EXCEPT ![r] = fields], UNCHANGED Tables,
           fields.stage = "status" =>
              fields.order \in DOMAIN orders /\ (fields.restock => fields.status = "CANCELLED")
    PROVE  Typed'
BY RequestTyped DEF Typed, TypeOK, Placed, Tables

\* So does one that ends, or stays where it is, while typed tables change and orders grow.
LEMMA WriteTyped ==
    ASSUME Typed, NEW r \in Requests, Finish(r) \/ UNCHANGED req,
           shelf' \in [Items -> {"none", "active", "inactive"}], stock' \in [Items -> Int],
           orders' \in Seq(OrderRow), DOMAIN orders \subseteq DOMAIN orders',
           supplied' \in [Items -> Int], clobbered' \in [Items -> BOOLEAN]
    PROVE  Typed'
<1>1. req' \in [Requests -> RequestState]
  BY IdleTyped, RequestTyped DEF Finish, Typed, TypeOK
<1>2. \A p \in Requests : req'[p] = req[p] \/ req'[p] = Idle
  BY DEF Finish, Typed, TypeOK
<1>3. Placed'
  BY <1>2, IdleTyped DEF Placed, Typed
<1> QED BY <1>1, <1>3 DEF Typed, TypeOK

LEMMA PutTyped ==
    ASSUME Typed, NEW r \in Requests, NEW i \in Items, NEW quantity \in Levels,
           NEW to \in {"active", "inactive"}, CreateItem(r, i, quantity, to) \/ UpdateItem(r, i, quantity, to)
    PROVE  Typed'
<1>1. quantity \in Int /\ stock[i] \in Int /\ supplied[i] \in Int
  BY StockAssumption DEF Typed, TypeOK
<1>2. stock' \in [Items -> Int] /\ clobbered' \in [Items -> BOOLEAN]
  BY <1>1 DEF CreateItem, UpdateItem, Put, Typed, TypeOK
<1>3. shelf' \in [Items -> {"none", "active", "inactive"}] /\ UNCHANGED <<orders, req>>
  BY DEF CreateItem, UpdateItem, Typed, TypeOK
<1>4. supplied' = [supplied EXCEPT ![i] = IF clobbered'[i] THEN 0 ELSE @ + (quantity - stock[i])]
  BY DEF CreateItem, UpdateItem, Put, Supply
<1>5. supplied' \in [Items -> Int]
  BY <1>1, <1>4 DEF Typed, TypeOK
<1> QED BY <1>2, <1>3, <1>5, WriteTyped DEF Typed, TypeOK

LEMMA AdjustmentTyped == ASSUME Typed, NEW r \in Requests, CommitAdjustment(r) PROVE Typed'
<1>1. PICK i \in req[r].item :
         /\ stock' = [stock EXCEPT ![i] = req[r].next]
         /\ clobbered' = [clobbered EXCEPT ![i] = @ \/ stock[i] # req[r].seen]
         /\ Supply(i, req[r].next - req[r].seen)
  BY DEF CommitAdjustment
<1>2. i \in Items /\ req[r].next \in Int /\ req[r].seen \in Int
  BY DEF Typed, TypeOK, RequestState
<1>3. stock' \in [Items -> Int]
  BY <1>1, <1>2 DEF Typed, TypeOK
<1>4. clobbered[i] \in BOOLEAN
  BY <1>2 DEF Typed, TypeOK
<1>5. clobbered' \in [Items -> BOOLEAN]
  BY <1>1, <1>4 DEF Typed, TypeOK
<1>6. supplied' = [supplied EXCEPT ![i] = IF clobbered'[i] THEN 0
                                          ELSE @ + (req[r].next - req[r].seen)]
  BY <1>1 DEF Supply
<1>7. supplied' \in [Items -> Int]
  BY <1>2, <1>6 DEF Typed, TypeOK
<1>8. shelf' \in [Items -> {"none", "active", "inactive"}] /\ UNCHANGED orders /\ Finish(r)
  BY DEF CommitAdjustment, Typed, TypeOK
<1> QED BY <1>3, <1>5, <1>7, <1>8, WriteTyped DEF Typed, TypeOK

\* What CommitOrder and CommitStatus do to the tables.
LEMMA OrderPlaced ==
    ASSUME Typed, NEW r \in Requests, CommitOrder(r)
    PROVE  /\ orders' \in Seq(OrderRow) /\ DOMAIN orders' = DOMAIN orders \cup {Len(orders) + 1}
           /\ Len(orders) + 1 \notin DOMAIN orders
           /\ \A o \in DOMAIN orders : orders'[o] = orders[o]
           /\ orders'[Len(orders) + 1].status = "PENDING"
           /\ orders'[Len(orders) + 1].restocked = 0 /\ orders'[Len(orders) + 1].reopened = 0
           /\ stock' \in [Items -> Int] /\ req[r].lines \in Lines
<1> DEFINE row == [lines |-> req[r].lines, status |-> "PENDING", restocked |-> 0, reopened |-> 0]
<1>1. req[r].lines \in Lines
  BY DEF Typed, TypeOK, RequestState
<1>2. row \in OrderRow
  BY <1>1 DEF OrderRow, OrderStatus
<1>3. orders' = Append(orders, row) /\ orders \in Seq(OrderRow)
  BY DEF CommitOrder, Typed, TypeOK
<1>4. \A i \in Items : stock[i] - req[r].lines[i] \in Int
  BY <1>1, StockAssumption DEF Lines, Typed, TypeOK
<1>5. stock' \in [Items -> Int]
  BY <1>4 DEF CommitOrder
<1>6. row.status = "PENDING" /\ row.restocked = 0 /\ row.reopened = 0
  OBVIOUS
<1> HIDE DEF row
<1> QED BY <1>1, <1>2, <1>3, <1>5, <1>6

LEMMA StatusSet ==
    ASSUME Typed, NEW r \in Requests, CommitStatus(r)
    PROVE  LET q == req[r]
               o == orders[q.order]
           IN  /\ q.order \in DOMAIN orders /\ o \in OrderRow /\ q \in RequestState
               /\ q.restock => q.status = "CANCELLED"
               /\ orders' \in Seq(OrderRow) /\ DOMAIN orders' = DOMAIN orders
               /\ \A k \in DOMAIN orders \ {q.order} : orders'[k] = orders[k]
               /\ orders'[q.order].status = q.status
               /\ orders'[q.order].restocked = o.restocked + (IF q.restock THEN 1 ELSE 0)
               /\ orders'[q.order].reopened
                    = o.reopened + (IF o.status = "CANCELLED" /\ q.status # "CANCELLED" THEN 1 ELSE 0)
               /\ stock' \in [Items -> Int]
               /\ \A i \in Items : stock'[i] >= stock[i]
<1> DEFINE q == req[r]
           o == orders[q.order]
           restocked == o.restocked + (IF q.restock THEN 1 ELSE 0)
           reopened == o.reopened + (IF o.status = "CANCELLED" /\ q.status # "CANCELLED" THEN 1 ELSE 0)
           row == [o EXCEPT !.status = q.status, !.restocked = restocked, !.reopened = reopened]
<1>1. q \in RequestState /\ q.order \in DOMAIN orders /\ (q.restock => q.status = "CANCELLED")
  BY DEF CommitStatus, Typed, TypeOK, Placed
<1>2. orders \in Seq(OrderRow) /\ o \in OrderRow
  BY <1>1 DEF Typed, TypeOK
<1>3. restocked \in Nat /\ reopened \in Nat /\ q.status \in OrderStatus
  BY <1>1, <1>2 DEF OrderRow, RequestState
<1>4. orders' = [orders EXCEPT ![q.order] = row]
  BY DEF CommitStatus
<1>5. /\ row \in OrderRow /\ row.status = q.status /\ row.restocked = restocked
      /\ row.reopened = reopened
  <2> HIDE DEF restocked, reopened, o
  <2> QED BY <1>2, <1>3 DEF OrderRow
<1>6. /\ orders' \in Seq(OrderRow) /\ DOMAIN orders' = DOMAIN orders /\ orders'[q.order] = row
      /\ \A k \in DOMAIN orders \ {q.order} : orders'[k] = orders[k]
  <2> HIDE DEF row
  <2> QED BY <1>1, <1>2, <1>4, <1>5
<1>7. \A i \in Items : o.lines[i] \in Nat
  <2> HIDE DEF o
  <2>1. o.lines \in [Items -> 0 .. MaxQuantity]
    BY <1>2 DEF OrderRow, Lines
  <2> QED BY <2>1, StockAssumption
<1>8. stock' = [i \in Items |-> stock[i] + (IF q.restock THEN o.lines[i] ELSE 0)]
  BY DEF CommitStatus, Pieces
<1>9. stock' \in [Items -> Int] /\ \A i \in Items : stock'[i] >= stock[i]
  <2> HIDE DEF o, q
  <2> QED BY <1>7, <1>8 DEF Typed, TypeOK
<1> HIDE DEF row
<1> QED BY <1>1, <1>2, <1>5, <1>6, <1>9

LEMMA ServeTyped == ASSUME Typed, NEW r \in Requests, Serve(r) PROVE Typed'
<1>1. ASSUME NEW i \in Items, RemoveItem(r, i) PROVE Typed'
  BY <1>1, WriteTyped DEF RemoveItem, Typed, TypeOK
<1>2. ASSUME NEW i \in Items, NEW delta \in Deltas, ReadForAdjustment(r, i, delta) PROVE Typed'
  <2> DEFINE fields == [Idle EXCEPT !.stage = "adjust", !.item = {i}, !.seen = stock[i],
                                    !.next = stock[i] + delta]
  <2>1. stock[i] + delta \in Nat /\ stock[i] \in Int
    BY <1>2, StockAssumption DEF ReadForAdjustment, Acceptable, Typed, TypeOK
  <2>2. fields \in RequestState /\ fields.stage = "adjust"
    BY <2>1, IdleTyped DEF Idle, RequestState, Stages
  <2> HIDE DEF fields
  <2> QED BY <1>2, <2>2, ReadTyped DEF ReadForAdjustment, Begin, fields
<1>3. ASSUME NEW lines \in Lines, CheckOrder(r, lines) PROVE Typed'
  <2> DEFINE fields == [Idle EXCEPT !.stage = "order", !.lines = lines]
  <2>1. fields \in RequestState /\ fields.stage = "order"
    BY IdleTyped DEF Idle, RequestState, Stages
  <2> HIDE DEF fields
  <2> QED BY <1>3, <2>1, ReadTyped DEF CheckOrder, Begin, fields
<1>4. ASSUME NEW o \in DOMAIN orders, NEW status \in StatusInputs, ReadOrder(r, o, status)
      PROVE  Typed'
  <2> DEFINE restock == GivesBack(o, status)
             fields == [Idle EXCEPT !.stage = "status", !.order = o, !.status = status,
                                    !.restock = restock]
  <2>1. o \in Nat /\ status \in OrderStatus
    BY StockAssumption DEF Typed, TypeOK
  <2>2. restock \in BOOLEAN /\ (restock => status = "CANCELLED")
    BY DEF GivesBack
  <2> HIDE DEF restock
  <2>3. /\ fields \in RequestState /\ fields.order = o /\ fields.status = status
        /\ fields.restock = restock
    BY <2>1, <2>2, IdleTyped DEF Idle, RequestState, Stages
  <2>4. req' = [req EXCEPT ![r] = fields] /\ UNCHANGED Tables
    BY <1>4 DEF ReadOrder, Begin, restock
  <2> HIDE DEF fields
  <2> QED BY <2>2, <2>3, <2>4, ReadTyped
<1>5. CASE CommitOrder(r)
  BY <1>5, OrderPlaced, WriteTyped DEF CommitOrder, Typed, TypeOK
<1>6. CASE CommitStatus(r)
  BY <1>6, StatusSet, WriteTyped DEF CommitStatus, Typed, TypeOK
<1>7. CASE Abandon(r)
  BY <1>7, IdleTyped, ReadTyped DEF Abandon, Finish
<1> QED BY <1>1, <1>2, <1>3, <1>4, <1>5, <1>6, <1>7, PutTyped, AdjustmentTyped DEF Serve

LEMMA StepTyped == Typed /\ [Next]_vars => Typed'
<1>1. ASSUME Typed, UNCHANGED vars PROVE Typed'
  BY <1>1 DEF Typed, TypeOK, Placed, vars
<1> QED BY <1>1, ServeTyped DEF Next

\* Items, orders and requests keep their columns' types, and a request for a status names an
\* order on file.
THEOREM TypesCorrect == Spec => []TypeOK
<1> QED BY InitTyped, StepTyped, PTL DEF Spec, Typed

-----------------------------------------------------------------------------
(* Stock.                                                                  *)

LEMMA Countable ==
    ASSUME NEW S \in SUBSET Requests
    PROVE  /\ IsFiniteSet(S) /\ Cardinality(S) \in Nat
           /\ Cardinality(Requests) \in Nat /\ Cardinality(S) <= Cardinality(Requests)
           /\ \A r \in Requests \ S : Cardinality(S) <= Cardinality(Requests) - 1
           /\ \A r \in S : Cardinality(S \ {r}) = Cardinality(S) - 1
<1>1. IsFiniteSet(S) /\ Cardinality(S) <= Cardinality(Requests)
  BY FS_Subset, StockAssumption
<1>2. Cardinality(S) \in Nat /\ Cardinality(Requests) \in Nat
  BY <1>1, FS_CardinalityType, StockAssumption
<1>3. ASSUME NEW r \in Requests \ S PROVE Cardinality(S) <= Cardinality(Requests) - 1
  <2>1. /\ IsFiniteSet(Requests \ {r})
        /\ Cardinality(Requests \ {r}) = Cardinality(Requests) - 1
    BY FS_RemoveElement, StockAssumption
  <2>2. S \subseteq Requests \ {r}
    OBVIOUS
  <2> QED BY <2>1, <2>2, FS_Subset
<1>4. \A r \in S : Cardinality(S \ {r}) = Cardinality(S) - 1
  BY <1>1, FS_RemoveElement
<1> QED BY <1>1, <1>2, <1>3, <1>4

Within(i) == MaxQuantity * Cardinality(Ordering(i)) < stock[i] + MaxQuantity * Cardinality(Requests)

LEMMA OrderingRequests == \A i : Ordering(i) \in SUBSET Requests
BY DEF Ordering

\* What is used of multiplication: it grows with its factor, by one quantity at a time.
LEMMA Multiples ==
    /\ \A m, n \in Nat : MaxQuantity * m \in Nat
                         /\ (m <= n => MaxQuantity * m <= MaxQuantity * n)
                         /\ (m <= n - 1 => MaxQuantity * m <= MaxQuantity * n - MaxQuantity)
    /\ MaxQuantity >= 1
<1> DEFINE Q == MaxQuantity
<1>1. Q \in Nat /\ Q >= 1
  BY StockAssumption
<1> HIDE DEF Q
<1>2. ASSUME NEW m \in Nat, NEW n \in Nat
      PROVE  /\ Q * m \in Nat
             /\ m <= n => Q * m <= Q * n
             /\ m <= n - 1 => Q * m <= Q * n - Q
  BY <1>1
<1> QED BY <1>1, <1>2 DEF Q

\* With one request that is not ordering the item, any stock from zero up is enough.
LEMMA Covered ==
    ASSUME Typed', NEW i \in Items, stock'[i] >= 0, NEW r \in Requests, r \notin Ordering(i)'
    PROVE  Within(i)'
<1> DEFINE n == Cardinality(Ordering(i)')
           all == Cardinality(Requests)
<1>1. Ordering(i)' \in SUBSET Requests
  BY DEF Ordering
<1>2. n \in Nat /\ all \in Nat /\ n <= all - 1
  BY <1>1, Countable
<1>3. Within(i)' <=> MaxQuantity * n < stock'[i] + MaxQuantity * all
  BY DEF Within
<1>4. stock'[i] \in Int /\ MaxQuantity \in Nat
  BY StockAssumption DEF Typed, TypeOK
<1> HIDE DEF n, all
<1>5. MaxQuantity * n <= MaxQuantity * all - MaxQuantity /\ MaxQuantity * n \in Nat /\ MaxQuantity * all \in Nat
  BY <1>2, Multiples
<1> QED BY <1>3, <1>4, <1>5, Multiples

\* A step that lowers no stock and adds no order keeps the bound.
LEMMA StockKept ==
    ASSUME Typed, Typed', NEW i \in Items, Within(i), stock'[i] >= stock[i],
           Ordering(i)' \subseteq Ordering(i)
    PROVE  Within(i)'
<1> DEFINE n == Cardinality(Ordering(i))
           n1 == Cardinality(Ordering(i)')
           all == Cardinality(Requests)
<1>1. n1 \in Nat /\ n \in Nat /\ all \in Nat /\ n1 <= n
  BY OrderingRequests, Countable, FS_Subset
<1>2. Within(i)' <=> MaxQuantity * n1 < stock'[i] + MaxQuantity * all
  BY DEF Within
<1>3. MaxQuantity * n < stock[i] + MaxQuantity * all
  BY DEF Within
<1>4. stock'[i] \in Int /\ stock[i] \in Int
  BY DEF Typed, TypeOK
<1> HIDE DEF n, n1, all
<1>5. MaxQuantity * n1 <= MaxQuantity * n /\ MaxQuantity * n1 \in Nat /\ MaxQuantity * n \in Nat /\ MaxQuantity * all \in Nat
  BY <1>1, Multiples
<1> QED BY <1>2, <1>3, <1>4, <1>5

\* An order that is checked saw something on the shelf.
LEMMA StockSeen ==
    ASSUME Typed, NEW i \in Items, stock[i] > 0, stock' = stock, Typed'
    PROVE  Within(i)'
<1> DEFINE n == Cardinality(Ordering(i)')
           all == Cardinality(Requests)
<1>1. Ordering(i)' \in SUBSET Requests
  BY DEF Ordering
<1>2. n \in Nat /\ all \in Nat /\ n <= all
  BY <1>1, Countable
<1>3. Within(i)' <=> MaxQuantity * n < stock[i] + MaxQuantity * all
  BY DEF Within
<1>4. stock[i] \in Int
  BY DEF Typed, TypeOK
<1> HIDE DEF n, all
<1>5. MaxQuantity * n <= MaxQuantity * all /\ MaxQuantity * n \in Nat /\ MaxQuantity * all \in Nat
  BY <1>2, Multiples
<1> QED BY <1>3, <1>4, <1>5

\* An order that is committed takes one line's worth, and is not under way any more.
LEMMA StockSold ==
    ASSUME Typed, Typed', NEW r \in Requests, CommitOrder(r), NEW i \in Items, Within(i)
    PROVE  Within(i)'
<1> DEFINE taken == req[r].lines[i]
           n == Cardinality(Ordering(i))
           n1 == Cardinality(Ordering(i)')
           all == Cardinality(Requests)
<1>1. req[r].stage = "order" /\ req'[r] = Idle /\ \A p \in Requests \ {r} : req'[p] = req[p]
  BY DEF CommitOrder, Finish, Typed, TypeOK
<1>2. Ordering(i)' \subseteq Ordering(i) \ {r}
  BY <1>1, IdleTyped DEF Ordering
<1>3. taken \in 0 .. MaxQuantity /\ stock'[i] = stock[i] - taken
  BY OrderPlaced DEF CommitOrder, Lines
<1>4. CASE taken = 0
  <2>1. stock'[i] >= stock[i]
    BY <1>3, <1>4 DEF Typed, TypeOK
  <2> QED BY <1>2, <2>1, StockKept
<1>5. CASE taken > 0
  <2>1. r \in Ordering(i)
    BY <1>1, <1>5 DEF Ordering
  <2>2. IsFiniteSet(Ordering(i) \ {r}) /\ Cardinality(Ordering(i) \ {r}) = n - 1
    BY <2>1, OrderingRequests, Countable, FS_RemoveElement
  <2>3. n1 \in Nat /\ n \in Nat /\ all \in Nat /\ n1 <= n - 1
    BY <1>2, <2>2, OrderingRequests, Countable, FS_Subset, FS_CardinalityType
  <2>4. Within(i)' <=> MaxQuantity * n1 < stock'[i] + MaxQuantity * all
    BY DEF Within
  <2>5. MaxQuantity * n < stock[i] + MaxQuantity * all
    BY DEF Within
  <2>6. stock[i] \in Int /\ taken \in Int /\ taken <= MaxQuantity /\ MaxQuantity \in Nat
    BY <1>3, StockAssumption DEF Typed, TypeOK
  <2> HIDE DEF n, n1, all, taken
  <2>7. MaxQuantity * n1 <= MaxQuantity * n - MaxQuantity /\ MaxQuantity * n1 \in Nat /\ MaxQuantity * n \in Nat /\ MaxQuantity * all \in Nat
    BY <2>3, Multiples
  <2> QED BY <1>3, <2>4, <2>5, <2>6, <2>7
<1>6. taken = 0 \/ taken > 0
  BY <1>3
<1> QED BY <1>4, <1>5, <1>6

LEMMA ServeStock ==
    ASSUME Typed, Typed', NEW r \in Requests, Serve(r), NEW i \in Items, Within(i)
    PROVE  Within(i)'
<1>1. ASSUME stock'[i] >= stock[i], NEW fields, fields.stage # "order",
             UNCHANGED req \/ req' = [req EXCEPT ![r] = fields]
      PROVE  Within(i)'
  <2>1. Ordering(i)' \subseteq Ordering(i)
    BY <1>1 DEF Ordering, Typed, TypeOK
  <2> QED BY <1>1, <2>1, StockKept
<1>2. ASSUME UNCHANGED stock PROVE stock'[i] >= stock[i]
  BY <1>2 DEF Typed, TypeOK
<1>3. ASSUME NEW j \in Items, NEW quantity \in Levels, NEW to,
             CreateItem(r, j, quantity, to) \/ UpdateItem(r, j, quantity, to)
      PROVE  Within(i)'
  <2>1. UNCHANGED req /\ stock' = [stock EXCEPT ![j] = quantity] /\ IsIdle(r)
    BY <1>3 DEF CreateItem, UpdateItem, Put
  <2>2. CASE i = j
    <3>1. stock'[i] >= 0
      BY <2>1, <2>2, StockAssumption DEF Typed, TypeOK
    <3>2. r \notin Ordering(i)'
      BY <2>1 DEF Ordering, IsIdle
    <3> QED BY <3>1, <3>2, Covered
  <2>3. CASE i # j
    <3>1. stock'[i] >= stock[i]
      BY <2>1, <2>3 DEF Typed, TypeOK
    <3> QED BY <1>1, <2>1, <3>1, IdleTyped
  <2> QED BY <2>2, <2>3
<1>4. ASSUME NEW j, RemoveItem(r, j) PROVE Within(i)'
  BY <1>1, <1>2, <1>4, IdleTyped DEF RemoveItem
<1>5. ASSUME NEW j, NEW delta, ReadForAdjustment(r, j, delta) PROVE Within(i)'
  <2>1. [Idle EXCEPT !.stage = "adjust", !.item = {j}, !.seen = stock[j],
                     !.next = stock[j] + delta].stage # "order"
    BY DEF Idle
  <2> QED BY <1>1, <1>2, <1>5, <2>1 DEF ReadForAdjustment, Begin, Tables
<1>6. CASE CommitAdjustment(r)
  <2>1. PICK j \in req[r].item : stock' = [stock EXCEPT ![j] = req[r].next]
    BY <1>6 DEF CommitAdjustment
  <2>2. req' = [req EXCEPT ![r] = Idle] /\ j \in Items /\ req[r].next \in Nat
    BY <1>6 DEF CommitAdjustment, Finish, Typed, TypeOK, RequestState
  <2>3. CASE i = j
    <3>1. stock'[i] >= 0
      BY <2>1, <2>2, <2>3 DEF Typed, TypeOK
    <3>2. r \notin Ordering(i)'
      BY <2>2, IdleTyped DEF Ordering, Typed, TypeOK
    <3> QED BY <3>1, <3>2, Covered
  <2>4. CASE i # j
    <3>1. stock'[i] >= stock[i]
      BY <2>1, <2>2, <2>4 DEF Typed, TypeOK
    <3> QED BY <1>1, <2>2, <3>1, IdleTyped
  <2> QED BY <2>3, <2>4
<1>7. ASSUME NEW lines \in Lines, CheckOrder(r, lines) PROVE Within(i)'
  <2>1. lines[i] \in Nat /\ UNCHANGED stock
    BY <1>7, StockAssumption DEF CheckOrder, Lines, Tables
  <2>2. CASE lines[i] > 0
    <3>1. stock[i] > 0
      BY <1>7, <2>1, <2>2 DEF CheckOrder, InStock, Wanted, Typed, TypeOK
    <3> QED BY <2>1, <3>1, StockSeen
  <2>3. CASE ~(lines[i] > 0)
    <3>1. req' = [req EXCEPT ![r] = [Idle EXCEPT !.stage = "order", !.lines = lines]]
      BY <1>7 DEF CheckOrder, Begin
    <3>2. req'[r].lines = lines
      BY <3>1 DEF Idle, Typed, TypeOK
    <3>3. Ordering(i)' \subseteq Ordering(i)
      BY <2>3, <3>1, <3>2 DEF Ordering, Typed, TypeOK
    <3> QED BY <1>2, <2>1, <3>3, StockKept
  <2> QED BY <2>2, <2>3
<1>8. CASE CommitOrder(r)
  BY <1>8, StockSold
<1>9. ASSUME NEW o, NEW status, ReadOrder(r, o, status) PROVE Within(i)'
  <2>1. [Idle EXCEPT !.stage = "status", !.order = o, !.status = status,
                     !.restock = GivesBack(o, status)].stage # "order"
    BY DEF Idle
  <2> QED BY <1>1, <1>2, <1>9, <2>1 DEF ReadOrder, Begin, Tables
<1>10. CASE CommitStatus(r)
  BY <1>1, <1>10, StatusSet, IdleTyped DEF CommitStatus, Finish
<1>11. CASE Abandon(r)
  BY <1>1, <1>2, <1>11, IdleTyped DEF Abandon, Finish, Tables
<1> QED BY <1>3, <1>4, <1>5, <1>6, <1>7, <1>8, <1>9, <1>10, <1>11 DEF Serve

\* However many orders look at the same stock, an item is oversold by less than the requests
\* served at once can order (createOrder checks, then decrements).
THEOREM OversellingBounded == Spec => []OversoldWithinRequests
<1>1. ASSUME Init, NEW i \in Items PROVE Within(i)
  <2>1. Ordering(i) = {} /\ stock[i] = 0
    BY <1>1, IdleTyped DEF Init, Ordering
  <2>2. Cardinality(Requests) \in Nat /\ 0 <= Cardinality(Requests) - 1
    BY FS_EmptySet, FS_CardinalityType, StockAssumption
  <2>3. MaxQuantity * 0 <= MaxQuantity * Cardinality(Requests) - MaxQuantity /\ MaxQuantity * 0 \in Nat
        /\ MaxQuantity * Cardinality(Requests) \in Nat
    BY <2>2, Multiples
  <2>4. Cardinality(Ordering(i)) = 0
    BY <2>1, FS_EmptySet
  <2> QED BY <2>1, <2>3, <2>4, Multiples, StockAssumption DEF Within
<1>2. Init => OversoldWithinRequests
  BY <1>1 DEF OversoldWithinRequests, Within
<1>3. ASSUME Typed, Typed', OversoldWithinRequests, [Next]_vars, NEW i \in Items PROVE Within(i)'
  <2>1. Within(i)
    BY <1>3 DEF OversoldWithinRequests, Within
  <2>2. CASE UNCHANGED vars
    BY <2>1, <2>2 DEF Within, Ordering, vars
  <2> QED BY <1>3, <2>1, <2>2, ServeStock DEF Next
<1>4. (\A i \in Items : Within(i)') => OversoldWithinRequests'
  BY DEF OversoldWithinRequests, Within
<1>5. Typed /\ Typed' /\ OversoldWithinRequests /\ [Next]_vars => OversoldWithinRequests'
  BY <1>3, <1>4
<1> QED BY InitTyped, StepTyped, <1>2, <1>5, PTL DEF Spec

-----------------------------------------------------------------------------
(* Orders that go back on the shelf.                                       *)

\* While it is open, an order has gone back at most as often as the requests of each time it
\* was cancelled; this is what leaves room for those that see it open now.
Balanced(o) ==
    /\ orders[o].restocked + Cardinality(Restocking(o))
         <= Cardinality(Requests) * (1 + orders[o].reopened)
    /\ orders[o].status # "CANCELLED"
         => orders[o].restocked <= Cardinality(Requests) * orders[o].reopened

AllBalanced == \A o \in DOMAIN orders : Balanced(o)

LEMMA AllRequests ==
    /\ Cardinality(Requests) \in Nat
    /\ \A k \in Nat : /\ Cardinality(Requests) * k \in Nat
                      /\ Cardinality(Requests) * (1 + k)
                           = Cardinality(Requests) * k + Cardinality(Requests)
<1> DEFINE all == Cardinality(Requests)
<1>1. all \in Nat
  BY FS_CardinalityType, StockAssumption
<1> HIDE DEF all
<1>2. \A k \in Nat : all * k \in Nat /\ all * (1 + k) = all * k + all
  BY <1>1
<1> QED BY <1>1, <1>2 DEF all

LEMMA RestockingCounts ==
    ASSUME NEW o
    PROVE  /\ Restocking(o) \in SUBSET Requests /\ Cardinality(Restocking(o)) \in Nat
           /\ Cardinality(Restocking(o)) <= Cardinality(Requests)
<1>1. Restocking(o) \in SUBSET Requests
  BY DEF Restocking
<1> QED BY <1>1, Countable

LEMMA RowTyped ==
    ASSUME Typed, NEW o \in DOMAIN orders
    PROVE  /\ orders[o].restocked \in Nat /\ orders[o].reopened \in Nat
           /\ orders[o].status \in OrderStatus
<1>1. orders[o] \in OrderRow
  BY DEF Typed, TypeOK
<1> QED BY <1>1 DEF OrderRow

\* An order nobody writes and no further request means to give back stays balanced.
LEMMA OrderKept ==
    ASSUME Typed, NEW o \in DOMAIN orders, Balanced(o), orders'[o] = orders[o],
           Restocking(o)' \subseteq Restocking(o)
    PROVE  Balanced(o)'
<1> DEFINE n == Cardinality(Restocking(o))
           n1 == Cardinality(Restocking(o)')
<1>1. IsFiniteSet(Restocking(o)) /\ n \in Nat
  BY RestockingCounts, Countable
<1>2. n1 \in Nat /\ n1 <= n
  BY <1>1, FS_Subset, FS_CardinalityType
<1>3. orders[o].restocked \in Nat /\ orders[o].reopened \in Nat
  BY RowTyped
<1>4. orders[o].restocked + n1 <= Cardinality(Requests) * (1 + orders[o].reopened)
  <2> DEFINE bound == Cardinality(Requests) * (1 + orders[o].reopened)
  <2>1. bound \in Nat
    <3>1. 1 + orders[o].reopened \in Nat
      BY <1>3
    <3> QED BY <3>1, AllRequests
  <2>2. orders[o].restocked + n <= bound
    BY DEF Balanced
  <2> HIDE DEF bound, n, n1
  <2>3. orders[o].restocked + n1 <= bound
    BY <1>1, <1>2, <1>3, <2>1, <2>2
  <2> QED BY <2>3 DEF bound
<1> QED BY <1>4 DEF Balanced

\* An order that is read while open may be given back by every request at once.
LEMMA OrderRead ==
    ASSUME Typed, NEW o \in DOMAIN orders, Balanced(o), orders'[o] = orders[o],
           orders[o].status # "CANCELLED"
    PROVE  Balanced(o)'
<1> DEFINE n1 == Cardinality(Restocking(o)')
           all == Cardinality(Requests)
           rs == orders[o].restocked
           rp == orders[o].reopened
<1>1. Restocking(o)' \in SUBSET Requests
  BY DEF Restocking
<1>2. n1 \in Nat /\ n1 <= all /\ all \in Nat
  BY <1>1, Countable
<1>3. rs \in Nat /\ rp \in Nat
  BY RowTyped
<1>4. all * rp \in Nat /\ all * (1 + rp) = all * rp + all
  BY <1>3, AllRequests
<1>5. rs <= all * rp
  BY DEF Balanced
<1>6. rs + n1 <= all * (1 + rp)
  <2> HIDE DEF n1, all, rs, rp
  <2> QED BY <1>2, <1>3, <1>4, <1>5
<1> QED BY <1>5, <1>6 DEF Balanced

\* A new status moves one order by what its request had decided.
LEMMA OrderSet ==
    ASSUME Typed, NEW r \in Requests, CommitStatus(r), NEW o, o = req[r].order, Balanced(o)
    PROVE  Balanced(o)'
<1> DEFINE q == req[r]
           n == Cardinality(Restocking(o))
           n1 == Cardinality(Restocking(o)')
           all == Cardinality(Requests)
           rs == orders[o].restocked
           rp == orders[o].reopened
           rs1 == orders'[o].restocked
           rp1 == orders'[o].reopened
<1>1. /\ o \in DOMAIN orders /\ (q.restock => q.status = "CANCELLED")
      /\ orders'[o].status = q.status
      /\ rs1 = rs + (IF q.restock THEN 1 ELSE 0)
      /\ rp1 = rp + (IF orders[o].status = "CANCELLED" /\ q.status # "CANCELLED" THEN 1 ELSE 0)
  BY StatusSet
<1>2. rs \in Nat /\ rp \in Nat /\ q.restock \in BOOLEAN
  BY <1>1, RowTyped, StatusSet DEF RequestState
<1>3. Restocking(o)' \subseteq Restocking(o) \ {r} /\ (q.restock => r \in Restocking(o))
  <2>1. q.stage = "status" /\ \A p \in Requests : req'[p] = IF p = r THEN Idle ELSE req[p]
    BY DEF CommitStatus, Finish, Typed, TypeOK
  <2> QED BY <2>1, IdleTyped DEF Restocking
<1>4. /\ n \in Nat /\ n1 \in Nat /\ n1 <= n /\ all \in Nat
      /\ q.restock => n1 <= n - 1
  <2>1. IsFiniteSet(Restocking(o)) /\ n \in Nat /\ all \in Nat
    BY RestockingCounts, Countable
  <2>2. n1 \in Nat /\ n1 <= n
    BY <1>3, <2>1, FS_Subset, FS_CardinalityType
  <2>3. ASSUME q.restock PROVE n1 <= n - 1
    <3>1. /\ IsFiniteSet(Restocking(o) \ {r})
          /\ Cardinality(Restocking(o) \ {r}) = n - 1
      BY <1>3, <2>1, <2>3, FS_RemoveElement
    <3> QED BY <1>3, <3>1, FS_Subset
  <2> QED BY <2>1, <2>2, <2>3
<1>5. /\ all * rp \in Nat /\ all * (1 + rp) = all * rp + all
      /\ all * (1 + (rp + 1)) = all * (rp + 1) + all /\ all * (rp + 1) = all * rp + all
  <2>1. rp + 1 \in Nat /\ rp + 1 = 1 + rp
    BY <1>2
  <2> QED BY <1>2, <2>1, AllRequests
<1>6. rs + n <= all * (1 + rp) /\ (orders[o].status # "CANCELLED" => rs <= all * rp)
  BY DEF Balanced
<1>7. rs1 + n1 <= all * (1 + rp1) /\ (orders'[o].status # "CANCELLED" => rs1 <= all * rp1)
  <2> DEFINE old == orders[o].status
             new == orders'[o].status
  <2>1. rp1 = rp \/ rp1 = rp + 1
    BY <1>1, <1>2
  <2>2. rs1 + n1 <= rs + n
    <3> HIDE DEF n, n1, rs, rs1
    <3> QED BY <1>1, <1>2, <1>4
  <2>3. all * (1 + rp) <= all * (1 + rp1)
    <3> HIDE DEF all, rp, rp1
    <3> QED BY <1>2, <1>4, <1>5, <2>1
  <2>4. all * (1 + rp1) \in Nat /\ rs1 + n1 \in Nat /\ rs + n \in Nat /\ all * (1 + rp) \in Nat
    <3>1. all * (1 + rp1) \in Nat /\ all * (1 + rp) \in Nat
      <4> HIDE DEF all, rp, rp1
      <4> QED BY <1>2, <1>4, <1>5, <2>1
    <3>2. rs1 \in Nat
      BY <1>1, <1>2
    <3> QED BY <1>2, <1>4, <3>1, <3>2
  <2>5. rs1 + n1 <= all * (1 + rp1)
    <3> HIDE DEF n, n1, rs, rs1, rp, rp1, all
    <3> QED BY <1>6, <2>2, <2>3, <2>4
  <2>6. ASSUME new # "CANCELLED" PROVE rs1 <= all * rp1
    <3>1. ~q.restock /\ rs1 = rs
      BY <1>1, <1>2, <2>6
    <3>2. CASE old = "CANCELLED"
      <4>1. rp1 = rp + 1
        BY <1>1, <2>6, <3>2
      <4> HIDE DEF n, n1, rs, rs1, rp, rp1, all
      <4> QED BY <1>2, <1>4, <1>5, <1>6, <3>1, <4>1
    <3>3. CASE old # "CANCELLED"
      <4>1. rp1 = rp
        BY <1>1, <1>2, <3>3
      <4> QED BY <1>6, <3>1, <3>3, <4>1
    <3> QED BY <3>2, <3>3
  <2> QED BY <2>5, <2>6
<1> QED BY <1>7 DEF Balanced

LEMMA ServeBalanced ==
    ASSUME Typed, Typed', AllBalanced, NEW r \in Requests, Serve(r), NEW o \in DOMAIN orders'
    PROVE  Balanced(o)'
<1>1. ASSUME UNCHANGED orders, NEW fields, fields.stage # "status" \/ ~fields.restock,
             UNCHANGED req \/ req' = [req EXCEPT ![r] = fields]
      PROVE  Balanced(o)'
  <2>1. Restocking(o)' \subseteq Restocking(o)
    BY <1>1 DEF Restocking, Typed, TypeOK
  <2> QED BY <1>1, <2>1, OrderKept DEF AllBalanced
<1>2. ASSUME NEW i, NEW quantity, NEW to, CreateItem(r, i, quantity, to) \/ UpdateItem(r, i, quantity, to)
      PROVE  Balanced(o)'
  BY <1>1, <1>2, IdleTyped DEF CreateItem, UpdateItem
<1>3. ASSUME NEW i, RemoveItem(r, i) PROVE Balanced(o)'
  BY <1>1, <1>3, IdleTyped DEF RemoveItem
<1>4. ASSUME NEW i, NEW delta, ReadForAdjustment(r, i, delta) PROVE Balanced(o)'
  <2>1. [Idle EXCEPT !.stage = "adjust", !.item = {i}, !.seen = stock[i],
                     !.next = stock[i] + delta].stage # "status"
    BY DEF Idle
  <2> QED BY <1>1, <1>4, <2>1 DEF ReadForAdjustment, Begin, Tables
<1>5. ASSUME NEW lines, CheckOrder(r, lines) PROVE Balanced(o)'
  <2>1. [Idle EXCEPT !.stage = "order", !.lines = lines].stage # "status"
    BY DEF Idle
  <2> QED BY <1>1, <1>5, <2>1 DEF CheckOrder, Begin, Tables
<1>6. CASE CommitAdjustment(r) \/ Abandon(r)
  BY <1>1, <1>6, IdleTyped DEF CommitAdjustment, Abandon, Finish, Tables
<1>7. CASE CommitOrder(r)
  <2>1. Restocking(o)' \subseteq Restocking(o)
    BY <1>7, IdleTyped DEF CommitOrder, Finish, Restocking, Typed, TypeOK
  <2>2. CASE o \in DOMAIN orders
    BY <1>7, <2>1, <2>2, OrderPlaced, OrderKept DEF AllBalanced
  <2>3. CASE o \notin DOMAIN orders
    <3>1. orders'[o].restocked = 0 /\ orders'[o].reopened = 0
      BY <1>7, <2>3, OrderPlaced
    <3>2. Restocking(o) = {}
      BY <2>3 DEF Restocking, Typed, Placed
    <3>3. Cardinality(Restocking(o)') = 0
      BY <2>1, <3>2, FS_EmptySet
    <3>4. /\ Cardinality(Requests) * 0 \in Nat /\ Cardinality(Requests) \in Nat
          /\ Cardinality(Requests) * (1 + 0) = Cardinality(Requests) * 0 + Cardinality(Requests)
      BY AllRequests
    <3> QED BY <3>1, <3>3, <3>4 DEF Balanced
  <2> QED BY <2>2, <2>3
<1>8. ASSUME NEW k \in DOMAIN orders, NEW status, ReadOrder(r, k, status) PROVE Balanced(o)'
  <2> DEFINE restock == GivesBack(k, status)
             fields == [Idle EXCEPT !.stage = "status", !.order = k, !.status = status,
                                    !.restock = restock]
  <2>1. UNCHANGED orders /\ req' = [req EXCEPT ![r] = fields]
    BY <1>8 DEF ReadOrder, Begin, Tables
  <2>2. fields.order = k /\ fields.restock = restock
    BY DEF Idle
  <2>3. CASE ~restock
    BY <1>1, <2>1, <2>2, <2>3
  <2>4. CASE restock /\ o = k
    BY <2>1, <2>4, OrderRead DEF AllBalanced, GivesBack
  <2>5. CASE o # k
    <3> HIDE DEF fields
    <3>1. Restocking(o)' \subseteq Restocking(o)
      BY <2>1, <2>2, <2>5 DEF Restocking, Typed, TypeOK
    <3> QED BY <2>1, <3>1, OrderKept DEF AllBalanced
  <2> QED BY <2>3, <2>4, <2>5
<1>9. CASE CommitStatus(r)
  <2>1. DOMAIN orders' = DOMAIN orders
    BY <1>9, StatusSet
  <2>2. CASE o = req[r].order
    BY <1>9, <2>1, <2>2, OrderSet DEF AllBalanced
  <2>3. CASE o # req[r].order
    <3>1. orders'[o] = orders[o]
      BY <1>9, <2>1, <2>3, StatusSet
    <3>2. Restocking(o)' \subseteq Restocking(o)
      BY <1>9, IdleTyped DEF CommitStatus, Finish, Restocking, Typed, TypeOK
    <3> QED BY <2>1, <3>1, <3>2, OrderKept DEF AllBalanced
  <2> QED BY <2>2, <2>3
<1> QED BY <1>2, <1>3, <1>4, <1>5, <1>6, <1>7, <1>8, <1>9 DEF Serve

\* However many requests cancel and reopen an order, its lines go back on the shelf at most
\* once for each request served at once, and as often again for each time it was reopened
\* (updateOrderStatus).
THEOREM RestockingBounded == Spec => []RestockedPerReopening
<1>1. Init => AllBalanced
  BY DEF Init, AllBalanced
<1>2. Typed /\ Typed' /\ AllBalanced /\ [Next]_vars => AllBalanced'
  <2>1. ASSUME AllBalanced, UNCHANGED vars PROVE AllBalanced'
    BY <2>1 DEF AllBalanced, Balanced, Restocking, vars
  <2>2. (\A o \in DOMAIN orders' : Balanced(o)') => AllBalanced'
    BY DEF AllBalanced
  <2>3. ASSUME Typed, Typed', AllBalanced, Next, NEW o \in DOMAIN orders' PROVE Balanced(o)'
    BY <2>3, ServeBalanced DEF Next
  <2> QED BY <2>1, <2>2, <2>3
<1>3. AllBalanced => RestockedPerReopening
  BY DEF AllBalanced, Balanced, RestockedPerReopening
<1> QED BY InitTyped, StepTyped, <1>1, <1>2, <1>3, PTL DEF Spec

-----------------------------------------------------------------------------
(* Totals: a running total exists, there is one, and it moves with each    *)
(* amount.                                                                 *)

\* A set of numbers that starts at 0 and never stops is all of them.
LEMMA UpTo ==
    ASSUME NEW n \in Nat, NEW S, 0 \in S, \A m \in 1 .. n : m - 1 \in S => m \in S
    PROVE  0 .. n \subseteq S
<1> DEFINE Left == {m \in 0 .. n : m \notin S}
<1>1. SUFFICES ASSUME Left # {} PROVE FALSE
  OBVIOUS
<1>2. PICK least \in Left : \A m \in Left : ~(<<m, least>> \in OpToRel(<, Nat))
  <2>1. Left \subseteq Nat
    OBVIOUS
  <2> HIDE DEF Left
  <2> QED BY <1>1, <2>1, NatLessThanWellFounded, WFMin
<1>3. least \in 1 .. n /\ least - 1 \in 0 .. n
  OBVIOUS
<1>4. <<least - 1, least>> \in OpToRel(<, Nat)
  BY <1>3 DEF OpToRel
<1>5. least - 1 \in S
  BY <1>2, <1>3, <1>4
<1> QED BY <1>3, <1>5

Column(f, n, s) ==
    /\ s \in [0 .. n -> Int]
    /\ s[0] = 0
    /\ \A m \in 1 .. n : s[m] = s[m - 1] + f[m]

LEMMA ColumnExists ==
    ASSUME NEW n \in Nat, NEW f, \A k \in 1 .. n : f[k] \in Int
    PROVE  \E s : Column(f, n, s)
<1> DEFINE S == {m \in 0 .. n : \E s : Column(f, m, s)}
<1>1. 0 \in S
  <2>1. Column(f, 0, [m \in 0 .. 0 |-> 0])
    BY DEF Column
  <2> QED BY <2>1
<1>2. ASSUME NEW m \in 1 .. n, m - 1 \in S PROVE m \in S
  <2>1. PICK s : Column(f, m - 1, s)
    BY <1>2
  <2> DEFINE t == [k \in 0 .. m |-> IF k = m THEN s[m - 1] + f[m] ELSE s[k]]
  <2>2. Column(f, m, t)
    BY <2>1 DEF Column
  <2> QED BY <2>2
<1> HIDE DEF S
<1>3. n \in S
  BY <1>1, <1>2, UpTo
<1> QED BY <1>3 DEF S

LEMMA ColumnUnique ==
    ASSUME NEW n \in Nat, NEW f, NEW s, NEW t, Column(f, n, s),
           DOMAIN t = 0 .. n, t[0] = 0, \A m \in 1 .. n : t[m] = t[m - 1] + f[m]
    PROVE  \A m \in 0 .. n : s[m] = t[m]
<1> DEFINE S == {m \in 0 .. n : s[m] = t[m]}
<1>1. 0 \in S
  BY DEF Column
<1>2. ASSUME NEW m \in 1 .. n, m - 1 \in S PROVE m \in S
  BY <1>2 DEF Column
<1> HIDE DEF S
<1>3. 0 .. n \subseteq S
  BY <1>1, <1>2, UpTo
<1> QED BY <1>3 DEF S

\* Any running total of the amounts ends in their Total.
LEMMA TotalIs ==
    ASSUME NEW n \in Nat, NEW f, NEW s, Column(f, n, s)
    PROVE  Total(f, n) = s[n] /\ Total(f, n) \in Int
<1> DEFINE Sums(t) == t = [m \in 0 .. n |-> IF m = 0 THEN 0 ELSE t[m - 1] + f[m]]
           sum == CHOOSE t : Sums(t)
<1>1. Sums(s)
  BY DEF Column
<1>2. Sums(sum)
  BY <1>1
<1>3. Total(f, n) = sum[n]
  BY DEF Total
<1> HIDE DEF sum
<1>4. sum[0] = 0 /\ \A m \in 1 .. n : sum[m] = sum[m - 1] + f[m]
  BY <1>2
<1>5. DOMAIN sum = 0 .. n
  BY <1>2
<1>6. s[n] = sum[n]
  BY <1>4, <1>5, ColumnUnique
<1> QED BY <1>3, <1>6 DEF Column

LEMMA TotalZero == ASSUME NEW f PROVE Total(f, 0) = 0
<1>1. Column(f, 0, [m \in 0 .. 0 |-> 0])
  BY DEF Column
<1> QED BY <1>1, TotalIs

\* Lists of the same amounts have the same total.
LEMMA TotalSame ==
    ASSUME NEW n \in Nat, NEW f, NEW g, \A k \in 1 .. n : f[k] \in Int /\ g[k] = f[k]
    PROVE  Total(g, n) = Total(f, n) /\ Total(f, n) \in Int
<1>1. PICK s : Column(f, n, s)
  BY ColumnExists
<1>2. Column(g, n, s)
  BY <1>1 DEF Column
<1> QED BY <1>1, <1>2, TotalIs

\* One more amount adds itself.
LEMMA TotalAppended ==
    ASSUME NEW n \in Nat, NEW f, NEW g, g[n + 1] \in Int,
           \A k \in 1 .. n : f[k] \in Int /\ g[k] = f[k]
    PROVE  Total(g, n + 1) = Total(f, n) + g[n + 1]
<1>1. PICK s : Column(f, n, s)
  BY ColumnExists
<1> DEFINE t == [k \in 0 .. n + 1 |-> IF k = n + 1 THEN s[n] + g[n + 1] ELSE s[k]]
<1>2. t[0] = 0 /\ t \in [0 .. n + 1 -> Int] /\ t[n + 1] = s[n] + g[n + 1]
  BY <1>1 DEF Column
<1>3. ASSUME NEW m \in 1 .. n + 1 PROVE t[m] = t[m - 1] + g[m]
  <2>1. t[m - 1] = s[m - 1]
    BY <1>3
  <2>2. CASE m = n + 1
    BY <2>1, <2>2
  <2>3. CASE m # n + 1
    <3>1. m \in 1 .. n
      BY <2>3
    <3>2. t[m] = s[m] /\ s[m] = s[m - 1] + f[m]
      BY <1>1, <2>3, <3>1 DEF Column
    <3> QED BY <2>1, <3>1, <3>2
  <2> QED BY <2>2, <2>3
<1>4. Column(g, n + 1, t)
  BY <1>2, <1>3 DEF Column
<1> HIDE DEF t
<1> QED BY <1>1, <1>2, <1>4, TotalIs

\* An amount that changes changes the total by as much.
LEMMA TotalChanged ==
    ASSUME NEW n \in Nat, NEW f, NEW g, NEW k \in 1 .. n, g[k] \in Int,
           \A m \in 1 .. n : f[m] \in Int /\ (m # k => g[m] = f[m])
    PROVE  Total(g, n) = Total(f, n) + (g[k] - f[k])
<1>1. PICK s : Column(f, n, s)
  BY ColumnExists
<1> DEFINE t == [m \in 0 .. n |-> IF m < k THEN s[m] ELSE s[m] + (g[k] - f[k])]
<1>2. t[0] = 0 /\ t \in [0 .. n -> Int] /\ t[n] = s[n] + (g[k] - f[k])
  BY <1>1 DEF Column
<1>3. ASSUME NEW m \in 1 .. n PROVE t[m] = t[m - 1] + g[m]
  <2>1. /\ t[m] = IF m < k THEN s[m] ELSE s[m] + (g[k] - f[k])
        /\ t[m - 1] = IF m - 1 < k THEN s[m - 1] ELSE s[m - 1] + (g[k] - f[k])
    OBVIOUS
  <2>2. s[m] = s[m - 1] + f[m] /\ s[m - 1] \in Int /\ s[m] \in Int /\ f[k] \in Int /\ f[m] \in Int
    BY <1>1, <1>3 DEF Column
  <2>3. m # k => g[m] = f[m]
    OBVIOUS
  <2> HIDE DEF t
  <2> QED BY <2>1, <2>2, <2>3
<1>4. Column(g, n, t)
  BY <1>2, <1>3 DEF Column
<1> HIDE DEF t
<1> QED BY <1>1, <1>2, <1>4, TotalIs

-----------------------------------------------------------------------------
(* The account of the stock.                                               *)

Accounted(i) == ~clobbered[i] => stock[i] = supplied[i] - Gone(i)

LEMMA TakenTyped ==
    ASSUME Typed, NEW i \in Items
    PROVE  /\ Len(orders) \in Nat /\ DOMAIN orders = 1 .. Len(orders)
           /\ \A o \in 1 .. Len(orders) : /\ orders[o].lines[i] \in Int
                                          /\ orders[o].restocked \in Int
                                          /\ Taken(i)[o] \in Int
<1>1. orders \in Seq(OrderRow)
  BY DEF Typed, TypeOK
<1>2. Len(orders) \in Nat /\ DOMAIN orders = 1 .. Len(orders)
  BY <1>1
<1>3. ASSUME NEW o \in 1 .. Len(orders)
      PROVE  orders[o].lines[i] \in Int /\ orders[o].restocked \in Int
  <2>1. orders[o] \in OrderRow
    BY <1>1, <1>2
  <2>2. orders[o].lines \in [Items -> 0 .. MaxQuantity] /\ orders[o].restocked \in Nat
    BY <2>1 DEF OrderRow, Lines
  <2> QED BY <2>2, StockAssumption
<1>4. ASSUME NEW o \in 1 .. Len(orders) PROVE Taken(i)[o] \in Int
  <2> DEFINE a == orders[o].lines[i]
             b == orders[o].restocked
  <2>1. a \in Int /\ b \in Int
    BY <1>3
  <2>2. Taken(i)[o] = a * (1 - b)
    BY <1>2 DEF Taken
  <2> HIDE DEF a, b
  <2> QED BY <2>1, <2>2
<1> QED BY <1>2, <1>3, <1>4

\* A step that writes no order changes the account of an item only by its own stock.
LEMMA GoneKept == ASSUME UNCHANGED orders, NEW i PROVE Gone(i)' = Gone(i)
BY DEF Gone, Taken

LEMMA StockUntouched ==
    ASSUME UNCHANGED <<stock, orders, supplied, clobbered>>, NEW i \in Items, Accounted(i)
    PROVE  Accounted(i)'
BY GoneKept DEF Accounted

\* What is put on the shelf is put down as supplied.
LEMMA PutAccounted ==
    ASSUME Typed, NEW j \in Items, NEW quantity \in Int, Put(j, quantity), UNCHANGED orders,
           NEW i \in Items, Accounted(i)
    PROVE  Accounted(i)'
<1>1. stock' = [stock EXCEPT ![j] = quantity] /\ clobbered' = clobbered
  BY DEF Put
<1>2. supplied' = [supplied EXCEPT ![j] = IF clobbered'[j] THEN 0 ELSE @ + (quantity - stock[j])]
  BY DEF Put, Supply
<1>3. Gone(i)' = Gone(i) /\ Gone(i) \in Int
  BY GoneKept, TakenTyped, TotalSame DEF Gone
<1> QED BY <1>1, <1>2, <1>3 DEF Accounted, Typed, TypeOK

LEMMA AdjustmentAccounted ==
    ASSUME Typed, NEW r \in Requests, CommitAdjustment(r), NEW i \in Items, Accounted(i)
    PROVE  Accounted(i)'
<1>1. PICK j \in req[r].item :
         /\ stock' = [stock EXCEPT ![j] = req[r].next]
         /\ clobbered' = [clobbered EXCEPT ![j] = @ \/ stock[j] # req[r].seen]
         /\ Supply(j, req[r].next - req[r].seen)
  BY DEF CommitAdjustment
<1>2. j \in Items /\ req[r].next \in Int /\ req[r].seen \in Int /\ UNCHANGED orders
  BY DEF CommitAdjustment, Typed, TypeOK, RequestState
<1>3. supplied' = [supplied EXCEPT ![j] = IF clobbered'[j] THEN 0
                                          ELSE @ + (req[r].next - req[r].seen)]
  BY <1>1 DEF Supply
<1>4. Gone(i)' = Gone(i) /\ Gone(i) \in Int
  BY <1>2, GoneKept, TakenTyped, TotalSame DEF Gone
<1>5. /\ stock[i] \in Int /\ supplied[i] \in Int
      /\ i # j => /\ clobbered'[i] = clobbered[i] /\ stock'[i] = stock[i]
                  /\ supplied'[i] = supplied[i]
      /\ i = j /\ ~clobbered'[i] => /\ ~clobbered[i] /\ stock[i] = req[r].seen
                                    /\ stock'[i] = req[r].next
                                    /\ supplied'[i] = supplied[i] + (req[r].next - req[r].seen)
  BY <1>1, <1>2, <1>3 DEF Typed, TypeOK
<1> QED BY <1>2, <1>4, <1>5 DEF Accounted

\* A new order takes its lines and puts them down as gone.
LEMMA OrderAccounted ==
    ASSUME Typed, Typed', NEW r \in Requests, CommitOrder(r), NEW i \in Items, Accounted(i)
    PROVE  Accounted(i)'
<1> DEFINE n == Len(orders)
           lines == req[r].lines
<1>1. /\ orders' = Append(orders, [lines |-> lines, status |-> "PENDING",
                                   restocked |-> 0, reopened |-> 0])
      /\ stock' = [k \in Items |-> stock[k] - lines[k]] /\ UNCHANGED <<supplied, clobbered>>
  BY DEF CommitOrder
<1>2. /\ n \in Nat /\ DOMAIN orders = 1 .. n /\ DOMAIN orders' = 1 .. n + 1 /\ Len(orders') = n + 1
      /\ \A o \in 1 .. n : orders'[o] = orders[o] /\ Taken(i)[o] \in Int
  BY <1>1, TakenTyped DEF Typed, TypeOK
<1>3. orders'[n + 1].lines = lines /\ orders'[n + 1].restocked = 0
  BY <1>1 DEF Typed, TypeOK
<1>4. lines[i] \in Int
  BY OrderPlaced, StockAssumption DEF Lines
<1>5. Taken(i)'[n + 1] = lines[i]
  <2>1. Taken(i)'[n + 1] = lines[i] * (1 - 0)
    BY <1>2, <1>3 DEF Taken
  <2> QED BY <1>4, <2>1
<1>6. \A o \in 1 .. n : Taken(i)'[o] = Taken(i)[o]
  BY <1>2 DEF Taken
<1>7. Gone(i)' = Gone(i) + lines[i] /\ Gone(i) \in Int
  <2> DEFINE f == Taken(i)
             g == Taken(i)'
  <2>1. n \in Nat /\ g[n + 1] \in Int /\ g[n + 1] = lines[i]
        /\ \A k \in 1 .. n : f[k] \in Int /\ g[k] = f[k]
    BY <1>2, <1>4, <1>5, <1>6
  <2>2. Gone(i) = Total(f, n) /\ Gone(i)' = Total(g, n + 1)
    BY <1>2 DEF Gone
  <2> HIDE DEF f, g, n, lines
  <2>3. Total(g, n + 1) = Total(f, n) + g[n + 1]
    BY <2>1, TotalAppended
  <2>4. Total(f, n) \in Int
    BY <2>1, TotalSame
  <2> QED BY <2>1, <2>2, <2>3, <2>4
<1>8. stock[i] \in Int /\ supplied[i] \in Int /\ stock'[i] = stock[i] - lines[i]
  BY <1>1 DEF Typed, TypeOK
<1> HIDE DEF lines
<1> QED BY <1>1, <1>4, <1>7, <1>8 DEF Accounted

\* A cancellation that gives back puts its lines on the shelf and takes them off what is gone.
LEMMA StatusAccounted ==
    ASSUME Typed, Typed', NEW r \in Requests, CommitStatus(r), NEW i \in Items, Accounted(i)
    PROVE  Accounted(i)'
<1> DEFINE q == req[r]
           n == Len(orders)
           a == orders[q.order].lines[i]
           b == orders[q.order].restocked
           b1 == orders'[q.order].restocked
<1>1. /\ q.order \in DOMAIN orders /\ DOMAIN orders' = DOMAIN orders
      /\ \A k \in DOMAIN orders \ {q.order} : orders'[k] = orders[k]
      /\ b1 = b + (IF q.restock THEN 1 ELSE 0) /\ orders[q.order] \in OrderRow
  BY StatusSet
<1>2. orders'[q.order].lines[i] = a
  BY <1>1 DEF CommitStatus, OrderRow
<1>3. /\ n \in Nat /\ DOMAIN orders = 1 .. n /\ Len(orders') = n
      /\ \A o \in 1 .. n : Taken(i)[o] \in Int
      /\ a \in Int /\ b \in Int
  <2>1. Len(orders') \in Nat /\ DOMAIN orders' = 1 .. Len(orders')
    BY DEF Typed, TypeOK
  <2> QED BY <1>1, <2>1, TakenTyped
<1>4. Taken(i)[q.order] = a * (1 - b) /\ Taken(i)'[q.order] = a * (1 - b1)
  BY <1>1, <1>2 DEF Taken
<1>5. \A o \in 1 .. n : o # q.order => Taken(i)'[o] = Taken(i)[o]
  BY <1>1, <1>3 DEF Taken
<1>6. Taken(i)'[q.order] \in Int
      /\ Taken(i)'[q.order] - Taken(i)[q.order] = (IF q.restock THEN 0 - a ELSE 0)
  <2>1. \A x, y \in Int : /\ x * (1 - y) \in Int
                          /\ x * (1 - (y + 1)) = x * (1 - y) - x
    OBVIOUS
  <2>2. b1 \in Int
    BY <1>1, <1>3
  <2> HIDE DEF a, b, b1
  <2>3. a * (1 - b) \in Int /\ a * (1 - b1) \in Int
    BY <1>3, <2>1, <2>2
  <2>4. CASE q.restock
    BY <1>1, <1>3, <1>4, <2>1, <2>3, <2>4
  <2>5. CASE ~q.restock
    BY <1>1, <1>3, <1>4, <2>3, <2>5
  <2> QED BY <1>4, <2>3, <2>4, <2>5
<1>7. Gone(i)' = Gone(i) + (IF q.restock THEN 0 - a ELSE 0) /\ Gone(i) \in Int
  <2> DEFINE f == Taken(i)
             g == Taken(i)'
  <2>1. Gone(i) = Total(f, n) /\ Gone(i)' = Total(g, n)
    BY <1>3 DEF Gone
  <2> HIDE DEF f, g, n, a
  <2>2. n \in Nat /\ q.order \in 1 .. n /\ g[q.order] \in Int
        /\ \A m \in 1 .. n : f[m] \in Int /\ (m # q.order => g[m] = f[m])
    BY <1>1, <1>3, <1>5, <1>6 DEF f, g
  <2>3. Total(g, n) = Total(f, n) + (g[q.order] - f[q.order])
    BY <2>2, TotalChanged
  <2>4. Total(f, n) \in Int
    BY <2>2, TotalSame
  <2> QED BY <1>6, <2>1, <2>3, <2>4 DEF f, g
<1>8. /\ stock[i] \in Int /\ supplied[i] \in Int
      /\ stock'[i] = stock[i] + (IF q.restock THEN a ELSE 0) /\ UNCHANGED <<supplied, clobbered>>
  BY DEF CommitStatus, Pieces, Typed, TypeOK
<1> HIDE DEF a, q
<1> QED BY <1>3, <1>7, <1>8 DEF Accounted

LEMMA ServeAccounted ==
    ASSUME Typed, Typed', NEW r \in Requests, Serve(r), NEW i \in Items, Accounted(i)
    PROVE  Accounted(i)'
<1>1. ASSUME NEW j \in Items, NEW quantity \in Levels, NEW to,
             CreateItem(r, j, quantity, to) \/ UpdateItem(r, j, quantity, to)
      PROVE  Accounted(i)'
  <2>1. quantity \in Int /\ Put(j, quantity) /\ UNCHANGED orders
    BY <1>1, StockAssumption DEF CreateItem, UpdateItem
  <2> QED BY <2>1, PutAccounted
<1>2. ASSUME NEW j, RemoveItem(r, j) PROVE Accounted(i)'
  BY <1>2, StockUntouched DEF RemoveItem
<1>3. ASSUME NEW j, NEW delta, ReadForAdjustment(r, j, delta) PROVE Accounted(i)'
  BY <1>3, StockUntouched DEF ReadForAdjustment, Tables
<1>4. ASSUME NEW lines, CheckOrder(r, lines) PROVE Accounted(i)'
  BY <1>4, StockUntouched DEF CheckOrder, Tables
<1>5. ASSUME NEW o, NEW status, ReadOrder(r, o, status) PROVE Accounted(i)'
  BY <1>5, StockUntouched DEF ReadOrder, Tables
<1>6. CASE Abandon(r)
  BY <1>6, StockUntouched DEF Abandon, Tables
<1> QED BY <1>1, <1>2, <1>3, <1>4, <1>5, <1>6, AdjustmentAccounted, OrderAccounted,
           StatusAccounted DEF Serve

\* However many orders, cancellations and corrections overlap, and however long the list of
\* orders, the stock of an item is what was supplied less what its orders hold, except where
\* adjustStock overwrote a change it had not read.
THEOREM StockAccountedFor == Spec => []StockAccounted
<1>1. Init => StockAccounted
  <2>1. ASSUME Init, NEW i \in Items PROVE Accounted(i)
    <3>1. stock[i] = 0 /\ supplied[i] = 0 /\ Len(orders) = 0
      BY <2>1 DEF Init
    <3>2. Gone(i) = 0
      BY <3>1, TotalZero DEF Gone
    <3> QED BY <3>1, <3>2 DEF Accounted
  <2> QED BY <2>1 DEF StockAccounted, Accounted
<1>2. Typed /\ Typed' /\ StockAccounted /\ [Next]_vars => StockAccounted'
  <2>1. ASSUME Typed, Typed', StockAccounted, [Next]_vars, NEW i \in Items PROVE Accounted(i)'
    <3>1. Accounted(i)
      BY <2>1 DEF StockAccounted, Accounted
    <3>2. CASE UNCHANGED vars
      BY <3>1, <3>2, StockUntouched DEF vars
    <3>3. CASE Next
      BY <2>1, <3>1, <3>3, ServeAccounted DEF Next
    <3> QED BY <2>1, <3>2, <3>3
  <2>2. (\A i \in Items : Accounted(i)') => StockAccounted'
    BY DEF StockAccounted, Accounted
  <2> QED BY <2>1, <2>2
<1> QED BY InitTyped, StepTyped, <1>1, <1>2, PTL DEF Spec
=============================================================================
