--------------------------- MODULE StorefrontProofs ---------------------------
(***************************************************************************)
(* Proofs about what the shop shows and takes orders for: the categories   *)
(* and products, a product's pictures, the prices, the promotions, the     *)
(* cart page, the carts with the order placed from them, the customer's    *)
(* addresses, and the transport of the calls; for any customers, pages,    *)
(* products, editors, clerks, coupons, limits, operators, shoppers, forms, *)
(* and number of requests and calls that overlap.                          *)
(***************************************************************************)
EXTENDS Checkout, Transport, CartPage, Campaigns, Catalogue, Pricing, Addresses,
        SumLemmas

----------------------------------------------------------------------------
(* The carts.                                                              *)

CartLine == [Products -> 0..LineCap]
CartReqs ==
    [step : {"idle", "adding", "mergeRead", "merging"}, owner : Owners \cup {"none"},
     guest : Owners \cup {"none"}, lines : CartLine, seen : CartLine, touched : BOOLEAN]

(* An addition has the cart to itself as far as additions go, ...          *)
Adds(r) == cartReq[r].step = "adding"

AdditionsFit ==
    /\ \A r \in CartRequests : Adds(r) =>
        /\ cartReq[r].owner \in Owners
        /\ \A p \in Products : cartReq[r].seen[p] + cartReq[r].lines[p] <= LineCap
    /\ \A r, s \in CartRequests :
        Adds(r) /\ Adds(s) /\ cartReq[r].owner = cartReq[s].owner => r = s

(* ... and, unless something else wrote the cart, knows what it holds.     *)
Informed(r) ==
    \A p \in Products : cartReq[r].lines[p] = 0
        \/ cartReq[r].seen[p] = cart[cartReq[r].owner][p]

AdditionsKnow ==
    \A r \in CartRequests : Adds(r) /\ ~cartReq[r].touched => Informed(r)

(* A merge, unless something else wrote one of its carts, knows both.      *)
MergesKnow ==
    \A r \in CartRequests : cartReq[r].step \in Merging =>
        /\ cartReq[r].owner \in Accounts /\ cartReq[r].guest \in Guests
        /\ ~cartReq[r].touched =>
            /\ cartReq[r].lines = cart[cartReq[r].guest]
            /\ cartReq[r].step = "merging" => cartReq[r].seen = cart[cartReq[r].owner]

CartInv ==
    /\ cart \in [Owners -> CartLine]
    /\ cartReq \in [CartRequests -> CartReqs]
    /\ AdditionsFit /\ AdditionsKnow /\ MergesKnow

(* Touch marks requests, and changes nothing else of them.                 *)
LEMMA TouchFact ==
    ASSUME NEW reqs \in [CartRequests -> CartReqs], NEW o, NEW steps
    PROVE  /\ Touch(reqs, o, steps) \in [CartRequests -> CartReqs]
           /\ \A r \in CartRequests :
                /\ Touch(reqs, o, steps)[r].step = reqs[r].step
                /\ Touch(reqs, o, steps)[r].owner = reqs[r].owner
                /\ Touch(reqs, o, steps)[r].guest = reqs[r].guest
                /\ Touch(reqs, o, steps)[r].lines = reqs[r].lines
                /\ Touch(reqs, o, steps)[r].seen = reqs[r].seen
                /\ reqs[r].touched => Touch(reqs, o, steps)[r].touched
                /\ reqs[r].step \in steps /\ o \in {reqs[r].owner, reqs[r].guest} =>
                        Touch(reqs, o, steps)[r].touched
  <1>1. ASSUME NEW r \in CartRequests
        PROVE  /\ Touch(reqs, o, steps)[r] \in CartReqs
               /\ Touch(reqs, o, steps)[r].step = reqs[r].step
               /\ Touch(reqs, o, steps)[r].owner = reqs[r].owner
               /\ Touch(reqs, o, steps)[r].guest = reqs[r].guest
               /\ Touch(reqs, o, steps)[r].lines = reqs[r].lines
               /\ Touch(reqs, o, steps)[r].seen = reqs[r].seen
               /\ reqs[r].touched => Touch(reqs, o, steps)[r].touched
               /\ reqs[r].step \in steps /\ o \in {reqs[r].owner, reqs[r].guest} =>
                       Touch(reqs, o, steps)[r].touched
    <2> DEFINE q == reqs[r]
               marked == [q EXCEPT !.touched = TRUE]
    <2>1. q \in CartReqs
      OBVIOUS
    <2>2. /\ marked \in CartReqs /\ marked.step = q.step /\ marked.owner = q.owner
          /\ marked.guest = q.guest /\ marked.lines = q.lines /\ marked.seen = q.seen
          /\ marked.touched
      BY <2>1 DEF CartReqs
    <2>3. Touch(reqs, o, steps)[r] = IF q.step \in steps /\ o \in {q.owner, q.guest} THEN marked ELSE q
      BY DEF Touch
    <2> HIDE DEF marked
    <2>4. CASE q.step \in steps /\ o \in {q.owner, q.guest}
      BY <2>2, <2>3, <2>4
    <2>5. CASE ~(q.step \in steps /\ o \in {q.owner, q.guest})
      BY <2>1, <2>3, <2>5
    <2> QED BY <2>4, <2>5
  <1>2. Touch(reqs, o, steps) = [r \in CartRequests |-> Touch(reqs, o, steps)[r]]
    BY DEF Touch
  <1>3. Touch(reqs, o, steps) \in [CartRequests -> CartReqs]
    BY <1>1, <1>2
  <1> QED BY <1>1, <1>3

LEMMA CartInitInv == CartInit => CartInv
  <1> SUFFICES ASSUME CartInit PROVE CartInv
    OBVIOUS
  <1> USE CartAssumption
  <1>1. NoLines \in CartLine
    BY DEF NoLines, CartLine
  <1>2. IdleCartReq \in CartReqs /\ IdleCartReq.step = "idle"
    BY <1>1 DEF IdleCartReq, CartReqs
  <1> QED BY <1>1, <1>2 DEF CartInit, CartInv, AdditionsFit, AdditionsKnow, Adds, MergesKnow, Merging

(* A request that is no addition and no merge writes one cart.             *)
LEMMA WritingKeeps ==
    ASSUME CartInv, NEW o \in Owners, NEW lines \in CartLine,
           cart' = [cart EXCEPT ![o] = lines], cartReq' = Touch(cartReq, o, Waiting)
    PROVE  CartInv'
  <1>1. /\ cart' \in [Owners -> CartLine] /\ cartReq' \in [CartRequests -> CartReqs]
        /\ \A u \in Owners \ {o} : cart'[u] = cart[u]
    BY TouchFact DEF CartInv
  <1>2. \A r \in CartRequests :
            /\ cartReq'[r].step = cartReq[r].step /\ cartReq'[r].owner = cartReq[r].owner
            /\ cartReq'[r].guest = cartReq[r].guest
            /\ cartReq'[r].lines = cartReq[r].lines /\ cartReq'[r].seen = cartReq[r].seen
            /\ cartReq[r].touched => cartReq'[r].touched
            /\ cartReq[r].step \in Waiting /\ o \in {cartReq[r].owner, cartReq[r].guest} =>
                    cartReq'[r].touched
    BY TouchFact DEF CartInv
  <1>3. AdditionsFit'
    BY <1>2 DEF CartInv, AdditionsFit, Adds
  <1>5. AdditionsKnow'
    <2> SUFFICES ASSUME NEW r \in CartRequests, Adds(r)', ~cartReq'[r].touched PROVE Informed(r)'
      BY DEF AdditionsKnow
    <2>1. Adds(r) /\ ~cartReq[r].touched /\ cartReq[r].owner # o
      BY <1>2, Zenon DEF Adds, Waiting
    <2>2. Informed(r) /\ cartReq[r].owner \in Owners
      BY <2>1 DEF CartInv, AdditionsKnow, AdditionsFit
    <2> QED BY <1>1, <1>2, <2>1, <2>2 DEF Informed
  <1>4. MergesKnow'
    BY <1>1, <1>2 DEF CartInv, MergesKnow, Waiting, Merging, Owners
  <1> QED BY <1>1, <1>3, <1>4, <1>5 DEF CartInv

(* An addition reads.                                                      *)
LEMMA AddLockKeeps ==
    ASSUME CartInv, NEW r \in CartRequests, NEW o \in Owners, NEW p \in Products,
           NEW qty \in 1..LineCap, AddLock(r, o, p, qty)
    PROVE  CartInv'
  <1> USE CartAssumption
  <1> DEFINE new == [IdleCartReq EXCEPT !.step = "adding", !.owner = o,
                                        !.seen[p] = cart[o][p], !.lines[p] = qty]
  <1>1. /\ cart' = cart /\ cartReq' = [cartReq EXCEPT ![r] = new]
        /\ cart[o][p] \in 0..LineCap /\ cart[o][p] + qty <= LineCap
    BY DEF AddLock, CartInv, CartLine
  <1>2. /\ new.step = "adding" /\ new.owner = o /\ new.touched = FALSE
        /\ new.seen = [NoLines EXCEPT ![p] = cart[o][p]]
        /\ new.lines = [NoLines EXCEPT ![p] = qty]
    BY DEF IdleCartReq
  <1>3. new \in CartReqs
    <2>1. NoLines \in CartLine
      BY DEF NoLines, CartLine
    <2>2. \A n \in 0..LineCap : [NoLines EXCEPT ![p] = n] \in CartLine
      BY <2>1 DEF CartLine
    <2>3. cart[o][p] \in 0..LineCap /\ qty \in 0..LineCap
      BY <1>1
    <2>4. new.seen \in CartLine /\ new.lines \in CartLine
      BY <1>2, <2>2, <2>3, Zenon
    <2> QED BY <1>2, <2>1, <2>4 DEF CartReqs, IdleCartReq, Owners
  <1>4. \A q \in Products : /\ new.seen[q] + new.lines[q] <= LineCap
                            /\ new.lines[q] = 0 \/ new.seen[q] = cart[o][q]
    <2>1. NoLines = [q \in Products |-> 0]
      BY DEF NoLines
    <2>2. \A q \in Products : /\ new.seen[q] = IF q = p THEN cart[o][p] ELSE 0
                              /\ new.lines[q] = IF q = p THEN qty ELSE 0
      BY <1>2, <2>1
    <2> HIDE DEF new
    <2> QED BY <1>1, <2>2
  <1>5. /\ cartReq'[r] = new /\ cartReq' \in [CartRequests -> CartReqs]
        /\ \A s \in CartRequests \ {r} : cartReq'[s] = cartReq[s]
    BY <1>1, <1>3 DEF CartInv
  <1>6. \A s \in CartRequests : cartReq[s].step = "adding" => cartReq[s].owner # o
    BY DEF AddLock, Adding
  <1> HIDE DEF new
  <1>7. AdditionsFit'
    <2>1. ASSUME NEW s \in CartRequests, Adds(s)'
          PROVE  /\ cartReq'[s].owner \in Owners
                 /\ \A q \in Products : cartReq'[s].seen[q] + cartReq'[s].lines[q] <= LineCap
      <3>1. CASE s = r
        BY <1>2, <1>4, <1>5, <3>1
      <3>2. CASE s # r
        BY <1>5, <2>1, <3>2 DEF CartInv, AdditionsFit, Adds
      <3> QED BY <3>1, <3>2
    <2>2. ASSUME NEW s \in CartRequests, NEW t \in CartRequests, Adds(s)', Adds(t)',
                 cartReq'[s].owner = cartReq'[t].owner
          PROVE  s = t
      BY <1>2, <1>5, <1>6, <2>2 DEF CartInv, AdditionsFit, Adds
    <2> QED BY <2>1, <2>2 DEF AdditionsFit
  <1>9. AdditionsKnow'
    <2> SUFFICES ASSUME NEW s \in CartRequests, Adds(s)', ~cartReq'[s].touched PROVE Informed(s)'
      BY DEF AdditionsKnow
    <2>1. CASE s = r
      BY <1>1, <1>2, <1>4, <1>5, <2>1 DEF Informed
    <2>2. CASE s # r
      <3>1. cartReq'[s] = cartReq[s]
        BY <1>5, <2>2
      <3>2. Informed(s)
        BY <3>1 DEF CartInv, AdditionsKnow, Adds
      <3> QED BY <1>1, <3>1, <3>2 DEF Informed
    <2> QED BY <2>1, <2>2
  <1>8. MergesKnow'
    BY <1>1, <1>2, <1>5 DEF CartInv, MergesKnow, Merging
  <1> QED BY <1>1, <1>5, <1>7, <1>8, <1>9 DEF CartInv

(* An addition writes: those of other carts are not disturbed, and the     *)
(* merges of this one are marked.                                          *)
LEMMA AddWriteKeeps ==
    ASSUME CartInv, NEW r \in CartRequests, AddWrite(r)
    PROVE  CartInv'
  <1> USE CartAssumption
  <1> DEFINE o == cartReq[r].owner
             new == [p \in Products |-> IF cartReq[r].lines[p] = 0 THEN cart[o][p]
                                        ELSE cartReq[r].seen[p] + cartReq[r].lines[p]]
             marked == Touch(cartReq, o, Merging)
  <1>1. o \in Owners
    BY DEF AddWrite, CartInv, AdditionsFit, Adds
  <1>2. new \in CartLine
    BY <1>1 DEF AddWrite, CartInv, AdditionsFit, Adds, CartLine, CartReqs
  <1>3. cart' = [cart EXCEPT ![o] = new] /\ cartReq' = [marked EXCEPT ![r] = IdleCartReq]
    BY <1>1 DEF AddWrite, CartInv
  <1> HIDE DEF new
  <1>4. /\ cart' \in [Owners -> CartLine]
        /\ \A u \in Owners \ {o} : cart'[u] = cart[u]
    BY <1>1, <1>2, <1>3 DEF CartInv
  <1>5. marked \in [CartRequests -> CartReqs]
    BY TouchFact DEF CartInv
  <1>6. IdleCartReq \in CartReqs /\ IdleCartReq.step = "idle"
    BY DEF IdleCartReq, CartReqs, CartLine, NoLines
  <1>7. \A s \in CartRequests \ {r} :
            /\ cartReq'[s].step = cartReq[s].step /\ cartReq'[s].owner = cartReq[s].owner
            /\ cartReq'[s].guest = cartReq[s].guest
            /\ cartReq'[s].lines = cartReq[s].lines /\ cartReq'[s].seen = cartReq[s].seen
            /\ cartReq[s].touched => cartReq'[s].touched
            /\ cartReq[s].step \in Merging /\ o \in {cartReq[s].owner, cartReq[s].guest} =>
                    cartReq'[s].touched
    BY <1>3, <1>5, TouchFact DEF CartInv
  <1>8. cartReq' \in [CartRequests -> CartReqs] /\ cartReq'[r].step = "idle"
    BY <1>3, <1>5, <1>6
  <1>9. \A s \in CartRequests \ {r} : cartReq[s].step = "adding" => cartReq[s].owner # o
    BY DEF AddWrite, CartInv, AdditionsFit, Adds
  <1> HIDE DEF o, marked
  <1>10. AdditionsFit'
    BY <1>7, <1>8 DEF CartInv, AdditionsFit, Adds
  <1>12. AdditionsKnow'
    <2> SUFFICES ASSUME NEW s \in CartRequests, Adds(s)', ~cartReq'[s].touched PROVE Informed(s)'
      BY DEF AdditionsKnow
    <2>1. s # r /\ Adds(s) /\ ~cartReq[s].touched /\ cartReq[s].owner # o
      BY <1>7, <1>8, <1>9 DEF Adds
    <2>2. Informed(s) /\ cartReq[s].owner \in Owners
      BY <2>1 DEF CartInv, AdditionsKnow, AdditionsFit
    <2> QED BY <1>4, <1>7, <2>1, <2>2 DEF Informed
  <1>11. MergesKnow'
    BY <1>1, <1>4, <1>7, <1>8 DEF CartInv, MergesKnow, Merging, Owners
  <1> QED BY <1>4, <1>8, <1>10, <1>11, <1>12 DEF CartInv

LEMMA MergeReadKeeps ==
    ASSUME CartInv, NEW r \in CartRequests, NEW u \in Accounts, NEW g \in Guests,
           MergeRead(r, u, g)
    PROVE  CartInv'
  <1> USE CartAssumption
  <1> DEFINE new == [IdleCartReq EXCEPT !.step = "mergeRead", !.owner = u, !.guest = g,
                                        !.lines = cart[g]]
  <1>1. cart' = cart /\ cartReq' = [cartReq EXCEPT ![r] = new]
    BY DEF MergeRead
  <1>2. new.step = "mergeRead" /\ new.owner = u /\ new.guest = g /\ new.lines = cart[g]
    BY DEF IdleCartReq
  <1>3. new \in CartReqs
    <2>1. NoLines \in CartLine /\ cart[g] \in CartLine
      BY DEF NoLines, CartLine, CartInv, Owners
    <2> QED BY <1>2, <2>1 DEF IdleCartReq, CartReqs, Owners
  <1>4. /\ cartReq'[r] = new /\ cartReq' \in [CartRequests -> CartReqs]
        /\ \A s \in CartRequests \ {r} : cartReq'[s] = cartReq[s]
    BY <1>1, <1>3 DEF CartInv
  <1> HIDE DEF new
  <1>5. AdditionsFit' /\ AdditionsKnow'
    BY <1>1, <1>2, <1>4 DEF CartInv, AdditionsFit, AdditionsKnow, Informed, Adds
  <1> QED BY <1>1, <1>2, <1>4, <1>5 DEF CartInv, MergesKnow, Merging

LEMMA MergeExistingKeeps ==
    ASSUME CartInv, NEW r \in CartRequests, MergeExisting(r)
    PROVE  CartInv'
  <1> DEFINE new == [cartReq[r] EXCEPT !.step = "merging", !.seen = cart[cartReq[r].owner]]
  <1>1. cart' = cart /\ cartReq' = [cartReq EXCEPT ![r] = new]
    BY DEF MergeExisting, CartInv, CartReqs
  <1>2. /\ new.step = "merging" /\ new.owner = cartReq[r].owner /\ new.guest = cartReq[r].guest
        /\ new.lines = cartReq[r].lines /\ new.seen = cart[cartReq[r].owner]
        /\ new.touched = cartReq[r].touched
    BY DEF CartInv, CartReqs
  <1>3. cartReq[r].owner \in Accounts /\ cartReq[r].guest \in Guests
    BY DEF MergeExisting, CartInv, MergesKnow, Merging
  <1>4. new \in CartReqs
    BY <1>3 DEF CartReqs, CartInv, Owners
  <1>5. /\ cartReq'[r] = new /\ cartReq' \in [CartRequests -> CartReqs]
        /\ \A s \in CartRequests \ {r} : cartReq'[s] = cartReq[s]
    BY <1>1, <1>4 DEF CartInv
  <1> HIDE DEF new
  <1> QED BY <1>1, <1>2, <1>3, <1>5 DEF MergeExisting, CartInv, AdditionsFit, AdditionsKnow, Informed, Adds, MergesKnow, Merging

(* A merge writes both carts, or refuses, and marks every other request    *)
(* that waits on one of them.                                              *)
LEMMA MergeWriteKeeps ==
    ASSUME CartInv, NEW r \in CartRequests, MergeWrite(r)
    PROVE  CartInv'
  <1> USE CartAssumption
  <1> DEFINE u == cartReq[r].owner
             g == cartReq[r].guest
             once == Touch(cartReq, u, Waiting)
             twice == Touch(once, g, Waiting)
  <1>1. u \in Accounts /\ g \in Guests /\ u \in Owners /\ g \in Owners
    BY DEF MergeWrite, CartInv, MergesKnow, Merging, Owners
  <1>2. /\ cart' \in [Owners -> CartLine]
        /\ \A o \in Owners \ {u, g} : cart'[o] = cart[o]
    <2> DEFINE merged == [p \in Products |->
                            IF cartReq[r].lines[p] = 0 THEN cart[u][p]
                            ELSE Capped(cartReq[r].seen[p] + cartReq[r].lines[p])]
    <2>1. merged \in CartLine /\ NoLines \in CartLine
      BY <1>1 DEF CartInv, CartReqs, CartLine, Capped, NoLines
    <2>2. cart' = cart \/ cart' = [cart EXCEPT ![u] = merged, ![g] = NoLines]
      BY DEF MergeWrite
    <2> HIDE DEF merged, u, g
    <2> QED BY <1>1, <2>1, <2>2 DEF CartInv
  <1>3. cartReq' = [twice EXCEPT ![r] = IdleCartReq]
    BY DEF MergeWrite
  <1>4. once \in [CartRequests -> CartReqs] /\ twice \in [CartRequests -> CartReqs]
    BY TouchFact DEF CartInv
  <1>5. IdleCartReq \in CartReqs /\ IdleCartReq.step = "idle"
    BY DEF IdleCartReq, CartReqs, CartLine, NoLines
  <1>6. \A s \in CartRequests :
            /\ twice[s].step = cartReq[s].step /\ twice[s].owner = cartReq[s].owner
            /\ twice[s].guest = cartReq[s].guest
            /\ twice[s].lines = cartReq[s].lines /\ twice[s].seen = cartReq[s].seen
            /\ cartReq[s].touched => twice[s].touched
            /\ cartReq[s].step \in Waiting /\ {u, g} \cap {cartReq[s].owner, cartReq[s].guest} # {} =>
                    twice[s].touched
    <2>1. \A s \in CartRequests :
            /\ once[s].step = cartReq[s].step /\ once[s].owner = cartReq[s].owner
            /\ once[s].guest = cartReq[s].guest
            /\ once[s].lines = cartReq[s].lines /\ once[s].seen = cartReq[s].seen
            /\ cartReq[s].touched => once[s].touched
            /\ cartReq[s].step \in Waiting /\ u \in {cartReq[s].owner, cartReq[s].guest} =>
                    once[s].touched
      BY TouchFact DEF CartInv
    <2> HIDE DEF once
    <2>2. \A s \in CartRequests :
            /\ twice[s].step = once[s].step /\ twice[s].owner = once[s].owner
            /\ twice[s].guest = once[s].guest
            /\ twice[s].lines = once[s].lines /\ twice[s].seen = once[s].seen
            /\ once[s].touched => twice[s].touched
            /\ once[s].step \in Waiting /\ g \in {once[s].owner, once[s].guest} =>
                    twice[s].touched
      BY <1>4, TouchFact
    <2> HIDE DEF twice
    <2> QED BY <2>1, <2>2
  <1> HIDE DEF once, twice, u, g
  <1>7. cartReq' \in [CartRequests -> CartReqs] /\ cartReq'[r].step = "idle"
        /\ \A s \in CartRequests \ {r} : cartReq'[s] = twice[s]
    BY <1>3, <1>4, <1>5
  <1>8. AdditionsFit'
    BY <1>6, <1>7 DEF CartInv, AdditionsFit, Adds
  <1>9. AdditionsKnow'
    <2> SUFFICES ASSUME NEW s \in CartRequests, Adds(s)', ~cartReq'[s].touched PROVE Informed(s)'
      BY DEF AdditionsKnow
    <2>0. s # r
      BY <1>7 DEF Adds
    <2>3. cartReq'[s] = twice[s]
      BY <1>7, <2>0
    <2>4. cartReq[s].step = cartReq'[s].step /\ cartReq[s].owner = cartReq'[s].owner
      BY <1>6, <2>3
    <2>5. Adds(s) /\ cartReq[s].step \in Waiting
      BY <2>4 DEF Adds, Waiting
    <2>6. ~cartReq[s].touched /\ cartReq[s].owner \notin {u, g}
      BY <1>6, <2>3, <2>5
    <2>1. s # r /\ Adds(s) /\ ~cartReq[s].touched /\ cartReq[s].owner \notin {u, g}
      BY <2>0, <2>5, <2>6
    <2>2. Informed(s) /\ cartReq[s].owner \in Owners
      BY <2>1 DEF CartInv, AdditionsKnow, AdditionsFit
    <2> QED BY <1>2, <1>6, <1>7, <2>1, <2>2 DEF Informed
  <1>10. MergesKnow'
    <2> SUFFICES ASSUME NEW s \in CartRequests, cartReq'[s].step \in Merging
                 PROVE  /\ cartReq'[s].owner \in Accounts /\ cartReq'[s].guest \in Guests
                        /\ ~cartReq'[s].touched =>
                            /\ cartReq'[s].lines = cart'[cartReq'[s].guest]
                            /\ cartReq'[s].step = "merging" => cartReq'[s].seen = cart'[cartReq'[s].owner]
      BY DEF MergesKnow
    <2>1. s # r /\ cartReq[s].step \in Merging /\ cartReq'[s] = twice[s]
      BY <1>6, <1>7 DEF Merging
    <2>2. /\ cartReq[s].owner \in Accounts /\ cartReq[s].guest \in Guests
          /\ ~cartReq[s].touched =>
                /\ cartReq[s].lines = cart[cartReq[s].guest]
                /\ cartReq[s].step = "merging" => cartReq[s].seen = cart[cartReq[s].owner]
      BY <2>1 DEF CartInv, MergesKnow
    <2>3. ~twice[s].touched => /\ ~cartReq[s].touched
                               /\ cartReq[s].owner \notin {u, g} /\ cartReq[s].guest \notin {u, g}
      BY <1>6, <2>1 DEF Waiting
    <2> QED BY <1>2, <1>6, <2>1, <2>2, <2>3 DEF Owners
  <1> QED BY <1>2, <1>7, <1>8, <1>9, <1>10 DEF CartInv

LEMMA CartStepInv == CartInv /\ CartStep => CartInv'
  <1> SUFFICES ASSUME CartInv, CartStep PROVE CartInv'
    OBVIOUS
  <1> USE CartAssumption
  <1>1. ASSUME NEW r \in CartRequests, NEW o \in Owners, NEW p \in Products,
               NEW qty \in 1..LineCap, AddLock(r, o, p, qty)
        PROVE  CartInv'
    BY <1>1, AddLockKeeps
  <1>2. ASSUME NEW r \in CartRequests, AddWrite(r) PROVE CartInv'
    BY <1>2, AddWriteKeeps
  <1>3. ASSUME NEW r \in CartRequests, NEW u \in Accounts, NEW g \in Guests, MergeRead(r, u, g)
        PROVE  CartInv'
    BY <1>3, MergeReadKeeps
  <1>4. ASSUME NEW r \in CartRequests, MergeExisting(r) PROVE CartInv'
    BY <1>4, MergeExistingKeeps
  <1>5. ASSUME NEW r \in CartRequests, MergeWrite(r) PROVE CartInv'
    BY <1>5, MergeWriteKeeps
  <1>6. ASSUME NEW o \in Owners, ClearCart(o) PROVE CartInv'
    <2>1. NoLines \in CartLine
      BY DEF NoLines, CartLine
    <2> QED BY <1>6, <2>1, WritingKeeps DEF ClearCart
  <1>7. ASSUME NEW o \in Owners, NEW p \in Products, NEW qty \in 0..LineCap,
               cart' = [cart EXCEPT ![o][p] = qty], cartReq' = Touch(cartReq, o, Waiting)
        PROVE  CartInv'
    <2> DEFINE lines == [cart[o] EXCEPT ![p] = qty]
    <2>1. lines \in CartLine /\ cart' = [cart EXCEPT ![o] = lines]
      BY <1>7 DEF CartInv, CartLine
    <2> HIDE DEF lines
    <2> QED BY <1>7, <2>1, WritingKeeps
  <1>8. ASSUME NEW o \in Owners, NEW p \in Products, RemoveItem(o, p) PROVE CartInv'
    BY <1>7, <1>8, 0 \in 0..LineCap DEF RemoveItem
  <1>9. ASSUME NEW o \in Owners, NEW p \in Products, NEW qty \in 0..LineCap,
               UpdateItemQuantity(o, p, qty)
        PROVE  CartInv'
    BY <1>7, <1>9 DEF UpdateItemQuantity
  <1> QED BY <1>1, <1>2, <1>3, <1>4, <1>5, <1>6, <1>8, <1>9 DEF CartStep

(* What the lines of one product are in all the carts when two change.     *)
LEMMA UnitsFact ==
    ASSUME CartInv, NEW p \in Products, NEW u \in Owners, NEW g \in Owners, u # g,
           cart' \in [Owners -> CartLine], \A o \in Owners \ {u, g} : cart'[o] = cart[o]
    PROVE  /\ UnitsInCarts(p) \in Int
           /\ UnitsInCarts(p)' = UnitsInCarts(p) - cart[u][p] + cart'[u][p] - cart[g][p] + cart'[g][p]
  <1> USE CartAssumption
  <1> DEFINE f == [o \in Owners |-> cart[o][p]]
             h == [o \in Owners |-> IF o = u THEN cart'[u][p] ELSE cart[o][p]]
             j == [o \in Owners |-> cart'[o][p]]
  <1>1. IsFiniteSet(Owners)
    BY FS_Union DEF Owners
  <1>2. \A o \in Owners : cart[o][p] \in Int /\ cart'[o][p] \in Int
    BY DEF CartInv, CartLine
  <1>3. \A o \in Owners : f[o] \in Int /\ h[o] \in Int /\ j[o] \in Int
    BY <1>2
  <1>4. /\ \A o \in Owners \ {u} : f[o] = h[o]
        /\ \A o \in Owners \ {g} : h[o] = j[o]
        /\ f[u] = cart[u][p] /\ h[u] = cart'[u][p] /\ h[g] = cart[g][p] /\ j[g] = cart'[g][p]
    OBVIOUS
  <1>5. UnitsInCarts(p) = SumFunctionOnSet(f, Owners) /\ UnitsInCarts(p)' = SumFunctionOnSet(j, Owners)
    BY DEF UnitsInCarts, SumFunction
  <1> HIDE DEF f, h, j
  <1>6. SumFunctionOnSet(h, Owners) = SumFunctionOnSet(f, Owners) - f[u] + h[u]
    <2>1. \A o \in Owners : f[o] \in Int /\ h[o] \in Int
      BY <1>3
    <2>2. \A o \in Owners \ {u} : f[o] = h[o]
      BY <1>4
    <2>3. u \in Owners
      OBVIOUS
    <2> QED BY ONLY <1>1, <2>1, <2>2, <2>3, SumChange
  <1>7. SumFunctionOnSet(j, Owners) = SumFunctionOnSet(h, Owners) - h[g] + j[g]
    <2>1. \A o \in Owners : h[o] \in Int /\ j[o] \in Int
      BY <1>3
    <2>2. \A o \in Owners \ {g} : h[o] = j[o]
      BY <1>4
    <2>3. g \in Owners
      OBVIOUS
    <2> QED BY ONLY <1>1, <2>1, <2>2, <2>3, SumChange
  <1>8. SumFunctionOnSet(f, Owners) \in Int
    BY <1>1, <1>3, SumIsInt
  <1> QED BY <1>2, <1>4, <1>5, <1>6, <1>7, <1>8

(* An addition that knows the line adds to it.                             *)
LEMMA AddWriteAdds ==
    ASSUME CartInv, NEW r \in CartRequests, ~cartReq[r].touched, AddWrite(r), NEW p \in Products
    PROVE  AddedUp(r, p)
  <1> DEFINE o == cartReq[r].owner
  <1>1. o \in Owners /\ Informed(r) /\ cart[o][p] \in Nat
    BY DEF AddWrite, CartInv, AdditionsFit, AdditionsKnow, Adds, CartLine
  <1>2. cart'[o][p] = IF cartReq[r].lines[p] = 0 THEN cart[o][p]
                      ELSE cartReq[r].seen[p] + cartReq[r].lines[p]
    BY <1>1 DEF AddWrite, CartInv
  <1> QED BY <1>1, <1>2 DEF AddedUp, Informed

(* A merge that knows both carts moves the lines over.                     *)
LEMMA MergeWriteMoves ==
    ASSUME CartInv, CartInv', NEW r \in CartRequests, ~cartReq[r].touched, MergeWrite(r),
           NEW p \in Products
    PROVE  MovedOver(r, p)
  <1> DEFINE u == cartReq[r].owner
             g == cartReq[r].guest
             merged == [q \in Products |->
                          IF cartReq[r].lines[q] = 0 THEN cart[u][q]
                          ELSE Capped(cartReq[r].seen[q] + cartReq[r].lines[q])]
  <1>1. /\ u \in Owners /\ g \in Owners /\ u # g
        /\ cartReq[r].lines = cart[g] /\ cartReq[r].seen = cart[u]
    BY CartAssumption DEF MergeWrite, CartInv, MergesKnow, Merging, Owners
  <1>2. cart[u][p] \in 0..LineCap /\ cart[g][p] \in 0..LineCap
    BY <1>1 DEF CartInv, CartLine
  <1>3. CASE cart' = cart
    BY <1>3 DEF MovedOver, UnitsInCarts
  <1>4. CASE cart' = [cart EXCEPT ![u] = merged, ![g] = NoLines]
    <2>1. /\ cart'[u] = merged /\ cart'[g] = NoLines
          /\ \A o \in Owners \ {u, g} : cart'[o] = cart[o]
      <3> HIDE DEF merged, u, g
      <3> QED BY <1>1, <1>4 DEF CartInv
    <2>2. cart'[g][p] = 0 /\ cart'[u][p] = IF cart[g][p] = 0 THEN cart[u][p]
                                           ELSE Capped(cart[u][p] + cart[g][p])
      BY <1>1, <2>1 DEF NoLines
    <2> HIDE DEF merged, u, g
    <2>3. /\ UnitsInCarts(p) \in Int
          /\ UnitsInCarts(p)' = UnitsInCarts(p) - cart[u][p] + cart'[u][p] - cart[g][p] + cart'[g][p]
      BY <1>1, <2>1, UnitsFact DEF CartInv
    <2>4. \/ UnitsInCarts(p)' = UnitsInCarts(p)
          \/ UnitsInCarts(p)' < UnitsInCarts(p) /\ cart'[u][p] = LineCap
      BY CartAssumption, <1>2, <2>2, <2>3 DEF Capped
    <2> QED BY <2>4 DEF MovedOver, u
  <1> QED BY <1>3, <1>4 DEF MergeWrite

AddsUpAt(r) ==
    cartReq'[r].step = "idle" /\ ~cartReq[r].touched =>
        \A p \in Products : /\ cartReq[r].step = "adding" => AddedUp(r, p)
                            /\ cartReq[r].step = "merging" => MovedOver(r, p)

LEMMA CartStepAddsUp ==
    ASSUME CartInv, CartInv', CartStep, NEW s \in CartRequests
    PROVE  AddsUpAt(s)
  <1>1. ASSUME NEW r \in CartRequests, AddWrite(r), s = r PROVE AddsUpAt(s)
    BY <1>1, AddWriteAdds DEF AddsUpAt, AddWrite
  <1>2. ASSUME NEW r \in CartRequests, MergeWrite(r), s = r PROVE AddsUpAt(s)
    BY <1>2, MergeWriteMoves DEF AddsUpAt, MergeWrite
  <1>3. ASSUME cartReq'[s].step = cartReq[s].step \/ cartReq'[s].step # "idle" \/ cartReq[s].step = "idle"
        PROVE  AddsUpAt(s)
    BY <1>3 DEF AddsUpAt
  <1>4. ASSUME NEW o, cartReq' = Touch(cartReq, o, Waiting) PROVE AddsUpAt(s)
    BY <1>3, <1>4, TouchFact DEF CartInv
  <1>5. ASSUME NEW r \in CartRequests, AddWrite(r), s # r PROVE AddsUpAt(s)
    <2>1. cartReq'[s] = Touch(cartReq, cartReq[r].owner, Merging)[s]
      BY <1>5, TouchFact DEF AddWrite, CartInv
    <2> QED BY <1>3, <2>1, TouchFact DEF CartInv
  <1>6. ASSUME NEW r \in CartRequests, MergeWrite(r), s # r PROVE AddsUpAt(s)
    <2> DEFINE once == Touch(cartReq, cartReq[r].owner, Waiting)
    <2>1. once \in [CartRequests -> CartReqs] /\ once[s].step = cartReq[s].step
      BY TouchFact DEF CartInv
    <2>2. /\ Touch(once, cartReq[r].guest, Waiting) \in [CartRequests -> CartReqs]
          /\ Touch(once, cartReq[r].guest, Waiting)[s].step = once[s].step
      <3> HIDE DEF once
      <3> QED BY <2>1, TouchFact
    <2>3. cartReq'[s] = Touch(once, cartReq[r].guest, Waiting)[s]
      BY <1>6, <2>2 DEF MergeWrite
    <2> QED BY <1>3, <2>1, <2>2, <2>3
  <1>7. ASSUME NEW r \in CartRequests, NEW o \in Owners, NEW p \in Products,
               NEW qty \in 1..LineCap, AddLock(r, o, p, qty)
        PROVE  AddsUpAt(s)
    BY <1>3, <1>7 DEF AddLock, CartInv
  <1>8. ASSUME NEW r \in CartRequests, NEW u \in Accounts, NEW g \in Guests, MergeRead(r, u, g)
        PROVE  AddsUpAt(s)
    BY <1>3, <1>8 DEF MergeRead, CartInv
  <1>9. ASSUME NEW r \in CartRequests, MergeExisting(r) PROVE AddsUpAt(s)
    BY <1>3, <1>9 DEF MergeExisting, CartInv, CartReqs
  <1> QED BY <1>1, <1>2, <1>4, <1>5, <1>6, <1>7, <1>8, <1>9
          DEF CartStep, ClearCart, RemoveItem, UpdateItemQuantity

----------------------------------------------------------------------------
(* Coupon and stock.                                                       *)

LimitRecords == [maxUses : Nat, perUserLimit : Nat]
OrderRecords ==
    [status : {"NONE", "PENDING_PAYMENT", "CONFIRMED", "FAILED"}, lines : [Products -> Nat],
     discounted : BOOLEAN]
RequestRecords ==
    [step : {"idle", "sent", "probed", "priced", "recording", "created", "replayed", "refused"},
     page : Pages \cup {"none"}, lines : [Products -> Nat], limits : LimitRecords]

ShopTypes ==
    /\ CouponTypeOK
    /\ shelf \in [Products -> Nat]
    /\ order \in [Pages -> OrderRecords]
    /\ creq \in [Requests -> RequestRecords]
    /\ \A r \in Requests : creq[r].step # "idle" => creq[r].page \in Pages

Within(limits) == limits.maxUses <= ceiling.maxUses /\ limits.perUserLimit <= ceiling.perUserLimit

(* The limits in force, and those a checkout has read, are none that were  *)
(* never set; and a page that has used the coupon has its order.           *)
LimitsKnown ==
    /\ Within(coupon)
    /\ \A r \in Requests : creq[r].step = "recording" => Within(creq[r].limits)
    /\ \A k \in usages : Placed(k)

ShopInv == CartInv /\ ShopTypes /\ LimitsKnown /\ CouponWithinLimits /\ StockReservedOnce

LEMMA ShopInitInv == CheckoutInit => ShopInv
  <1> SUFFICES ASSUME CheckoutInit PROVE ShopInv
    OBVIOUS
  <1> USE CheckoutAssumption, CouponAssumption
  <1>1. CartInv
    BY CartInitInv DEF CheckoutInit
  <1>2. ShopTypes
    <2>1. NoLines \in [Products -> Nat] /\ NoLimits \in LimitRecords
      BY DEF NoLines, NoLimits, LimitRecords
    <2>2. CouponTypeOK
      BY DEF CheckoutInit, CouponInit, CouponTypeOK, CouponRows
    <2> QED BY <2>1, <2>2 DEF CheckoutInit, ShopTypes, NoOrder, IdleReq, OrderRecords, RequestRecords
  <1>3. LimitsKnown
    BY DEF CheckoutInit, CouponInit, LimitsKnown, Within, IdleReq
  <1>4. CouponWithinLimits
    <2>1. usages = {} /\ \A u \in Customers : UsagesOf(u) = {}
      BY DEF CheckoutInit, CouponInit, UsagesOf
    <2>2. coupon.usedCount = 0 /\ ceiling.maxUses >= 0 /\ ceiling.perUserLimit >= 0
      BY DEF CheckoutInit, CouponInit
    <2> QED BY <2>1, <2>2, FS_EmptySet DEF CouponWithinLimits
  <1>5. StockReservedOnce
    <2>1. Live = {}
      BY DEF Live, CheckoutInit, NoOrder
    <2> QED BY <2>1, SumEmpty DEF StockReservedOnce, CheckoutInit
  <1> QED BY <1>1, <1>2, <1>3, <1>4, <1>5 DEF ShopInv

LEMMA CartsStand == CartInv /\ UNCHANGED cartVars => CartInv'
  BY DEF CartInv, AdditionsFit, AdditionsKnow, Informed, Adds, MergesKnow, cartVars

(* The promotions desk.                                                    *)
LEMMA DeskKeeps ==
    ASSUME ShopInv, DeskStep, UNCHANGED <<cartVars, shelf, checkoutVars>>
    PROVE  ShopInv'
  <1> USE CouponAssumption
  <1>1. CartInv' /\ StockReservedOnce'
    BY CartsStand DEF ShopInv, StockReservedOnce, Live, checkoutVars
  <1>2. CouponTypeOK /\ coupon \in CouponRows /\ ceiling \in LimitRecords
    BY DEF ShopInv, ShopTypes, CouponTypeOK, LimitRecords
  <1>3. ASSUME CouponTypeOK', LimitsKnown', CouponWithinLimits' PROVE ShopInv'
    <2>1. ShopTypes'
      BY <1>3 DEF ShopInv, ShopTypes, checkoutVars
    <2> QED BY <1>1, <1>3, <2>1 DEF ShopInv
  <1>4. ASSUME NEW max \in Limits, NEW per \in UserLimits, NEW a \in BOOLEAN,
               UpdateCoupon(max, per, a)
        PROVE  ShopInv'
    <2>1. /\ max \in Nat /\ per \in Nat
          /\ coupon' = [coupon EXCEPT !.maxUses = max, !.perUserLimit = per, !.isActive = a]
          /\ ceiling' = [maxUses |-> Raised(ceiling.maxUses, max),
                         perUserLimit |-> Raised(ceiling.perUserLimit, per)]
          /\ usages' = usages /\ deletion' = deletion
      BY <1>4 DEF UpdateCoupon
    <2>2. /\ Raised(ceiling.maxUses, max) \in Nat /\ Raised(ceiling.perUserLimit, per) \in Nat
          /\ Raised(ceiling.maxUses, max) >= ceiling.maxUses /\ Raised(ceiling.maxUses, max) >= max
          /\ Raised(ceiling.perUserLimit, per) >= ceiling.perUserLimit
          /\ Raised(ceiling.perUserLimit, per) >= per
      BY <1>2, <2>1 DEF Raised, LimitRecords
    <2>3. CouponTypeOK'
      BY <1>2, <2>1, <2>2 DEF CouponTypeOK, CouponRows
    <2>4. /\ coupon'.maxUses = max /\ coupon'.perUserLimit = per /\ coupon'.exists = coupon.exists
          /\ coupon'.usedCount = coupon.usedCount
      BY <1>2, <2>1 DEF CouponRows
    <2>5. ceiling'.maxUses >= ceiling.maxUses /\ ceiling'.perUserLimit >= ceiling.perUserLimit
          /\ ceiling'.maxUses \in Nat /\ ceiling'.perUserLimit \in Nat
          /\ ceiling'.maxUses >= max /\ ceiling'.perUserLimit >= per
      BY <2>1, <2>2
    <2>6. LimitsKnown'
      <3>1. \A r \in Requests : creq[r].limits.maxUses \in Nat /\ creq[r].limits.perUserLimit \in Nat
        BY DEF ShopInv, ShopTypes, RequestRecords, LimitRecords
      <3> QED BY <1>2, <2>1, <2>4, <2>5, <3>1
              DEF ShopInv, LimitsKnown, Within, Placed, checkoutVars, LimitRecords
    <2>7. CouponWithinLimits'
      <3>1. Cardinality(usages) \in Nat /\ \A u \in Customers : Cardinality(UsagesOf(u)) \in Nat
        BY <1>2, FS_Subset, FS_CardinalityType DEF CouponTypeOK, UsagesOf
      <3> QED BY <1>2, <2>1, <2>4, <2>5, <3>1
              DEF ShopInv, CouponWithinLimits, UsagesOf, LimitRecords
    <2> QED BY <1>3, <2>3, <2>6, <2>7
  <1>5. ASSUME NEW a \in BOOLEAN, ToggleCoupon(a) PROVE ShopInv'
    <2>1. CouponTypeOK'
      BY <1>2, <1>5 DEF ToggleCoupon, CouponTypeOK, CouponRows
    <2>2. /\ coupon'.maxUses = coupon.maxUses /\ coupon'.perUserLimit = coupon.perUserLimit
          /\ coupon'.exists = coupon.exists /\ coupon'.usedCount = coupon.usedCount
          /\ usages' = usages /\ ceiling' = ceiling
      BY <1>2, <1>5 DEF ToggleCoupon, CouponRows
    <2> QED BY <1>3, <2>1, <2>2
            DEF ShopInv, LimitsKnown, Within, Placed, checkoutVars, CouponWithinLimits, UsagesOf
  <1>6. ASSUME DeleteCouponRead PROVE ShopInv'
    <2>1. CouponTypeOK' /\ UNCHANGED <<coupon, usages, ceiling>>
      BY <1>2, <1>6 DEF DeleteCouponRead, CouponTypeOK
    <2> QED BY <1>3, <2>1
            DEF ShopInv, LimitsKnown, Within, Placed, checkoutVars, CouponWithinLimits, UsagesOf
  <1>7. ASSUME DeleteCouponWrite PROVE ShopInv'
    <2>1. CouponTypeOK'
      BY <1>2, <1>7 DEF DeleteCouponWrite, CouponTypeOK, CouponRows
    <2>2. /\ coupon'.maxUses = coupon.maxUses /\ coupon'.perUserLimit = coupon.perUserLimit
          /\ coupon'.exists => coupon.exists /\ usages' = usages
          /\ coupon'.usedCount = coupon.usedCount
          /\ usages' \in {usages, {}} /\ ceiling' = ceiling
      BY <1>2, <1>7 DEF DeleteCouponWrite, CouponRows
    <2>3. LimitsKnown'
      BY <2>2 DEF ShopInv, LimitsKnown, Within, Placed, checkoutVars
    <2>4. CouponWithinLimits'
      <3>1. CASE usages' = usages
        BY <2>2, <3>1 DEF ShopInv, CouponWithinLimits, UsagesOf
      <3>2. CASE usages' = {} /\ usages # {}
        <4>1. \A u \in Customers : UsagesOf(u)' = {}
          BY <3>2 DEF UsagesOf
        <4>2. ceiling.maxUses >= 0 /\ ceiling.perUserLimit >= 0
          BY <1>2 DEF LimitRecords
        <4> QED BY <2>2, <3>2, <4>1, <4>2, FS_EmptySet DEF CouponWithinLimits
      <3> QED BY <2>2, <3>1, <3>2
    <2> QED BY <1>3, <2>1, <2>3, <2>4
  <1> QED BY <1>4, <1>5, <1>6, <1>7 DEF DeskStep

(* Steps of pages and requests that leave coupon, stock and orders alone.  *)
LEMMA QuietKeeps ==
    ASSUME ShopInv, CartInv', UNCHANGED <<couponVars, shelf, order>>,
           creq' \in [Requests -> RequestRecords],
           \A r \in Requests : creq'[r].step # "idle" => creq'[r].page \in Pages,
           \A r \in Requests : creq'[r].step = "recording" =>
                \/ creq[r].step = "recording" /\ creq'[r].limits = creq[r].limits
                \/ Within(creq'[r].limits)
    PROVE  ShopInv'
  <1>1. ShopTypes'
    BY DEF ShopInv, ShopTypes, CouponTypeOK, couponVars
  <1>2. LimitsKnown'
    BY DEF ShopInv, LimitsKnown, Within, Placed, couponVars
  <1>3. CouponWithinLimits' /\ StockReservedOnce'
    BY DEF ShopInv, CouponWithinLimits, UsagesOf, couponVars, StockReservedOnce, Live
  <1> QED BY <1>1, <1>2, <1>3 DEF ShopInv

LEMMA PageKeeps ==
    ASSUME ShopInv, CartInv', UNCHANGED <<couponVars, shelf, order, creq>>
    PROVE  ShopInv'
  <1> QED BY QuietKeeps DEF ShopInv, ShopTypes

(* A request that goes on, with a new record.                              *)
LEMMA RequestKeeps ==
    ASSUME ShopInv, CartInv', UNCHANGED <<couponVars, shelf, order>>,
           NEW r \in Requests, NEW new \in RequestRecords, creq' = [creq EXCEPT ![r] = new],
           new.step # "idle" => new.page \in Pages,
           new.step = "recording" => Within(new.limits)
    PROVE  ShopInv'
  <1>1. /\ creq' \in [Requests -> RequestRecords] /\ creq'[r] = new
        /\ \A s \in Requests \ {r} : creq'[s] = creq[s]
    BY DEF ShopInv, ShopTypes
  <1> QED BY <1>1, QuietKeeps DEF ShopInv, ShopTypes

(* An order that is not created in this step.                              *)
LEMMA EndsKeeps ==
    ASSUME ShopInv, NEW r \in Requests, creq[r].step # "idle",
           NEW how \in {"probed", "created", "replayed", "refused"}, Ends(r, how)
    PROVE  ShopInv'
  <1> DEFINE new == [creq[r] EXCEPT !.step = how]
  <1>1. CartInv' /\ UNCHANGED <<couponVars, shelf, order>> /\ creq' = [creq EXCEPT ![r] = new]
    BY CartsStand DEF Ends, ShopInv, cartVars
  <1>2. creq[r] \in RequestRecords /\ creq[r].page \in Pages
    BY DEF ShopInv, ShopTypes
  <1>3. new \in RequestRecords /\ new.step = how /\ new.page = creq[r].page
    BY <1>2 DEF RequestRecords
  <1> HIDE DEF new
  <1> QED BY <1>1, <1>2, <1>3, RequestKeeps

LEMMA IdleReqFact ==
    /\ IdleReq \in RequestRecords /\ NoLines \in [Products -> Nat]
    /\ IdleReq.step = "idle" /\ IdleReq.lines = NoLines
  <1>1. NoLines \in [Products -> Nat] /\ NoLimits \in LimitRecords
    BY DEF NoLines, NoLimits, LimitRecords
  <1> QED BY <1>1 DEF IdleReq, RequestRecords

LEMMA SubmitKeeps ==
    ASSUME ShopInv, NEW r \in Requests, NEW k \in Pages, Submit(r, k)
    PROVE  ShopInv'
  <1> DEFINE new == [IdleReq EXCEPT !.step = "sent", !.page = k]
  <1>1. CartInv' /\ UNCHANGED <<couponVars, shelf, order>> /\ creq' = [creq EXCEPT ![r] = new]
    BY CartsStand DEF Submit, ShopInv, cartVars
  <1>2. new \in RequestRecords /\ new.step = "sent" /\ new.page = k
    BY IdleReqFact DEF RequestRecords
  <1> HIDE DEF new
  <1> QED BY <1>1, <1>2, RequestKeeps

LEMMA SucceedWrites ==
    ASSUME CartInv, NEW k \in Pages, Succeed(k)
    PROVE  CartInv'
  <1>1. NoLines \in CartLine /\ CartOf[k] \in Owners
    BY CheckoutAssumption, CartAssumption DEF NoLines, CartLine
  <1> QED BY <1>1, WritingKeeps DEF Succeed

LEMMA AnswerKeeps ==
    ASSUME ShopInv, NEW r \in Requests, Answer(r)
    PROVE  ShopInv'
  <1>1. creq[r].page \in Pages
    BY DEF Answer, ShopInv, ShopTypes
  <1>2. Succeed(creq[r].page) \/ UNCHANGED cartVars
    BY DEF Answer
  <1>3. CartInv'
    BY <1>1, <1>2, SucceedWrites, CartsStand DEF ShopInv
  <1>4. UNCHANGED <<couponVars, shelf, order>> /\ creq' = [creq EXCEPT ![r] = IdleReq]
    BY DEF Answer
  <1> QED BY <1>3, <1>4, IdleReqFact, RequestKeeps

LEMMA PriceKeeps ==
    ASSUME ShopInv, NEW r \in Requests, Price(r)
    PROVE  ShopInv'
  <1> DEFINE k == creq[r].page
  <1>1. /\ creq[r] \in RequestRecords /\ k \in Pages
        /\ CartInv' /\ UNCHANGED <<couponVars, shelf, order>>
    BY CartsStand DEF Price, ShopInv, ShopTypes, cartVars
  <1>2. LinesOf(k) \in [Products -> Nat]
    <2>1. CustomerOf[k] \in Owners
      BY <1>1, CheckoutAssumption, CouponAssumption DEF Owners
    <2> QED BY <1>1, <2>1, CheckoutAssumption, CartAssumption DEF LinesOf, ShopInv, CartInv, CartLine
  <1>3. PICK ok \in BOOLEAN : creq' = [creq EXCEPT ![r].step = IF ok THEN "priced" ELSE "refused",
                                                    ![r].lines = IF ok THEN LinesOf(k) ELSE NoLines]
    BY DEF Price
  <1> DEFINE new == [creq[r] EXCEPT !.step = IF ok THEN "priced" ELSE "refused",
                                    !.lines = IF ok THEN LinesOf(k) ELSE NoLines]
  <1>4. creq' = [creq EXCEPT ![r] = new]
    BY <1>3 DEF ShopInv, ShopTypes
  <1>5. new \in RequestRecords /\ new.step \in {"priced", "refused"} /\ new.page = k
    BY <1>1, <1>2, IdleReqFact DEF RequestRecords
  <1> HIDE DEF new, k
  <1> QED BY <1>1, <1>4, <1>5, RequestKeeps

LEMMA ReadCouponKeeps ==
    ASSUME ShopInv, NEW r \in Requests, ReadCoupon(r)
    PROVE  ShopInv'
  <1> DEFINE new == [creq[r] EXCEPT !.step = "recording", !.limits = LimitsRead]
  <1>1. /\ creq[r] \in RequestRecords /\ creq[r].page \in Pages /\ CartInv'
        /\ UNCHANGED <<couponVars, shelf, order>> /\ creq' = [creq EXCEPT ![r] = new]
    BY CartsStand DEF ReadCoupon, ShopInv, ShopTypes, cartVars
  <1>2. LimitsRead \in LimitRecords /\ Within(LimitsRead)
    BY DEF ShopInv, ShopTypes, CouponTypeOK, CouponRows, LimitsKnown, LimitsRead, LimitRecords, Within
  <1>3. new \in RequestRecords /\ new.step = "recording" /\ new.page = creq[r].page
        /\ new.limits = LimitsRead
    BY <1>1, <1>2 DEF RequestRecords
  <1> HIDE DEF new
  <1> QED BY <1>1, <1>2, <1>3, RequestKeeps

LEMMA PayKeeps ==
    ASSUME ShopInv, NEW k \in Pages, Pay(k)
    PROVE  ShopInv'
  <1>1. /\ CartInv' /\ UNCHANGED <<couponVars, shelf, creq>>
        /\ order' = [order EXCEPT ![k].status = "CONFIRMED"] /\ order[k].status = "PENDING_PAYMENT"
    BY SucceedWrites DEF Pay, ShopInv
  <1>2. /\ order' \in [Pages -> OrderRecords]
        /\ \A j \in Pages : order'[j].lines = order[j].lines /\ (Placed(j) => Placed(j)')
    BY <1>1 DEF ShopInv, ShopTypes, OrderRecords, Placed
  <1>3. Live' = Live
    BY <1>1 DEF Live, ShopInv, ShopTypes, OrderRecords
  <1>4. StockReservedOnce'
    <2>1. \A p \in Products : [j \in Pages |-> order'[j].lines[p]] = [j \in Pages |-> order[j].lines[p]]
      BY <1>2
    <2> QED BY <1>1, <1>3, <2>1 DEF ShopInv, StockReservedOnce
  <1>5. ShopTypes' /\ LimitsKnown' /\ CouponWithinLimits'
    BY <1>1, <1>2 DEF ShopInv, ShopTypes, CouponTypeOK, couponVars, LimitsKnown, Within,
                      CouponWithinLimits, UsagesOf
  <1> QED BY <1>1, <1>4, <1>5 DEF ShopInv

(* What a failed payment gives back is what its order had reserved.        *)
LEMMA FailPaymentKeeps ==
    ASSUME ShopInv, NEW k \in Pages, FailPayment(k)
    PROVE  ShopInv'
  <1>1. CartInv' /\ UNCHANGED <<couponVars, creq>>
    BY CartsStand DEF FailPayment, ShopInv, cartVars
  <1>2. CASE order[k].status # "PENDING_PAYMENT"
    BY <1>1, <1>2, PageKeeps DEF FailPayment
  <1>3. CASE order[k].status = "PENDING_PAYMENT"
    <2>1. /\ order' = [order EXCEPT ![k].status = "FAILED"]
          /\ shelf' = [p \in Products |-> shelf[p] + order[k].lines[p]]
      BY <1>3 DEF FailPayment
    <2>2. /\ order' \in [Pages -> OrderRecords]
          /\ \A j \in Pages : order'[j].lines = order[j].lines /\ (Placed(j) => Placed(j)')
      BY <2>1 DEF ShopInv, ShopTypes, OrderRecords, Placed
    <2>3. shelf' \in [Products -> Nat]
      BY <2>1 DEF ShopInv, ShopTypes, OrderRecords
    <2>4. k \in Live /\ Live' = Live \ {k} /\ IsFiniteSet(Live)
      BY <1>3, <2>1, FS_Subset, CouponAssumption DEF Live, ShopInv, ShopTypes, OrderRecords
    <2>5. ASSUME NEW p \in Products
          PROVE  shelf'[p] + SumFunctionOnSet([j \in Pages |-> order'[j].lines[p]], Live')
                    = InitialShelf[p]
      <3> DEFINE f == [j \in Pages |-> order[j].lines[p]]
      <3>1. [j \in Pages |-> order'[j].lines[p]] = f
        BY <2>2
      <3>2. f[k] = order[k].lines[p] /\ \A j \in Live : f[j] \in Int
        BY DEF ShopInv, ShopTypes, OrderRecords, Live
      <3>3. shelf[p] + SumFunctionOnSet(f, Live) = InitialShelf[p]
        BY DEF ShopInv, StockReservedOnce
      <3> HIDE DEF f
      <3>4. SumFunctionOnSet(f, Live) = f[k] + SumFunctionOnSet(f, Live \ {k})
        BY <2>4, <3>2, SumStep
      <3>5. SumFunctionOnSet(f, Live \ {k}) \in Int
        BY <2>4, <3>2, FS_Subset, SumIsInt
      <3>6. shelf'[p] = shelf[p] + f[k] /\ shelf[p] \in Int /\ f[k] \in Int
        BY <2>1, <2>4, <3>2 DEF ShopInv, ShopTypes
      <3> QED BY <2>4, <3>1, <3>3, <3>4, <3>5, <3>6
    <2>6. StockReservedOnce'
      BY <2>5 DEF StockReservedOnce
    <2>7. ShopTypes' /\ LimitsKnown' /\ CouponWithinLimits'
      BY <1>1, <2>2, <2>3 DEF ShopInv, ShopTypes, CouponTypeOK, couponVars, LimitsKnown, Within,
                              CouponWithinLimits, UsagesOf
    <2> QED BY <1>1, <2>6, <2>7 DEF ShopInv
  <1> QED BY <1>2, <1>3

(* Recording a use of the coupon, for a page that has not used it.         *)
LEMMA RecordKeeps ==
    ASSUME CouponTypeOK, CouponWithinLimits, Within(coupon), NEW k \in Pages, k \notin usages,
           NEW limits \in LimitRecords, Within(limits), RecordCouponUsage(k, limits)
    PROVE  CouponTypeOK' /\ CouponWithinLimits' /\ Within(coupon)' /\ usages' = usages \cup {k}
           /\ ceiling' = ceiling
  <1> USE CouponAssumption
  <1>1. /\ coupon.exists /\ coupon.usedCount < limits.maxUses
        /\ Cardinality(UsagesOf(CustomerOf[k])) < limits.perUserLimit
        /\ coupon' = [coupon EXCEPT !.usedCount = @ + 1] /\ usages' = usages \cup {k}
        /\ deletion' = deletion /\ ceiling' = ceiling
    BY DEF RecordCouponUsage, CanRecord
  <1>2. CouponTypeOK'
    BY <1>1 DEF CouponTypeOK, CouponRows
  <1>3. /\ coupon'.exists = coupon.exists /\ coupon'.usedCount = coupon.usedCount + 1
        /\ coupon'.maxUses = coupon.maxUses /\ coupon'.perUserLimit = coupon.perUserLimit
        /\ coupon.usedCount \in Nat
    BY <1>1 DEF CouponTypeOK, CouponRows
  <1>4. \A S \in SUBSET Pages : IsFiniteSet(S) /\ Cardinality(S) \in Nat
    BY FS_Subset, FS_CardinalityType
  <1>5. Cardinality(usages') = Cardinality(usages) + 1
    BY <1>1, <1>4, FS_AddElement DEF CouponTypeOK
  <1>6. ASSUME NEW u \in Customers PROVE Cardinality(UsagesOf(u)') <= ceiling.perUserLimit
    <2>1. CASE u = CustomerOf[k]
      <3>1. UsagesOf(u)' = UsagesOf(u) \cup {k} /\ k \notin UsagesOf(u) /\ UsagesOf(u) \in SUBSET Pages
        BY <1>1, <2>1 DEF UsagesOf, CouponTypeOK
      <3>2. Cardinality(UsagesOf(u)') = Cardinality(UsagesOf(u)) + 1
        BY <1>4, <3>1, FS_AddElement
      <3> QED BY <1>1, <1>4, <2>1, <3>1, <3>2 DEF Within, LimitRecords, CouponTypeOK
    <2>2. CASE u # CustomerOf[k]
      <3>1. UsagesOf(u)' = UsagesOf(u)
        BY <1>1, <2>2 DEF UsagesOf
      <3> QED BY <3>1 DEF CouponWithinLimits
    <2> QED BY <2>1, <2>2
  <1>7. CouponWithinLimits'
    <2>1. coupon'.usedCount = Cardinality(usages')
      BY <1>1, <1>3, <1>5 DEF CouponWithinLimits
    <2>2. Cardinality(usages') <= ceiling'.maxUses
      BY <1>1, <1>3, <2>1 DEF Within, LimitRecords, CouponTypeOK
    <2> QED BY <1>1, <1>6, <2>1, <2>2 DEF CouponWithinLimits
  <1> QED BY <1>1, <1>2, <1>3, <1>7 DEF Within

(* What a created order reserves leaves the shelf.                         *)
LEMMA CommitKeeps ==
    ASSUME ShopInv, NEW r \in Requests, Commit(r)
    PROVE  ShopInv'
  <1> DEFINE k == creq[r].page
             lines == creq[r].lines
             new == [status |-> IF k \in CashPages THEN "CONFIRMED" ELSE "PENDING_PAYMENT",
                     lines |-> lines, discounted |-> k \in CouponPages]
  <1> USE CouponAssumption
  <1>1. /\ creq[r] \in RequestRecords /\ k \in Pages /\ lines \in [Products -> Nat]
        /\ creq[r].limits \in LimitRecords
    BY DEF Commit, InTransaction, ShopInv, ShopTypes, RequestRecords
  <1>2. /\ ~Placed(k) /\ \A p \in Products : lines[p] <= shelf[p]
        /\ shelf' = [p \in Products |-> shelf[p] - lines[p]]
        /\ order' = [order EXCEPT ![k] = new]
        /\ creq' = [creq EXCEPT ![r].step = "created"]
    BY DEF Commit, InStock
  <1>3. new \in OrderRecords /\ new.status \in {"PENDING_PAYMENT", "CONFIRMED"} /\ new.lines = lines
    BY <1>1 DEF OrderRecords
  <1>4. CartInv'
    <2> DEFINE u == CustomerOf[k]
               left == [p \in Products |-> IF lines[p] > 0 THEN 0 ELSE cart[u][p]]
    <2>1. u \in Owners
      BY <1>1, CheckoutAssumption DEF Owners
    <2>2. left \in CartLine
      BY <2>1, CartAssumption DEF ShopInv, CartInv, CartLine
    <2>3. cart' = [cart EXCEPT ![u] = left] /\ cartReq' = Touch(cartReq, u, Waiting)
      BY <2>1 DEF Commit, EmptyCart, ShopInv, CartInv
    <2> HIDE DEF left
    <2> QED BY <2>1, <2>2, <2>3, WritingKeeps DEF ShopInv
  <1>5. /\ CouponTypeOK' /\ CouponWithinLimits' /\ Within(coupon)'
        /\ usages' \subseteq usages \cup {k} /\ ceiling' = ceiling
    <2>1. CASE k \in CouponPages
      <3>1. creq[r].step = "recording" /\ RecordCouponUsage(k, creq[r].limits)
        BY <2>1 DEF Commit, InTransaction
      <3>2. k \notin usages /\ Within(creq[r].limits) /\ Within(coupon)
        BY <1>2, <3>1 DEF ShopInv, LimitsKnown
      <3> QED BY <1>1, <3>1, <3>2, RecordKeeps DEF ShopInv, ShopTypes
    <2>2. CASE k \notin CouponPages
      <3>1. UNCHANGED couponVars
        BY <2>2 DEF Commit
      <3> QED BY <3>1 DEF couponVars, ShopInv, ShopTypes, CouponTypeOK, CouponWithinLimits,
                          UsagesOf, LimitsKnown, Within
    <2> QED BY <2>1, <2>2
  <1> HIDE DEF new, k, lines
  <1>6. /\ order' \in [Pages -> OrderRecords] /\ order'[k] = new
        /\ \A j \in Pages \ {k} : order'[j] = order[j]
    BY <1>1, <1>2, <1>3 DEF ShopInv, ShopTypes
  <1>7. /\ creq' \in [Requests -> RequestRecords] /\ creq'[r].step = "created" /\ creq'[r].page = k
        /\ \A s \in Requests \ {r} : creq'[s] = creq[s]
    BY <1>1, <1>2 DEF ShopInv, ShopTypes, RequestRecords, k
  <1>8. shelf' \in [Products -> Nat]
    BY <1>1, <1>2 DEF ShopInv, ShopTypes
  <1>9. ShopTypes'
    BY <1>1, <1>5, <1>6, <1>7, <1>8 DEF ShopInv, ShopTypes
  <1>10. LimitsKnown'
    <2>1. \A j \in Pages : Placed(j) \/ j = k => Placed(j)'
      BY <1>3, <1>6 DEF Placed
    <2>2. \A s \in Requests : creq'[s].step = "recording" => Within(creq[s].limits)'
      BY <1>5, <1>7 DEF ShopInv, LimitsKnown, Within
    <2>3. usages \subseteq Pages /\ \A j \in usages : Placed(j)
      BY DEF ShopInv, ShopTypes, CouponTypeOK, LimitsKnown
    <2>4. \A j \in usages' : Placed(j)'
      BY <1>1, <1>5, <2>1, <2>3
    <2> QED BY <1>5, <2>2, <2>4 DEF LimitsKnown
  <1>11. k \notin Live /\ Live' = Live \cup {k} /\ IsFiniteSet(Live')
    <2>1. k \notin Live /\ Live' = Live \cup {k}
      BY <1>1, <1>2, <1>3, <1>6 DEF Live, Placed
    <2>2. Live' \in SUBSET Pages
      BY DEF Live
    <2> QED BY <2>1, <2>2, FS_Subset
  <1>12. ASSUME NEW p \in Products
         PROVE  shelf'[p] + SumFunctionOnSet([j \in Pages |-> order'[j].lines[p]], Live')
                    = InitialShelf[p]
    <2> DEFINE f == [j \in Pages |-> order[j].lines[p]]
               g == [j \in Pages |-> order'[j].lines[p]]
    <2>1. \A j \in Live : f[j] = g[j]
      BY <1>6, <1>11 DEF Live
    <2>2. \A j \in Live' : g[j] \in Int
      BY <1>6 DEF Live, OrderRecords
    <2>3. g[k] = lines[p] /\ k \in Live'
      BY <1>1, <1>3, <1>6, <1>11
    <2>4. shelf[p] + SumFunctionOnSet(f, Live) = InitialShelf[p]
      BY DEF ShopInv, StockReservedOnce
    <2> HIDE DEF f, g
    <2>5. SumFunctionOnSet(g, Live') = g[k] + SumFunctionOnSet(g, Live' \ {k})
      BY <1>11, <2>2, <2>3, SumStep
    <2>6. Live' \ {k} = Live /\ IsFiniteSet(Live)
      BY <1>11, FS_Subset
    <2>7. SumFunctionOnSet(f, Live) = SumFunctionOnSet(g, Live)
      BY <2>1, <2>6, SumSame
    <2>8. SumFunctionOnSet(g, Live) \in Int
      BY <1>11, <2>2, <2>6, SumIsInt
    <2>9. shelf'[p] = shelf[p] - lines[p] /\ shelf[p] \in Int /\ lines[p] \in Int
      BY <1>1, <1>2 DEF ShopInv, ShopTypes
    <2>10. shelf'[p] + SumFunctionOnSet(g, Live') = InitialShelf[p]
      <3>1. SumFunctionOnSet(g, Live') = lines[p] + SumFunctionOnSet(g, Live)
        BY <2>3, <2>5, <2>6
      <3>2. shelf[p] + SumFunctionOnSet(g, Live) = InitialShelf[p]
        BY <2>4, <2>7
      <3> QED BY <2>8, <2>9, <3>1, <3>2
    <2> QED BY <2>10 DEF g
  <1>13. StockReservedOnce'
    BY <1>12 DEF StockReservedOnce
  <1> QED BY <1>4, <1>5, <1>9, <1>10, <1>13 DEF ShopInv

LEMMA CheckoutStepInv == ShopInv /\ CheckoutStep => ShopInv'
  <1> SUFFICES ASSUME ShopInv, CheckoutStep PROVE ShopInv'
    OBVIOUS
  <1>1. ASSUME NEW k \in Pages, LoseAnswer(k) \/ PaymentFails(k) \/ FailPaymentLost(k)
        PROVE  ShopInv'
    <2>1. UNCHANGED <<couponVars, cartVars, shelf, order, creq>>
      BY <1>1 DEF LoseAnswer, PaymentFails, FailPaymentLost
    <2> QED BY <2>1, PageKeeps, CartsStand DEF ShopInv
  <1>2. ASSUME NEW r \in Requests, Probe(r) \/ Collide(r) \/ Refuse(r) PROVE ShopInv'
    BY <1>2, EndsKeeps DEF Probe, Collide, Refuse, InTransaction
  <1> QED BY <1>1, <1>2, SubmitKeeps, PayKeeps, FailPaymentKeeps, AnswerKeeps, PriceKeeps,
             ReadCouponKeeps, CommitKeeps
          DEF CheckoutStep

LEMMA ShopStepInv == ShopInv /\ [ShopStep]_shopVars => ShopInv'
  <1> SUFFICES ASSUME ShopInv, [ShopStep]_shopVars PROVE ShopInv'
    OBVIOUS
  <1>1. ASSUME CartStep, UNCHANGED <<couponVars, checkoutVars>> PROVE ShopInv'
    <2>1. UNCHANGED shelf
      <3>1. ASSUME NEW r \in CartRequests, NEW o \in Owners, NEW p \in Products, NEW n \in 1..LineCap,
                   AddLock(r, o, p, n) PROVE UNCHANGED shelf
        BY <3>1 DEF AddLock
      <3>2. ASSUME NEW r \in CartRequests, AddWrite(r) \/ MergeExisting(r) \/ MergeWrite(r)
            PROVE  UNCHANGED shelf
        BY <3>2 DEF AddWrite, MergeExisting, MergeWrite
      <3>3. ASSUME NEW r \in CartRequests, NEW u \in Accounts, NEW g \in Guests, MergeRead(r, u, g)
            PROVE  UNCHANGED shelf
        BY <3>3 DEF MergeRead
      <3>4. CASE \E r \in CartRequests :
                    \/ \E o \in Owners, p \in Products, qty \in 1..LineCap : AddLock(r, o, p, qty)
                    \/ AddWrite(r)
                    \/ \E u \in Accounts, g \in Guests : MergeRead(r, u, g)
                    \/ MergeExisting(r)
                    \/ MergeWrite(r)
        BY <3>1, <3>2, <3>3, <3>4
      <3>5. CASE \E o \in Owners :
                    \/ ClearCart(o)
                    \/ \E p \in Products :
                          RemoveItem(o, p) \/ \E qty \in 0..LineCap : UpdateItemQuantity(o, p, qty)
        <4>1. CASE \E o \in Owners : ClearCart(o)
          BY <4>1 DEF ClearCart
        <4>2. CASE \E o \in Owners, p \in Products : RemoveItem(o, p)
          BY <4>2 DEF RemoveItem
        <4>3. CASE \E o \in Owners, p \in Products, qty \in 0..LineCap : UpdateItemQuantity(o, p, qty)
          BY <4>3 DEF UpdateItemQuantity
        <4> QED BY <3>5, <4>1, <4>2, <4>3
      <3> QED BY <1>1, <3>4, <3>5 DEF CartStep
    <2> QED BY <1>1, <2>1, CartStepInv, PageKeeps DEF ShopInv, checkoutVars
  <1>2. ASSUME UNCHANGED shopVars PROVE ShopInv'
    BY <1>2, PageKeeps, CartsStand DEF shopVars, checkoutVars, ShopInv
  <1> QED BY <1>1, <1>2, DeskKeeps, CheckoutStepInv DEF ShopStep

(* However checkouts, pages that submit again, cart requests and the desk  *)
(* overlap, the coupon is used within the limits that were ever set and    *)
(* stock is reserved once for every order that lives.                      *)
THEOREM OrdersReserveOnce == CheckoutSpec => []CheckoutHolds
  <1>1. ShopInv => CheckoutHolds
    BY DEF ShopInv, CheckoutHolds
  <1> QED BY <1>1, ShopInitInv, ShopStepInv, PTL DEF CheckoutSpec

(* Additions add and merges move, next to everything else a shop does.     *)
THEOREM CartsKeepTheirUnits == CheckoutSpec => CartsAddUp
  <1>1. ASSUME ShopInv, ShopInv', [ShopStep]_shopVars
        PROVE  [\A r \in CartRequests : AddsUpAt(r)]_cartVars
    <2>1. CASE CartStep
      BY <1>1, <2>1, CartStepAddsUp DEF ShopInv
    <2>2. ASSUME NEW o, cartReq' = Touch(cartReq, o, Waiting) PROVE \A r \in CartRequests : AddsUpAt(r)
      BY <1>1, <2>2, TouchFact DEF ShopInv, CartInv, AddsUpAt
    <2>3. CASE CheckoutStep
      BY <2>2, <2>3 DEF CheckoutStep, Submit, LoseAnswer, Pay, PaymentFails, FailPayment,
            FailPaymentLost, Answer, Probe, Price, ReadCoupon, Commit, Collide, Refuse, Ends,
            Succeed, EmptyCart
    <2>4. CASE UNCHANGED cartVars
      BY <2>4
    <2> QED BY <1>1, <2>1, <2>3, <2>4 DEF ShopStep, shopVars
  <1>2. ShopInv /\ ShopInv' /\ [ShopStep]_shopVars
            => [\A r \in CartRequests : AddsUpAt(r)]_cartVars
    BY <1>1
  <1> QED BY <1>2, ShopInitInv, ShopStepInv, PTL DEF CheckoutSpec, CartsAddUp, AddsUpAt

----------------------------------------------------------------------------
(* The calls of the console.                                               *)

CallSteps == {"refreshing", "sent", "served", "refused", "joined", "late", "answered", "failed"}
Whose == Operators \cup {Nobody}
Made == [step : CallSteps, get : BOOLEAN, leader : ConsoleCalls \cup {NoReading}, early : BOOLEAN,
         retried : BOOLEAN, by : Whose, as : Whose, made : Nat, sent : Nat, at : Nat, of : Int, lost : BOOLEAN]

TransportTypeOK ==
    /\ writings \in Nat /\ newest \in Nat /\ era \in Nat /\ issued \in 0..MaxToken
    /\ bearer \in [number : 0..MaxToken, owner : Whose, lapsed : BOOLEAN]
    /\ request \in [ConsoleCalls -> {Unmade} \cup Made]
    /\ inflightGets \in [0..MaxToken -> ConsoleCalls \cup {NoReading}]
    /\ carriedOut \in [ConsoleCalls -> Nat]

LiveSteps == {"refreshing", "sent", "served", "refused"}
UnderWay(c) == request[c].step \in LiveSteps

(* A token has an owner, and is one that was issued.                       *)
TokenIsOwned == bearer.number <= issued /\ (bearer.number = 0 <=> bearer.owner = Nobody)

(* A writing was carried out by an answered call, or by one that is being  *)
(* answered or was lost.                                                   *)
WrittenOnce(c) ==
    /\ carriedOut[c] <= 1
    /\ carriedOut[c] > 0 => request[c].step \in {"served", "answered", "failed"}
    /\ carriedOut[c] > 0 /\ request[c].step = "failed" => request[c].lost
    /\ request[c].step = "late" => request[c].lost

(* A served call has seen what the console knew when it was made.          *)
SeesEnough(c) ==
    request[c].step # "idle" =>
        /\ request[c].at <= newest
        /\ request[c].step = "served" => request[c].at <= request[c].of /\ request[c].of <= writings
        /\ request[c].step = "joined" => request[c].early
        /\ request[c].step = "answered" => request[c].of >= request[c].at \/ request[c].early

Own(r) == r.by # Nobody => r.as = r.by \/ r.sent > r.made

(* As long as nobody signed in or out since, the token is the caller's.    *)
SentAsCaller(c) ==
    request[c].step # "idle" =>
        /\ request[c].made <= era
        /\ request[c].made = era => bearer.owner = request[c].by
        /\ request[c].step \in {"sent", "served", "refused", "answered"} => Own(request[c])

Sane(c) == WrittenOnce(c) /\ SeesEnough(c) /\ SentAsCaller(c)

(* A call that has joined another waits for one of the same caller.        *)
FollowsOwn(c) ==
    request[c].step = "joined" =>
        /\ request[c].leader \in ConsoleCalls /\ UnderWay(request[c].leader)
        /\ request[c].by # Nobody =>
             /\ request[request[c].leader].by = request[c].by
             /\ request[request[c].leader].made = request[c].made

(* The map of readings has only those under way, and the ones under the    *)
(* present token were made since its owner signed in.                      *)
EntriesAreLive ==
    \A k \in 0..MaxToken : inflightGets[k] # NoReading =>
        /\ k <= issued /\ UnderWay(inflightGets[k])
        /\ k = bearer.number /\ k # 0 => request[inflightGets[k]].made = era

TransportInv ==
    /\ TransportTypeOK /\ TokenIsOwned /\ newest <= writings
    /\ \A c \in ConsoleCalls : Sane(c) /\ FollowsOwn(c)
    /\ EntriesAreLive

----
(* A call that was made has a record.                                      *)
LEMMA MadeFact ==
    ASSUME TransportTypeOK, NEW c \in ConsoleCalls, request[c].step # "idle"
    PROVE  request[c] \in Made
  BY DEF TransportTypeOK, Unmade

(* A call that joins another takes over what has become of it.             *)
Joined(a, l, b) ==
    [a EXCEPT !.leader = l, !.early = TRUE, !.step = "joined",
              !.of = b.of, !.as = b.as, !.sent = b.sent, !.lost = b.lost]

TakesPlace(z, a, l) ==
    /\ z.step = "joined" /\ z.leader = l /\ z.early = TRUE
    /\ z.by = a.by /\ z.made = a.made /\ z.at = a.at

LEMMA JoinedFact ==
    ASSUME NEW a \in Made, NEW l \in ConsoleCalls, NEW b \in Made
    PROVE  Joined(a, l, b) \in Made /\ TakesPlace(Joined(a, l, b), a, l)
<1> DEFINE z == Joined(a, l, b)
<1>1. /\ z.step = "joined" /\ z.leader = l /\ z.early = TRUE /\ z.of = b.of /\ z.as = b.as
      /\ z.sent = b.sent /\ z.lost = b.lost
  BY DEF Made, Joined
<1>2. z.get = a.get /\ z.retried = a.retried /\ z.by = a.by /\ z.made = a.made /\ z.at = a.at
  BY DEF Made, Joined
<1>3. "joined" \in CallSteps
  BY DEF CallSteps
<1>4. z \in Made
  BY <1>3 DEF Made, Joined
<1> HIDE DEF z
<1>5. z \in Made /\ TakesPlace(z, a, l)
  BY <1>1, <1>2, <1>4 DEF TakesPlace
<1> QED BY <1>5 DEF z

(* What is true of a call stays true while others move.                    *)
LEMMA SaneFrame ==
    ASSUME TransportTypeOK, TransportTypeOK', NEW c \in ConsoleCalls, Sane(c),
           request'[c] = request[c], carriedOut'[c] = carriedOut[c],
           writings <= writings', newest <= newest', era <= era', era' = era => bearer'.owner = bearer.owner
    PROVE  Sane(c)'
<1>1. WrittenOnce(c)'
  BY DEF Sane, WrittenOnce
<1>2. SeesEnough(c)' /\ SentAsCaller(c)'
  <2>1. CASE request[c].step = "idle"
    BY <2>1 DEF SeesEnough, SentAsCaller
  <2>2. CASE request[c].step # "idle"
    <3>0. request[c] \in Made
      BY <2>2, MadeFact
    <3>1. request[c].at \in Nat /\ request[c].of \in Int /\ request[c].made \in Nat
      BY <3>0 DEF Made
    <3>2. /\ newest \in Nat /\ newest' \in Nat /\ writings \in Nat /\ writings' \in Nat /\ era \in Nat /\ era' \in Nat
      BY DEF TransportTypeOK
    <3>3. SeesEnough(c)'
      BY <2>2, <3>1, <3>2 DEF Sane, SeesEnough
    <3>4. request[c].made <= era' /\ (request[c].made = era' => bearer'.owner = request[c].by)
      BY <2>2, <3>1, <3>2 DEF Sane, SentAsCaller
    <3> QED
      BY <2>2, <3>3, <3>4 DEF Sane, SentAsCaller
  <2> QED
    BY <2>1, <2>2
<1> QED
  BY <1>1, <1>2 DEF Sane

(* So do the bonds between calls, as long as no call under way ends and no *)
(* call joins.                                                             *)
LEMMA BondsFrame ==
    ASSUME TransportTypeOK, TokenIsOwned, EntriesAreLive, \A c \in ConsoleCalls : FollowsOwn(c),
           \A c \in ConsoleCalls : UnderWay(c) => UnderWay(c)' /\ request'[c].by = request[c].by /\ request'[c].made = request[c].made,
           \A c \in ConsoleCalls : request'[c].step = "joined" => request'[c] = request[c],
           UNCHANGED inflightGets, issued' \in Nat, issued <= issued', era' = era \/ bearer'.number = 0 \/ bearer'.number > issued,
           bearer'.number \in {bearer.number, 0} \/ bearer'.number > issued
    PROVE  EntriesAreLive' /\ \A c \in ConsoleCalls : FollowsOwn(c)'
<1>1. ASSUME NEW c \in ConsoleCalls PROVE FollowsOwn(c)'
  <2> SUFFICES ASSUME request'[c].step = "joined"
               PROVE  /\ request'[c].leader \in ConsoleCalls /\ request'[request'[c].leader].step \in LiveSteps
                      /\ request'[c].by # Nobody =>
                            /\ request'[request'[c].leader].by = request'[c].by
                            /\ request'[request'[c].leader].made = request'[c].made
    BY DEF FollowsOwn, UnderWay
  <2>1. request'[c] = request[c]
    OBVIOUS
  <2>2. request[c].leader \in ConsoleCalls /\ UnderWay(request[c].leader)
    BY <2>1 DEF FollowsOwn
  <2> QED
    BY <2>1, <2>2 DEF FollowsOwn, UnderWay
<1>2. EntriesAreLive'
  <2> SUFFICES ASSUME NEW k \in 0..MaxToken, inflightGets[k] # NoReading
               PROVE  /\ k <= issued' /\ UnderWay(inflightGets[k])'
                      /\ k = bearer'.number /\ k # 0 => request'[inflightGets[k]].made = era'
    BY DEF EntriesAreLive, UnderWay
  <2>0. inflightGets[k] \in ConsoleCalls /\ issued \in Nat /\ k \in Nat
    BY DEF TransportTypeOK
  <2>1. k <= issued /\ UnderWay(inflightGets[k])
    BY DEF EntriesAreLive
  <2>2. k <= issued'
    BY <2>0, <2>1
  <2>3. UnderWay(inflightGets[k])' /\ request'[inflightGets[k]].made = request[inflightGets[k]].made
    BY <2>0, <2>1 DEF UnderWay, LiveSteps
  <2>4. ASSUME k = bearer'.number, k # 0 PROVE k = bearer.number /\ era' = era
    BY <2>0, <2>1, <2>4
  <2> QED
    BY <2>2, <2>3, <2>4 DEF EntriesAreLive
<1> QED
  BY <1>1, <1>2

(* What the end of a call makes of it and of those that share it.          *)
EndsAs(c, step, lost) ==
    /\ request' \in [ConsoleCalls -> {Unmade} \cup Made]
    /\ request'[c] = [request[c] EXCEPT !.step = step, !.lost = lost]
    /\ \A d \in ConsoleCalls \ {c} :
        IF CallAt(d, "joined") /\ request[d].leader = c
        THEN /\ request'[d].step = IF step = "late" THEN "failed" ELSE step
             /\ request'[d].lost = lost
             /\ request'[d].early = request[d].early /\ request'[d].at = request[d].at
             /\ request'[d].by = request[d].by /\ request'[d].made = request[d].made
             /\ request'[d].as = request[c].as /\ request'[d].sent = request[c].sent
        ELSE request'[d] = request[d]

(* What Concludes writes.                                                  *)
LEMMA ConcludesFact ==
    ASSUME TransportInv, NEW c \in ConsoleCalls, UnderWay(c), NEW step \in {"late", "answered", "failed"},
           NEW lost \in BOOLEAN, Concludes(c, step, lost)
    PROVE  EndsAs(c, step, lost)
<1>0. request[c] \in Made
  BY MadeFact DEF TransportInv, UnderWay, LiveSteps
<1> DEFINE ended == [request[c] EXCEPT !.step = step, !.lost = lost]
           NowIs(d) == [request[d] EXCEPT !.step = IF step = "late" THEN "failed" ELSE step, !.lost = lost,
                                          !.of = ended.of, !.as = ended.as, !.sent = ended.sent]
<1>1. /\ ended \in Made /\ ended.of = request[c].of /\ ended.as = request[c].as /\ ended.sent = request[c].sent
      /\ ended.of \in Int /\ ended.as \in Whose /\ ended.sent \in Nat
  BY <1>0 DEF Made, CallSteps
<1>2. request' = [d \in ConsoleCalls |->
            IF d = c THEN ended
            ELSE IF CallAt(d, "joined") /\ request[d].leader = c THEN NowIs(d) ELSE request[d]]
  BY DEF Concludes
<1> HIDE DEF ended
<1>3. ASSUME NEW d \in ConsoleCalls, CallAt(d, "joined")
      PROVE  /\ NowIs(d) \in Made
             /\ NowIs(d).step = IF step = "late" THEN "failed" ELSE step
             /\ NowIs(d).lost = lost
             /\ NowIs(d).early = request[d].early /\ NowIs(d).at = request[d].at
             /\ NowIs(d).by = request[d].by /\ NowIs(d).made = request[d].made
             /\ NowIs(d).as = request[c].as /\ NowIs(d).sent = request[c].sent
  <2>1. request[d] \in Made
    BY <1>3, MadeFact DEF TransportInv, CallAt
  <2> QED
    BY <2>1, <1>1 DEF Made, CallSteps
<1> HIDE DEF NowIs
<1>4. request' \in [ConsoleCalls -> {Unmade} \cup Made]
  BY <1>1, <1>2, <1>3 DEF TransportInv, TransportTypeOK
<1>5. request'[c] = ended
  BY <1>2
<1>6. \A d \in ConsoleCalls \ {c} :
         request'[d] = IF CallAt(d, "joined") /\ request[d].leader = c THEN NowIs(d) ELSE request[d]
  BY <1>2
<1> QED
  BY <1>3, <1>4, <1>5, <1>6 DEF ended, EndsAs

(* The end of a call, for the call itself and for those that share it:     *)
(* the bonds and what is known of the others are kept.                     *)
LEMMA EndingKeeps ==
    ASSUME TransportInv, NEW c \in ConsoleCalls, UnderWay(c), NEW step \in {"late", "answered", "failed"},
           NEW lost \in BOOLEAN, Concludes(c, step, lost), LeavesMap(c),
           newest' \in Nat, newest <= newest', newest' <= writings,
           UNCHANGED <<writings, bearer, issued, era, carriedOut>>,
           step = "answered" => request[c].step = "served",
           step = "failed" /\ lost = FALSE => request[c].step = "refused",
           step = "late" => request[c].step = "sent" /\ lost = TRUE
    PROVE  TransportInv'
<1>0. TransportTypeOK /\ request[c] \in Made
  BY MadeFact DEF TransportInv, UnderWay, LiveSteps
<1>e. EndsAs(c, step, lost)
  BY ConcludesFact, Zenon
<1>1. /\ request' \in [ConsoleCalls -> {Unmade} \cup Made]
      /\ request'[c] = [request[c] EXCEPT !.step = step, !.lost = lost]
  BY <1>e, Zenon DEF EndsAs
<1>j. \A d \in ConsoleCalls \ {c} :
                IF CallAt(d, "joined") /\ request[d].leader = c
                THEN /\ request'[d].step = IF step = "late" THEN "failed" ELSE step
                     /\ request'[d].lost = lost
                     /\ request'[d].early = request[d].early /\ request'[d].at = request[d].at
                     /\ request'[d].by = request[d].by /\ request'[d].made = request[d].made
                     /\ request'[d].as = request[c].as /\ request'[d].sent = request[c].sent
                ELSE request'[d] = request[d]
  BY <1>e, Zenon DEF EndsAs
<1>2. /\ inflightGets' \in [0..MaxToken -> ConsoleCalls \cup {NoReading}]
      /\ \A k \in 0..MaxToken : inflightGets'[k] = IF inflightGets[k] = c THEN NoReading ELSE inflightGets[k]
  BY <1>0 DEF LeavesMap, Without, TransportTypeOK
<1>3. TransportTypeOK'
  BY <1>0, <1>1, <1>2 DEF TransportTypeOK
<1>4. /\ request'[c].step = step /\ request'[c].lost = lost /\ request'[c].at = request[c].at
      /\ request'[c].of = request[c].of /\ request'[c].early = request[c].early
      /\ request'[c].made = request[c].made /\ request'[c].by = request[c].by
      /\ request'[c].as = request[c].as /\ request'[c].sent = request[c].sent
  BY <1>0, <1>1 DEF Made
<1>n. /\ newest \in Nat /\ writings \in Nat /\ era \in Nat /\ request[c].at \in Nat /\ request[c].of \in Int
      /\ request[c].made \in Nat /\ request[c].sent \in Nat /\ carriedOut \in [ConsoleCalls -> Nat]
  BY <1>0 DEF TransportTypeOK, Made
<1>s. Sane(c) /\ request[c].step # "idle"
  BY DEF TransportInv, UnderWay, LiveSteps
<1>5. Sane(c)'
  <2>1. WrittenOnce(c)'
    BY <1>4, <1>n, <1>s DEF Sane, WrittenOnce, UnderWay, LiveSteps
  <2>2. SeesEnough(c)'
    BY <1>4, <1>n, <1>s DEF Sane, SeesEnough
  <2>3. Own(request[c]) => Own(request'[c])
    BY <1>4 DEF Own
  <2>4. SentAsCaller(c)'
    BY <1>4, <1>n, <1>s, <2>3 DEF Sane, SentAsCaller
  <2> QED
    BY <2>1, <2>2, <2>4 DEF Sane
<1>6. ASSUME NEW d \in ConsoleCalls \ {c}, CallAt(d, "joined"), request[d].leader = c PROVE Sane(d)'
  <2>0. /\ request'[d].step = IF step = "late" THEN "failed" ELSE step
        /\ request'[d].lost = lost
        /\ request'[d].early = request[d].early /\ request'[d].at = request[d].at
        /\ request'[d].by = request[d].by /\ request'[d].made = request[d].made
        /\ request'[d].as = request[c].as /\ request'[d].sent = request[c].sent
    BY <1>6, <1>j
  <2>1. Sane(d) /\ FollowsOwn(d) /\ request[d].step = "joined" /\ request[d] \in Made
    BY <1>6, MadeFact DEF TransportInv, CallAt
  <2>n. request[d].at \in Nat /\ request[d].made \in Nat
    BY <2>1 DEF Made
  <2>2. WrittenOnce(d)'
    BY <1>n, <2>0, <2>1 DEF Sane, WrittenOnce
  <2>3. SeesEnough(d)'
    BY <1>n, <2>0, <2>1, <2>n DEF Sane, SeesEnough
  <2>4. step = "answered" => Own(request'[d])
    <3>1. step = "answered" => Own(request[c])
      BY <1>s DEF Sane, SentAsCaller
    <3>2. request[d].by # Nobody => request[c].by = request[d].by /\ request[c].made = request[d].made
      BY <1>6, <2>1 DEF FollowsOwn
    <3> QED
      BY <2>0, <3>1, <3>2 DEF Own
  <2>5. SentAsCaller(d)'
    BY <1>n, <2>0, <2>1, <2>4 DEF Sane, SentAsCaller
  <2> QED
    BY <2>2, <2>3, <2>5 DEF Sane
<1>7. ASSUME NEW d \in ConsoleCalls \ {c}, ~(CallAt(d, "joined") /\ request[d].leader = c) PROVE Sane(d)'
  <2>1. request'[d] = request[d] /\ Sane(d)
    BY <1>7, <1>j DEF TransportInv
  <2>2. writings <= writings' /\ era <= era'
    BY <1>n
  <2> QED
    BY <1>0, <1>3, <2>1, <2>2, SaneFrame
<1>8. ASSUME NEW d \in ConsoleCalls PROVE FollowsOwn(d)'
  <2> SUFFICES ASSUME request'[d].step = "joined" PROVE FollowsOwn(d)'
    BY DEF FollowsOwn
  <2>1. d # c /\ request'[d] = request[d] /\ request[d].leader # c
    BY <1>4, <1>j DEF CallAt
  <2>2. request[d].leader \in ConsoleCalls /\ UnderWay(request[d].leader)
    BY <2>1 DEF TransportInv, FollowsOwn
  <2>3. request[request[d].leader].step # "joined"
    BY <2>2 DEF UnderWay, LiveSteps
  <2>4. request'[request[d].leader] = request[request[d].leader]
    BY <1>j, <2>1, <2>2, <2>3 DEF CallAt
  <2> QED
    BY <2>1, <2>2, <2>4 DEF TransportInv, FollowsOwn, UnderWay
<1>9. EntriesAreLive'
  <2> SUFFICES ASSUME NEW k \in 0..MaxToken, inflightGets'[k] # NoReading
               PROVE  /\ k <= issued /\ request'[inflightGets'[k]].step \in LiveSteps
                      /\ k = bearer.number /\ k # 0 => request'[inflightGets'[k]].made = era
    BY DEF EntriesAreLive, UnderWay
  <2>1. inflightGets'[k] = inflightGets[k] /\ inflightGets[k] # c /\ inflightGets[k] \in ConsoleCalls
    BY <1>2
  <2>2. k <= issued /\ UnderWay(inflightGets[k]) /\ (k = bearer.number /\ k # 0 => request[inflightGets[k]].made = era)
    BY <2>1 DEF TransportInv, EntriesAreLive
  <2>3. request'[inflightGets[k]] = request[inflightGets[k]]
    BY <1>j, <2>1, <2>2 DEF UnderWay, LiveSteps, CallAt
  <2> QED
    BY <2>1, <2>2, <2>3 DEF UnderWay, LiveSteps
<1>10. TokenIsOwned' /\ newest' <= writings'
  BY DEF TransportInv, TokenIsOwned
<1> QED
  BY <1>3, <1>5, <1>6, <1>7, <1>8, <1>9, <1>10 DEF TransportInv

----
(* The transport begins in the invariant, ...                              *)
LEMMA TransportInitInv == TransportInit => TransportInv
<1> SUFFICES ASSUME TransportInit PROVE TransportInv
  OBVIOUS
<1>1. TransportTypeOK
  BY TransportAssumption DEF TransportInit, TransportTypeOK, NoToken, Whose
<1>2. TokenIsOwned /\ newest <= writings
  BY DEF TransportInit, TokenIsOwned, NoToken
<1>3. \A c \in ConsoleCalls : request[c].step = "idle" /\ carriedOut[c] = 0
  BY DEF TransportInit, Unmade
<1>4. \A c \in ConsoleCalls : Sane(c) /\ FollowsOwn(c)
  BY <1>3 DEF Sane, FollowsOwn, WrittenOnce, SeesEnough, SentAsCaller
<1>5. EntriesAreLive
  BY DEF TransportInit, EntriesAreLive
<1> QED
  BY <1>1, <1>2, <1>4, <1>5 DEF TransportInv

(* ... and every step keeps it: an answer arrives, ...                     *)
LEMMA ArriveKeeps ==
    ASSUME TransportInv, NEW c \in ConsoleCalls, Arrives(c)
    PROVE  TransportInv'
<1>0. UnderWay(c) /\ request[c] \in Made /\ request[c].step = "served" /\ TransportTypeOK
  BY MadeFact DEF TransportInv, Arrives, CallAt, UnderWay, LiveSteps
<1>1. request[c].of <= writings /\ request[c].of \in Int /\ newest \in Nat /\ writings \in Nat /\ newest <= writings
      /\ request[c].at \in Nat /\ request[c].at <= request[c].of
  BY <1>0 DEF TransportInv, TransportTypeOK, Sane, SeesEnough, Made
<1>2. newest' \in Nat /\ newest <= newest' /\ newest' <= writings
  BY <1>1 DEF Arrives
<1>3. Concludes(c, "answered", FALSE) /\ LeavesMap(c) /\ UNCHANGED <<writings, bearer, issued, era, carriedOut>>
  BY DEF Arrives
<1> QED
  BY <1>0, <1>2, <1>3, EndingKeeps

(* ... a call is given up, ...                                             *)
LEMMA TimeOutKeeps ==
    ASSUME TransportInv, NEW c \in ConsoleCalls, TimesOut(c)
    PROVE  TransportInv'
<1>0. UnderWay(c) /\ newest \in Nat /\ newest <= writings
  BY DEF TransportInv, TransportTypeOK, TimesOut, UnderWay, LiveSteps
<1>n. newest' \in Nat /\ newest <= newest' /\ newest' <= writings /\ UNCHANGED <<writings, bearer, issued, era, carriedOut>>
  BY <1>0 DEF TimesOut
<1>1. CASE CallAt(c, "sent")
  <2>1. Concludes(c, "late", TRUE) /\ LeavesMap(c)
    BY <1>1 DEF TimesOut
  <2>2. request[c].step = "sent"
    BY <1>1 DEF CallAt
  <2> QED
    BY <1>0, <1>n, <2>1, <2>2, EndingKeeps, Zenon
<1>2. CASE ~CallAt(c, "sent")
  <2>1. Concludes(c, "failed", TRUE) /\ LeavesMap(c)
    BY <1>2 DEF TimesOut
  <2> QED
    BY <1>0, <1>n, <2>1, EndingKeeps, Zenon
<1> QED
  BY <1>1, <1>2

(* One call that moves without joining or beginning: the others are as     *)
(* they were.                                                              *)
LEMMA LoneMoveKeeps ==
    ASSUME TransportInv, NEW c \in ConsoleCalls, NEW r \in Made,
           request' = [request EXCEPT ![c] = r],
           UnderWay(c) => r.step \in LiveSteps /\ r.by = request[c].by /\ r.made = request[c].made,
           r.step # "joined", Sane(c)',
           writings' \in Nat, writings <= writings',
           carriedOut' \in [ConsoleCalls -> Nat], \A d \in ConsoleCalls \ {c} : carriedOut'[d] = carriedOut[d],
           UNCHANGED <<bearer, issued, inflightGets, newest, era>>
    PROVE  TransportInv'
<1>0. TransportTypeOK
  BY DEF TransportInv
<1>1. request'[c] = r /\ \A d \in ConsoleCalls \ {c} : request'[d] = request[d]
  BY <1>0 DEF TransportTypeOK
<1>2. TransportTypeOK'
  BY <1>0 DEF TransportTypeOK
<1>n. writings \in Nat /\ newest \in Nat /\ era \in Nat /\ issued \in Nat /\ newest <= writings
  BY <1>0 DEF TransportInv, TransportTypeOK
<1>3. newest' <= writings' /\ TokenIsOwned'
  BY <1>n DEF TransportInv, TokenIsOwned
<1>4. ASSUME NEW d \in ConsoleCalls PROVE Sane(d)'
  <2>1. CASE d = c
    BY <2>1
  <2>2. CASE d # c
    <3>1. Sane(d) /\ request'[d] = request[d] /\ carriedOut'[d] = carriedOut[d]
      BY <1>1, <2>2 DEF TransportInv
    <3> QED
      BY <1>0, <1>2, <1>n, <3>1, SaneFrame
  <2> QED
    BY <2>1, <2>2
<1>5. \A d \in ConsoleCalls : UnderWay(d) => UnderWay(d)' /\ request'[d].by = request[d].by /\ request'[d].made = request[d].made
  BY <1>1 DEF UnderWay
<1>6. \A d \in ConsoleCalls : request'[d].step = "joined" => request'[d] = request[d]
  BY <1>1
<1>7. EntriesAreLive' /\ \A d \in ConsoleCalls : FollowsOwn(d)'
  BY <1>0, <1>5, <1>6, <1>n, BondsFrame DEF TransportInv
<1> QED
  BY <1>2, <1>3, <1>4, <1>7 DEF TransportInv

(* ... the server answers, ...                                             *)
LEMMA HandleKeeps ==
    ASSUME TransportInv, NEW c \in ConsoleCalls, ServerHandles(c)
    PROVE  TransportInv'
<1>0. TransportTypeOK /\ request[c] \in Made /\ request[c].step \in {"sent", "late"} /\ Sane(c)
  BY MadeFact DEF TransportInv, ServerHandles
<1>n. /\ writings \in Nat /\ newest \in Nat /\ newest <= writings /\ carriedOut[c] \in Nat
      /\ request[c].at \in Nat /\ request[c].at <= newest /\ carriedOut[c] = 0
  BY <1>0 DEF TransportInv, TransportTypeOK, Made, Sane, SeesEnough, WrittenOnce
<1>1. CASE /\ request' = [request EXCEPT ![c].step = IF CallAt(c, "late") THEN "failed" ELSE "refused"]
           /\ UNCHANGED <<writings, carriedOut>>
  <2> DEFINE r == [request[c] EXCEPT !.step = IF CallAt(c, "late") THEN "failed" ELSE "refused"]
  <2>1. request' = [request EXCEPT ![c] = r] /\ UNCHANGED <<bearer, issued, inflightGets, newest, era>>
    BY <1>0, <1>1 DEF ServerHandles, TransportTypeOK
  <2>2. /\ r \in Made /\ r.by = request[c].by /\ r.made = request[c].made /\ r.lost = request[c].lost
        /\ r.step = (IF request[c].step = "late" THEN "failed" ELSE "refused")
        /\ r.at = request[c].at /\ r.early = request[c].early /\ r.as = request[c].as /\ r.sent = request[c].sent
    BY <1>0 DEF Made, CallSteps, CallAt
  <2>3. request'[c] = r
    BY <1>0, <2>1 DEF TransportTypeOK
  <2> HIDE DEF r
  <2>4. Sane(c)'
    <3>1. WrittenOnce(c)' /\ SeesEnough(c)'
      BY <1>0, <1>1, <1>n, <2>1, <2>2, <2>3 DEF Sane, WrittenOnce, SeesEnough
    <3>2. Own(request[c]) => Own(request'[c])
      BY <2>2, <2>3 DEF Own
    <3>3. SentAsCaller(c)'
      BY <1>0, <2>1, <2>2, <2>3, <3>2 DEF Sane, SentAsCaller
    <3> QED
      BY <3>1, <3>3 DEF Sane
  <2>5. UnderWay(c) => r.step \in LiveSteps
    BY <1>0, <2>2 DEF UnderWay, LiveSteps
  <2>6. r.step # "joined" /\ writings' \in Nat /\ writings <= writings' /\ carriedOut' \in [ConsoleCalls -> Nat]
        /\ \A d \in ConsoleCalls \ {c} : carriedOut'[d] = carriedOut[d]
    BY <1>0, <1>1, <1>n, <2>2 DEF TransportTypeOK
  <2> QED
    BY <2>1, <2>2, <2>4, <2>5, <2>6, LoneMoveKeeps
<1>2. CASE /\ request[c].as # Nobody
           /\ writings' = writings + (IF request[c].get THEN 0 ELSE 1)
           /\ carriedOut' = [carriedOut EXCEPT ![c] = @ + (IF request[c].get THEN 0 ELSE 1)]
           /\ request' = [request EXCEPT ![c].step = IF CallAt(c, "late") THEN "failed" ELSE "served",
                                         ![c].of = writings']
  <2> DEFINE r == [request[c] EXCEPT !.step = IF CallAt(c, "late") THEN "failed" ELSE "served", !.of = writings']
  <2>0. /\ writings' \in Nat /\ writings <= writings'
        /\ carriedOut' \in [ConsoleCalls -> Nat] /\ carriedOut'[c] <= 1
        /\ \A d \in ConsoleCalls \ {c} : carriedOut'[d] = carriedOut[d]
    BY <1>0, <1>2, <1>n DEF TransportTypeOK
  <2>1. request' = [request EXCEPT ![c] = r] /\ UNCHANGED <<bearer, issued, inflightGets, newest, era>>
    BY <1>0, <1>2 DEF ServerHandles, TransportTypeOK
  <2>2. /\ r \in Made /\ r.by = request[c].by /\ r.made = request[c].made /\ r.lost = request[c].lost
        /\ r.step = (IF request[c].step = "late" THEN "failed" ELSE "served") /\ r.of = writings'
        /\ r.at = request[c].at /\ r.early = request[c].early /\ r.as = request[c].as /\ r.sent = request[c].sent
    <3> DEFINE Becomes(step, w) == [request[c] EXCEPT !.step = step, !.of = w]
    <3>1. ASSUME NEW w \in Int, NEW step \in CallSteps
          PROVE  Becomes(step, w) \in Made
      BY <1>0 DEF Made
    <3>3. r = Becomes(IF CallAt(c, "late") THEN "failed" ELSE "served", writings')
      OBVIOUS
    <3>0. writings' \in Int /\ "failed" \in CallSteps /\ "served" \in CallSteps
      BY <2>0 DEF CallSteps
    <3> HIDE DEF Becomes, r
    <3>2. r \in Made
      BY <3>0, <3>1, <3>3
    <3> QED
      BY <1>0, <3>2 DEF Made, CallAt, r
  <2>3. request'[c] = r
    BY <1>0, <2>1 DEF TransportTypeOK
  <2> HIDE DEF r
  <2>4. Sane(c)'
    <3>1. WrittenOnce(c)' 
      BY <1>0, <1>n, <2>0, <2>1, <2>2, <2>3 DEF Sane, WrittenOnce
    <3>0. SeesEnough(c)'
      BY <1>0, <1>n, <2>0, <2>1, <2>2, <2>3 DEF Sane, SeesEnough
    <3>2. Own(request[c]) => Own(request'[c])
      BY <2>2, <2>3 DEF Own
    <3>3. SentAsCaller(c)'
      BY <1>0, <2>1, <2>2, <2>3, <3>2 DEF Sane, SentAsCaller
    <3> QED
      BY <3>1, <3>0, <3>3 DEF Sane
  <2>5. UnderWay(c) => r.step \in LiveSteps
    BY <1>0, <2>2 DEF UnderWay, LiveSteps
  <2>6. r.step # "joined"
    BY <2>2
  <2> QED
    BY <2>0, <2>1, <2>2, <2>4, <2>5, <2>6, LoneMoveKeeps
<1> QED
  BY <1>1, <1>2 DEF ServerHandles

(* ... a refusal arrives, ...                                              *)
LEMMA RefusalKeeps ==
    ASSUME TransportInv, NEW c \in ConsoleCalls, RefusalArrives(c)
    PROVE  TransportInv'
<1>0. TransportTypeOK /\ request[c] \in Made /\ request[c].step = "refused" /\ Sane(c) /\ UnderWay(c)
  BY MadeFact DEF TransportInv, RefusalArrives, Refusal, CallAt, UnderWay, LiveSteps
<1>n. /\ writings \in Nat /\ newest \in Nat /\ newest <= writings /\ carriedOut \in [ConsoleCalls -> Nat]
      /\ UNCHANGED <<writings, bearer, issued, newest, era, carriedOut>>
  BY <1>0 DEF TransportInv, TransportTypeOK, RefusalArrives
<1>1. CASE ~request[c].retried /\ bearer.owner # Nobody
  <2> DEFINE r == [request[c] EXCEPT !.step = "refreshing"]
  <2>1. request' = [request EXCEPT ![c] = r] /\ UNCHANGED <<bearer, issued, inflightGets, newest, era>>
    BY <1>0, <1>1 DEF RefusalArrives, Moves, TransportTypeOK
  <2>2. /\ r \in Made /\ r.by = request[c].by /\ r.made = request[c].made /\ r.step = "refreshing"
        /\ r.at = request[c].at
    BY <1>0 DEF Made, CallSteps
  <2>3. request'[c] = r
    BY <1>0, <2>1 DEF TransportTypeOK
  <2> HIDE DEF r
  <2>4. Sane(c)'
    BY <1>0, <1>n, <2>1, <2>2, <2>3 DEF Sane, WrittenOnce, SeesEnough, SentAsCaller
  <2>5. r.step \in LiveSteps /\ r.step # "joined" /\ writings <= writings'
    BY <1>n, <2>2 DEF LiveSteps
  <2> QED
    BY <1>n, <2>1, <2>2, <2>4, <2>5, LoneMoveKeeps
<1>2. CASE ~(~request[c].retried /\ bearer.owner # Nobody)
  <2>1. Concludes(c, "failed", FALSE) /\ LeavesMap(c)
    BY <1>2 DEF RefusalArrives
  <2>2. newest' \in Nat /\ newest <= newest' /\ newest' <= writings
    BY <1>n
  <2> QED
    BY <1>0, <1>n, <2>1, <2>2, EndingKeeps, Zenon
<1> QED
  BY <1>1, <1>2

(* The session changes hands, or its token lapses.                         *)
LEMMA SessionKeeps ==
    ASSUME TransportInv, UNCHANGED <<writings, request, inflightGets, newest, carriedOut>>,
           bearer' \in [number : 0..MaxToken, owner : Whose, lapsed : BOOLEAN],
           issued' \in 0..MaxToken, issued <= issued', era' \in Nat, TokenIsOwned',
           \/ era' = era /\ bearer'.owner = bearer.owner /\ bearer'.number = bearer.number
           \/ era' = era + 1 /\ (bearer'.number = 0 \/ bearer'.number > issued)
    PROVE  TransportInv'
<1>0. TransportTypeOK
  BY DEF TransportInv
<1>1. TransportTypeOK'
  BY <1>0 DEF TransportTypeOK
<1>n. /\ writings \in Nat /\ newest \in Nat /\ era \in Nat /\ issued \in Nat /\ issued' \in Nat
      /\ bearer.number \in Nat /\ bearer'.number \in Nat
  BY <1>0, TransportAssumption DEF TransportTypeOK
<1>2. era <= era' /\ (era' = era => bearer'.owner = bearer.owner)
  BY <1>n
<1>3. \A c \in ConsoleCalls : Sane(c)'
  BY <1>0, <1>1, <1>2, <1>n, SaneFrame DEF TransportInv
<1>4. /\ era' = era \/ bearer'.number = 0 \/ bearer'.number > issued
      /\ bearer'.number \in {bearer.number, 0} \/ bearer'.number > issued
  OBVIOUS
<1>5. \A c \in ConsoleCalls : UnderWay(c) => UnderWay(c)'
  BY DEF UnderWay
<1>6. EntriesAreLive' /\ \A c \in ConsoleCalls : FollowsOwn(c)'
  BY <1>0, <1>4, <1>5, <1>n, BondsFrame DEF TransportInv
<1> QED
  BY <1>1, <1>3, <1>6 DEF TransportInv

(* ... an operator signs in or out, or the token lapses.                   *)
LEMMA SignsKeep ==
    ASSUME TransportInv, (\E o \in Operators : SignIn(o)) \/ SignOut \/ Lapse \/ UNCHANGED transportVars
    PROVE  TransportInv'
<1>0. TransportTypeOK /\ TokenIsOwned
  BY DEF TransportInv
<1>n. /\ era \in Nat /\ issued \in 0..MaxToken /\ MaxToken \in Nat
      /\ bearer \in [number : 0..MaxToken, owner : Whose, lapsed : BOOLEAN]
  BY <1>0, TransportAssumption DEF TransportTypeOK
<1>1. ASSUME NEW o \in Operators, SignIn(o) PROVE TransportInv'
  <2>1. /\ bearer' = [number |-> issued + 1, owner |-> o, lapsed |-> FALSE] /\ issued' = issued + 1
        /\ era' = era + 1 /\ issued + 1 \in 0..MaxToken /\ o \in Whose /\ o # Nobody
        /\ UNCHANGED <<writings, request, inflightGets, newest, carriedOut>>
    BY <1>1, <1>n, TransportAssumption DEF SignIn, Whose
  <2>2. bearer' \in [number : 0..MaxToken, owner : Whose, lapsed : BOOLEAN] /\ bearer'.number = issued + 1 /\ bearer'.owner = o
    BY <2>1
  <2>3. TokenIsOwned' /\ bearer'.number > issued /\ issued <= issued' /\ issued' \in 0..MaxToken /\ era' \in Nat
    BY <1>n, <2>1, <2>2 DEF TokenIsOwned
  <2> QED
    BY <2>1, <2>2, <2>3, SessionKeeps
<1>2. CASE SignOut
  <2>1. /\ bearer' = NoToken /\ era' = era + 1
        /\ UNCHANGED <<writings, issued, request, inflightGets, newest, carriedOut>>
    BY <1>2 DEF SignOut
  <2>2. bearer' \in [number : 0..MaxToken, owner : Whose, lapsed : BOOLEAN] /\ bearer'.number = 0 /\ bearer'.owner = Nobody
    BY <2>1, <1>n DEF NoToken, Whose
  <2>3. TokenIsOwned' /\ issued <= issued' /\ era' \in Nat
    BY <1>n, <2>1, <2>2 DEF TokenIsOwned
  <2> QED
    BY <1>n, <2>1, <2>2, <2>3, SessionKeeps
<1>3. CASE Lapse
  <2>1. bearer' = [bearer EXCEPT !.lapsed = TRUE] /\ UNCHANGED <<writings, issued, request, inflightGets, newest, era, carriedOut>>
    BY <1>3 DEF Lapse
  <2>2. /\ bearer' \in [number : 0..MaxToken, owner : Whose, lapsed : BOOLEAN]
        /\ bearer'.number = bearer.number /\ bearer'.owner = bearer.owner
    BY <1>n, <2>1
  <2>3. TokenIsOwned' /\ issued <= issued'
    BY <1>0, <1>n, <2>1, <2>2 DEF TokenIsOwned
  <2> QED
    BY <1>n, <2>1, <2>2, <2>3, SessionKeeps
<1>4. CASE UNCHANGED transportVars
  <2>1. issued <= issued' /\ TokenIsOwned'
    BY <1>0, <1>4, <1>n DEF transportVars, TokenIsOwned
  <2> QED
    BY <1>n, <1>4, <2>1, SessionKeeps DEF transportVars
<1> QED
  BY <1>1, <1>2, <1>3, <1>4

(* One rotation ends: the calls that wait for it go ahead or fail.         *)
LEMMA RotationKeeps ==
    ASSUME TransportInv, RotationEnds
    PROVE  TransportInv'
<1>0. TransportTypeOK /\ TokenIsOwned
  BY DEF TransportInv
<1>n. /\ era \in Nat /\ issued \in 0..MaxToken /\ MaxToken \in Nat /\ issued \in Nat
      /\ writings \in Nat /\ newest \in Nat /\ newest <= writings
      /\ bearer \in [number : 0..MaxToken, owner : Whose, lapsed : BOOLEAN]
  BY <1>0, TransportAssumption DEF TransportTypeOK, TransportInv
<1>1. PICK ends \in {"rotated", "failed", "rejected"} :
        LET waits == {c \in ConsoleCalls : CallAt(c, "refreshing")}
            stop == {c \in waits : request[c].as # Nobody /\ ends # "rotated"}
        IN  /\ IF ends = "rotated" /\ bearer.owner # Nobody
               THEN /\ issued < MaxToken /\ issued' = issued + 1 /\ UNCHANGED era
                    /\ bearer' = [bearer EXCEPT !.number = issued + 1, !.lapsed = FALSE]
               ELSE /\ ends # "rotated" /\ UNCHANGED issued
                    /\ IF ends = "rejected" /\ bearer.owner # Nobody
                       THEN bearer' = NoToken /\ era' = era + 1
                       ELSE UNCHANGED <<bearer, era>>
            /\ request' = [c \in ConsoleCalls |->
                    IF c \in stop \/ (CallAt(c, "joined") /\ request[c].leader \in stop)
                    THEN [request[c] EXCEPT !.step = "failed"]
                    ELSE IF c \in waits
                    THEN [request[c] EXCEPT !.step = "sent", !.retried = request[c].as # Nobody,
                                            !.as = bearer'.owner, !.sent = era']
                    ELSE request[c]]
            /\ inflightGets' = Without(stop)
  BY DEF RotationEnds
<1> DEFINE waits == {c \in ConsoleCalls : CallAt(c, "refreshing")}
           stop == {c \in waits : request[c].as # Nobody /\ ends # "rotated"}
<1>u. UNCHANGED <<writings, newest, carriedOut>>
  BY DEF RotationEnds
<1>2. /\ bearer' \in [number : 0..MaxToken, owner : Whose, lapsed : BOOLEAN]
      /\ issued' \in 0..MaxToken /\ issued <= issued' /\ era' \in Nat /\ TokenIsOwned'
      /\ \/ era' = era /\ bearer'.owner = bearer.owner /\ (bearer'.number = bearer.number \/ bearer'.number > issued)
         \/ era' = era + 1 /\ bearer'.number = 0
  <2>1. CASE ends = "rotated" /\ bearer.owner # Nobody
    <3>0. /\ issued < MaxToken /\ issued' = issued + 1 /\ era' = era
          /\ bearer' = [bearer EXCEPT !.number = issued + 1, !.lapsed = FALSE]
      BY <1>1, <2>1, Zenon
    <3>1. /\ issued' = issued + 1 /\ issued + 1 \in 0..MaxToken /\ era' = era
          /\ bearer' = [bearer EXCEPT !.number = issued + 1, !.lapsed = FALSE]
      BY <1>n, <3>0
    <3>2. /\ bearer' \in [number : 0..MaxToken, owner : Whose, lapsed : BOOLEAN]
          /\ bearer'.number = issued + 1 /\ bearer'.owner = bearer.owner
      BY <1>n, <3>1
    <3> QED
      BY <1>n, <2>1, <3>1, <3>2 DEF TokenIsOwned
  <2>2. CASE ~(ends = "rotated" /\ bearer.owner # Nobody) /\ ends = "rejected" /\ bearer.owner # Nobody
    <3>1. bearer' = NoToken /\ era' = era + 1 /\ issued' = issued
      BY <1>1, <2>2
    <3>2. /\ bearer' \in [number : 0..MaxToken, owner : Whose, lapsed : BOOLEAN]
          /\ bearer'.number = 0 /\ bearer'.owner = Nobody
      BY <1>n, <3>1 DEF NoToken, Whose
    <3> QED
      BY <1>n, <3>1, <3>2 DEF TokenIsOwned
  <2>3. CASE ~(ends = "rotated" /\ bearer.owner # Nobody) /\ ~(ends = "rejected" /\ bearer.owner # Nobody)
    <3>1. bearer' = bearer /\ era' = era /\ issued' = issued
      BY <1>1, <2>3
    <3> QED
      BY <1>0, <1>n, <3>1 DEF TokenIsOwned
  <2> QED
    BY <2>1, <2>2, <2>3
<1>3. /\ request' = [c \in ConsoleCalls |->
                    IF c \in stop \/ (CallAt(c, "joined") /\ request[c].leader \in stop)
                    THEN [request[c] EXCEPT !.step = "failed"]
                    ELSE IF c \in waits
                    THEN [request[c] EXCEPT !.step = "sent", !.retried = request[c].as # Nobody,
                                            !.as = bearer'.owner, !.sent = era']
                    ELSE request[c]]
      /\ inflightGets' = Without(stop)
  BY <1>1
<1>4. stop \subseteq waits /\ \A c \in waits : c \in ConsoleCalls /\ request[c].step = "refreshing" /\ request[c] \in Made
  BY <1>0, MadeFact DEF CallAt
<1>w. \A c \in ConsoleCalls : request[c].step = "refreshing" => c \in waits
  BY DEF CallAt
<1> HIDE DEF waits, stop
(* The three kinds of calls.                                               *)
<1>5. ASSUME NEW c \in ConsoleCalls, c \in stop \/ (CallAt(c, "joined") /\ request[c].leader \in stop)
      PROVE  request'[c] \in Made /\ request'[c].step = "failed" /\ Sane(c)'
  <2>1. request[c] \in Made /\ request[c].step \in {"refreshing", "joined"}
    BY <1>0, <1>4, <1>5, MadeFact DEF CallAt
  <2>2. request'[c] = [request[c] EXCEPT !.step = "failed"]
    BY <1>3, <1>5
  <2>3. /\ request'[c] \in Made /\ request'[c].step = "failed" /\ request'[c].at = request[c].at
        /\ request'[c].made = request[c].made /\ request'[c].by = request[c].by
    BY <2>1, <2>2 DEF Made, CallSteps
  <2>4. WrittenOnce(c)' /\ SeesEnough(c)'
    BY <1>n, <1>u, <2>1, <2>3 DEF TransportInv, TransportTypeOK, Sane, WrittenOnce, SeesEnough
  <2>5. SentAsCaller(c)'
    BY <1>2, <1>n, <2>1, <2>3 DEF TransportInv, Sane, SentAsCaller, Made
  <2> QED
    BY <2>3, <2>4, <2>5 DEF Sane
<1>6. ASSUME NEW c \in ConsoleCalls, c \in waits, c \notin stop
      PROVE  /\ request'[c] \in Made /\ request'[c].step = "sent" /\ Sane(c)'
             /\ request'[c].made = request[c].made /\ request'[c].by = request[c].by
  <2>1. request[c] \in Made /\ request[c].step = "refreshing"
    BY <1>4, <1>6
  <2> DEFINE again == request[c].as # Nobody
  <2>2. request'[c] = [request[c] EXCEPT !.step = "sent", !.retried = again, !.as = bearer'.owner, !.sent = era']
    BY <1>3, <1>6, <2>1 DEF CallAt
  <2>3. again \in BOOLEAN /\ bearer'.owner \in Whose /\ era' \in Nat
    BY <1>2
  <2> HIDE DEF again
  <2>4. /\ request'[c] \in Made /\ request'[c].step = "sent" /\ request'[c].at = request[c].at
        /\ request'[c].made = request[c].made /\ request'[c].by = request[c].by
        /\ request'[c].as = bearer'.owner /\ request'[c].sent = era'
    BY <2>1, <2>2, <2>3 DEF Made, CallSteps
  <2>5. WrittenOnce(c)' /\ SeesEnough(c)'
    BY <1>n, <1>u, <2>1, <2>4 DEF TransportInv, TransportTypeOK, Sane, WrittenOnce, SeesEnough
  <2>6. request[c].made \in Nat /\ request[c].made <= era /\ (request[c].made = era => bearer.owner = request[c].by)
    BY <2>1 DEF TransportInv, Sane, SentAsCaller, Made
  <2>7. request[c].made <= era' /\ (request[c].made = era' => bearer'.owner = request[c].by)
    BY <1>2, <1>n, <2>6
  <2>8. Own(request'[c])
    BY <1>2, <1>n, <2>4, <2>6, <2>7 DEF Own
  <2>9. SentAsCaller(c)'
    BY <2>4, <2>7, <2>8 DEF SentAsCaller
  <2> QED
    BY <2>4, <2>5, <2>9 DEF Sane
<1>7. ASSUME NEW c \in ConsoleCalls, c \notin waits, ~(CallAt(c, "joined") /\ request[c].leader \in stop)
      PROVE  request'[c] = request[c]
  BY <1>3, <1>4, <1>7
<1>8. TransportTypeOK'
  <2>1. request' \in [ConsoleCalls -> {Unmade} \cup Made]
    <3>1. ASSUME NEW c \in ConsoleCalls PROVE request'[c] \in {Unmade} \cup Made
      BY <1>0, <1>5, <1>6, <1>7 DEF TransportTypeOK
    <3> QED
      BY <1>3, <3>1
  <2>2. inflightGets' \in [0..MaxToken -> ConsoleCalls \cup {NoReading}]
    BY <1>0, <1>3 DEF Without, TransportTypeOK
  <2> QED
    BY <1>0, <1>2, <1>u, <2>1, <2>2 DEF TransportTypeOK
<1>9. ASSUME NEW c \in ConsoleCalls PROVE Sane(c)'
  <2>1. ASSUME request'[c] = request[c] PROVE Sane(c)'
    <3>1. Sane(c) /\ carriedOut'[c] = carriedOut[c] /\ writings <= writings' /\ newest <= newest' /\ era <= era'
          /\ (era' = era => bearer'.owner = bearer.owner)
      BY <1>2, <1>n, <1>u DEF TransportInv
    <3> QED
      BY <1>0, <1>8, <2>1, <3>1, SaneFrame
  <2> QED
    BY <1>5, <1>6, <1>7, <2>1
<1>10. ASSUME NEW c \in ConsoleCalls, UnderWay(c), c \notin stop
       PROVE  UnderWay(c)' /\ request'[c].made = request[c].made /\ request'[c].by = request[c].by
  BY <1>6, <1>7, <1>10 DEF UnderWay, LiveSteps, CallAt
<1>11. ASSUME NEW c \in ConsoleCalls PROVE FollowsOwn(c)'
  <2> SUFFICES ASSUME request'[c].step = "joined" PROVE FollowsOwn(c)'
    BY DEF FollowsOwn
  <2>1. request'[c] = request[c] /\ request[c].leader \notin stop
    BY <1>5, <1>6, <1>7 DEF CallAt
  <2>2. request[c].leader \in ConsoleCalls /\ UnderWay(request[c].leader)
    BY <2>1 DEF TransportInv, FollowsOwn
  <2>3. /\ request'[request[c].leader].step \in LiveSteps
        /\ request'[request[c].leader].made = request[request[c].leader].made
        /\ request'[request[c].leader].by = request[request[c].leader].by
    BY <1>10, <2>1, <2>2 DEF UnderWay
  <2> QED
    BY <2>1, <2>2, <2>3 DEF TransportInv, FollowsOwn, UnderWay
<1>12. EntriesAreLive'
  <2> SUFFICES ASSUME NEW k \in 0..MaxToken, inflightGets'[k] # NoReading
               PROVE  /\ k <= issued' /\ request'[inflightGets'[k]].step \in LiveSteps
                      /\ k = bearer'.number /\ k # 0 => request'[inflightGets'[k]].made = era'
    BY DEF EntriesAreLive, UnderWay
  <2>1. inflightGets'[k] = inflightGets[k] /\ inflightGets[k] \notin stop /\ inflightGets[k] \in ConsoleCalls
    BY <1>0, <1>3 DEF Without, TransportTypeOK
  <2>2. k <= issued /\ UnderWay(inflightGets[k]) /\ (k = bearer.number /\ k # 0 => request[inflightGets[k]].made = era)
    BY <2>1 DEF TransportInv, EntriesAreLive
  <2>3. request'[inflightGets[k]].step \in LiveSteps /\ request'[inflightGets[k]].made = request[inflightGets[k]].made
    BY <1>10, <2>1, <2>2 DEF UnderWay
  <2>4. k <= issued'
    BY <1>2, <1>n, <2>2
  <2>5. ASSUME k = bearer'.number, k # 0 PROVE k = bearer.number /\ era' = era
    BY <1>2, <1>n, <2>2, <2>5
  <2> QED
    BY <2>1, <2>2, <2>3, <2>4, <2>5
<1> QED
  BY <1>2, <1>8, <1>9, <1>11, <1>12, <1>n, <1>u DEF TransportInv

(* A new call is sent, waits for a token, or shares a reading under way,   *)
(* which is of the same caller.                                            *)
LEMMA ConsoleCallKeeps ==
    ASSUME TransportInv, NEW c \in ConsoleCalls, NEW get \in BOOLEAN, NEW plain \in BOOLEAN, ConsoleCall(c, get, plain)
    PROVE  TransportInv'
<1>0. TransportTypeOK /\ TokenIsOwned /\ Sane(c) /\ request[c].step = "idle"
  BY DEF TransportInv, ConsoleCall, CallAt
<1>n. /\ era \in Nat /\ issued \in Nat /\ MaxToken \in Nat /\ newest \in Nat /\ writings \in Nat
      /\ newest <= writings /\ bearer \in [number : 0..MaxToken, owner : Whose, lapsed : BOOLEAN]
      /\ SharedKey \in 0..MaxToken /\ SharedKey = bearer.number /\ Nobody \in Whose
  BY <1>0, TransportAssumption DEF TransportTypeOK, TransportInv, SharedKey, Whose
<1>u. UNCHANGED <<writings, bearer, issued, newest, era, carriedOut>>
  BY DEF ConsoleCall
<1> DEFINE alone == [step |-> IF bearer.lapsed THEN "refreshing" ELSE "sent", get |-> get,
                     leader |-> NoReading, early |-> FALSE, retried |-> FALSE,
                     by |-> bearer.owner, as |-> IF bearer.lapsed THEN Nobody ELSE bearer.owner,
                     made |-> era, sent |-> era, at |-> newest, of |-> -1, lost |-> FALSE]
           leader == IF plain THEN inflightGets[SharedKey] ELSE NoReading
<1>1. /\ alone \in Made /\ alone.step \in {"refreshing", "sent"} /\ alone.by = bearer.owner /\ alone.made = era
      /\ alone.at = newest /\ alone.sent = era
      /\ alone.step = "sent" => alone.as = bearer.owner
  BY <1>n DEF Made, CallSteps
<1>2. carriedOut[c] = 0
  BY <1>0 DEF Sane, WrittenOnce, TransportTypeOK, TransportInv
<1>3. CASE leader = NoReading
  <2>1. /\ request' = [request EXCEPT ![c] = alone]
        /\ inflightGets' = IF plain THEN [inflightGets EXCEPT ![SharedKey] = c] ELSE inflightGets
    BY <1>3 DEF ConsoleCall
  <2> HIDE DEF alone, leader
  <2>2. request'[c] = alone /\ \A d \in ConsoleCalls \ {c} : request'[d] = request[d]
    BY <1>0, <2>1 DEF TransportTypeOK
  <2>3. TransportTypeOK'
    BY <1>0, <1>1, <1>n, <1>u, <2>1 DEF TransportTypeOK
  <2>4. Own(request'[c]) \/ alone.step # "sent"
    BY <1>1, <2>2 DEF Own
  <2>5. Sane(c)'
    BY <1>1, <1>2, <1>n, <1>u, <2>2, <2>4 DEF Sane, WrittenOnce, SeesEnough, SentAsCaller
  <2>6. ASSUME NEW d \in ConsoleCalls \ {c} PROVE Sane(d)'
    <3>1. Sane(d) /\ request'[d] = request[d] /\ carriedOut'[d] = carriedOut[d] /\ writings <= writings'
          /\ newest <= newest' /\ era <= era' /\ bearer'.owner = bearer.owner
      BY <1>n, <1>u, <2>2 DEF TransportInv
    <3> QED
      BY <1>0, <2>3, <3>1, SaneFrame
  <2>7. ASSUME NEW d \in ConsoleCalls PROVE FollowsOwn(d)'
    <3> SUFFICES ASSUME request'[d].step = "joined" PROVE FollowsOwn(d)'
      BY DEF FollowsOwn
    <3>1. d # c /\ request'[d] = request[d]
      BY <1>1, <2>2
    <3>2. request[d].leader \in ConsoleCalls /\ UnderWay(request[d].leader) /\ request[d].leader # c
      BY <1>0, <3>1 DEF TransportInv, FollowsOwn, UnderWay, LiveSteps
    <3>3. request'[request[d].leader] = request[request[d].leader]
      BY <2>2, <3>2
    <3> QED
      BY <3>1, <3>2, <3>3 DEF TransportInv, FollowsOwn, UnderWay
  <2>8. EntriesAreLive'
    <3> SUFFICES ASSUME NEW k \in 0..MaxToken, inflightGets'[k] # NoReading
                 PROVE  /\ k <= issued' /\ request'[inflightGets'[k]].step \in LiveSteps
                        /\ k = bearer'.number /\ k # 0 => request'[inflightGets'[k]].made = era'
      BY DEF EntriesAreLive, UnderWay
    <3>1. CASE plain /\ k = SharedKey
      <4>1. inflightGets'[k] = c
        BY <1>0, <2>1, <3>1 DEF TransportTypeOK
      <4> QED
        BY <1>0, <1>1, <1>n, <1>u, <2>2, <3>1, <4>1 DEF TokenIsOwned, LiveSteps
    <3>2. CASE ~(plain /\ k = SharedKey)
      <4>1. inflightGets'[k] = inflightGets[k]
        BY <1>0, <2>1, <3>2 DEF TransportTypeOK
      <4>2. UnderWay(inflightGets[k]) /\ inflightGets[k] \in ConsoleCalls /\ inflightGets[k] # c
        BY <1>0, <4>1 DEF TransportInv, EntriesAreLive, TransportTypeOK, UnderWay, LiveSteps
      <4>3. request'[inflightGets[k]] = request[inflightGets[k]]
        BY <2>2, <4>2
      <4> QED
        BY <1>u, <4>1, <4>2, <4>3 DEF TransportInv, EntriesAreLive, UnderWay
    <3> QED
      BY <3>1, <3>2
  <2> QED
    BY <1>n, <1>u, <1>0, <2>3, <2>5, <2>6, <2>7, <2>8 DEF TransportInv, TokenIsOwned
<1>4. CASE leader # NoReading
  <2> DEFINE r == [alone EXCEPT !.leader = leader, !.early = ~Ended(leader),
                                !.step = IF Ended(leader) THEN request[leader].step ELSE "joined",
                                !.of = request[leader].of, !.as = request[leader].as,
                                !.sent = request[leader].sent, !.lost = request[leader].lost]
  <2>1. request' = [request EXCEPT ![c] = r] /\ UNCHANGED inflightGets
    BY <1>4 DEF ConsoleCall
  <2>2. leader = inflightGets[SharedKey] /\ leader \in ConsoleCalls
    BY <1>0, <1>4, <1>n DEF TransportTypeOK
  <2>3. UnderWay(leader) /\ (bearer.number # 0 => request[leader].made = era)
    BY <1>4, <1>n, <2>2 DEF TransportInv, EntriesAreLive
  <2>4. request[leader] \in Made /\ ~Ended(leader) /\ leader # c
    BY <1>0, <2>2, <2>3, MadeFact DEF UnderWay, LiveSteps, Ended
  <2>5. bearer.owner # Nobody => request[leader].by = bearer.owner /\ request[leader].made = era
    BY <1>0, <1>n, <2>2, <2>3, <2>4 DEF TokenIsOwned, TransportInv, Sane, SentAsCaller, UnderWay, LiveSteps
  <2> HIDE DEF alone, leader
  <2>6. /\ r \in Made /\ r.step = "joined" /\ r.leader = leader /\ r.early
        /\ r.by = bearer.owner /\ r.made = era /\ r.at = newest
    <3> DEFINE z == Joined(alone, leader, request[leader])
    <3>1. r = z
      BY <2>4 DEF Joined
    <3>2. alone \in Made /\ leader \in ConsoleCalls /\ request[leader] \in Made
      BY <1>1, <2>2, <2>4
    <3>3. z \in Made /\ TakesPlace(z, alone, leader)
      BY <3>2, JoinedFact
    <3> HIDE DEF z, r
    <3>4. r \in Made /\ TakesPlace(r, alone, leader)
      BY <3>1, <3>3
    <3> QED BY <1>1, <3>4 DEF TakesPlace
  <2>7. request'[c] = r /\ \A d \in ConsoleCalls \ {c} : request'[d] = request[d]
    BY <1>0, <2>1 DEF TransportTypeOK
  <2> HIDE DEF r
  <2>8. TransportTypeOK'
    BY <1>0, <1>u, <2>1, <2>6 DEF TransportTypeOK
  <2>9. Sane(c)'
    BY <1>2, <1>n, <1>u, <2>6, <2>7 DEF Sane, WrittenOnce, SeesEnough, SentAsCaller
  <2>10. ASSUME NEW d \in ConsoleCalls \ {c} PROVE Sane(d)'
    <3>1. Sane(d) /\ request'[d] = request[d] /\ carriedOut'[d] = carriedOut[d] /\ writings <= writings'
          /\ newest <= newest' /\ era <= era' /\ bearer'.owner = bearer.owner
      BY <1>n, <1>u, <2>7 DEF TransportInv
    <3> QED
      BY <1>0, <2>8, <3>1, SaneFrame
  <2>11. ASSUME NEW d \in ConsoleCalls PROVE FollowsOwn(d)'
    <3>1. CASE d = c
      <4>1. request'[leader] = request[leader]
        BY <2>2, <2>4, <2>7
      <4> QED
        BY <2>2, <2>3, <2>5, <2>6, <2>7, <3>1, <4>1 DEF FollowsOwn, UnderWay
    <3>2. CASE d # c
      <4>1. request'[d] = request[d]
        BY <2>7, <3>2
      <4>2. CASE request[d].step = "joined"
        <5>1. request[d].leader \in ConsoleCalls /\ UnderWay(request[d].leader) /\ request[d].leader # c
          BY <1>0, <4>2 DEF TransportInv, FollowsOwn, UnderWay, LiveSteps
        <5>2. request'[request[d].leader] = request[request[d].leader]
          BY <2>7, <5>1
        <5> QED
          BY <4>1, <4>2, <5>1, <5>2 DEF TransportInv, FollowsOwn, UnderWay
      <4> QED
        BY <4>1, <4>2 DEF FollowsOwn
    <3> QED
      BY <3>1, <3>2
  <2>12. EntriesAreLive'
    <3> SUFFICES ASSUME NEW k \in 0..MaxToken, inflightGets[k] # NoReading
                 PROVE  /\ k <= issued /\ request'[inflightGets[k]].step \in LiveSteps
                        /\ k = bearer.number /\ k # 0 => request'[inflightGets[k]].made = era
      BY <1>u, <2>1 DEF EntriesAreLive, UnderWay
    <3>1. UnderWay(inflightGets[k]) /\ inflightGets[k] \in ConsoleCalls /\ inflightGets[k] # c
      BY <1>0 DEF TransportInv, EntriesAreLive, TransportTypeOK, UnderWay, LiveSteps
    <3>2. request'[inflightGets[k]] = request[inflightGets[k]]
      BY <2>7, <3>1
    <3> QED
      BY <3>1, <3>2 DEF TransportInv, EntriesAreLive, UnderWay
  <2> QED
    BY <1>n, <1>u, <1>0, <2>8, <2>9, <2>10, <2>11, <2>12 DEF TransportInv, TokenIsOwned
<1> QED
  BY <1>3, <1>4

(* Every step of the transport keeps the invariant.                        *)
LEMMA TransportStepInv == TransportInv /\ [TransportStep]_transportVars => TransportInv'
  BY ConsoleCallKeeps, HandleKeeps, ArriveKeeps, RefusalKeeps, TimeOutKeeps, RotationKeeps, SignsKeep DEF TransportStep

(* However calls are repeated, shared, lost and late: a writing is done    *)
(* once at most, a reading shows what the console knew, and an answer is   *)
(* the caller's own.                                                       *)
THEOREM CallsAreCarriedOutOnce == TransportSpec => []TransportHolds
<1>1. TransportInv => TransportHolds
  <2> SUFFICES ASSUME TransportInv PROVE TransportHolds
    OBVIOUS
  <2>1. WritingsAreOnce
    BY DEF TransportInv, Sane, WrittenOnce, WritingsAreOnce, CallAt
  <2>2. ReadingsAreFresh
    BY DEF TransportInv, Sane, SeesEnough, ReadingsAreFresh, CallAt
  <2>3. AnswersAreOwn
    BY DEF TransportInv, Sane, SentAsCaller, Own, AnswersAreOwn, CallAt
  <2> QED
    BY <2>1, <2>2, <2>3 DEF TransportHolds
<1> QED
  BY <1>1, TransportInitInv, TransportStepInv, PTL DEF TransportSpec

----------------------------------------------------------------------------
(* The cart page.                                                          *)

PageCallKinds == {"none", "get", "add", "update", "remove", "clear", "merge"}
PageCalls == [kind : PageCallKinds, of : Identities, units : Nat, at : {"none", "sent", "served"}, answer : Nat,
              older : SUBSET Calls, overtaken : BOOLEAN]

BasketTypes ==
    /\ who \in Identities /\ token \in {"none", "good"} /\ held \in [Identities -> Nat]
    /\ call \in [Calls -> PageCalls]
    /\ applied \subseteq [of : Identities, units : Nat] /\ \A s, t \in applied : s = t
    /\ overlay \subseteq Nat /\ voucher \subseteq Nat /\ quote \subseteq Nat /\ asked \subseteq Nat
    /\ strayed \in BOOLEAN

ServedCall(c) == call[c].at = "served"
Latest(c) == ~call[c].overtaken /\ \A d \in Calls : ServedCall(d) => c \notin call[d].older

(* The answer of the call that was served last is the cart.                *)
AnswersKnow ==
    /\ \A c \in Calls : \A d \in call[c].older : ServedCall(d) /\ d # c
    /\ \A c \in Calls : call[c].at # "none" => call[c].kind # "none"
    /\ \A c \in Calls : ServedCall(c) /\ Latest(c) => call[c].answer = held[call[c].of]

(* The quotation under way is for the cart that is shown.                  *)
QuoteFits ==
    applied # {} =>
        /\ quote \subseteq {ShownUnits}
        /\ ShownUnits > 0 /\ quote = {} => voucher \in {{}, {ShownUnits}}

BasketInv == BasketTypes /\ AnswersKnow /\ QuoteFits /\ PageShowsCart

----
LEMMA NoCallFact == NoCall \in PageCalls /\ NoCall.at = "none" /\ NoCall.older = {} /\ NoCall.kind = "none"
  BY DEF NoCall, PageCalls, PageCallKinds, Identities

LEMMA SentFact ==
    ASSUME NEW kind \in PageCallKinds \ {"none"}, NEW i \in Identities, NEW n \in Nat
    PROVE  /\ Sent(kind, i, n) \in PageCalls /\ Sent(kind, i, n).at = "sent" /\ Sent(kind, i, n).older = {}
           /\ Sent(kind, i, n) # NoCall
           /\ Sent(kind, i, n).kind # "none"
  BY NoCallFact DEF Sent, NoCall, PageCalls

LEMMA ReachedFact == Reached \in Identities
  BY DEF Reached, Identities

(* What is shown of a single applied cart.                                 *)
LEMMA ShownFact ==
    ASSUME BasketTypes
    PROVE  /\ ShownUnits \in Nat
           /\ \A s \in applied : ShownUnits = s.units
<1>1. CASE applied = {}
  BY <1>1 DEF ShownUnits
<1>2. CASE applied # {}
  <2>1. PICK s \in applied : TRUE
    BY <1>2
  <2>2. (CHOOSE x \in applied : TRUE) \in applied
    BY <2>1
  <2>3. (CHOOSE x \in applied : TRUE) = s
    BY <2>1, <2>2 DEF BasketTypes
  <2>4. ShownUnits = s.units
    BY <1>2, <2>3 DEF ShownUnits
  <2> QED
    BY <2>1, <2>4 DEF BasketTypes
<1> QED
  BY <1>1, <1>2

LEMMA SeenFact == ASSUME BasketTypes PROVE SeenUnits \in Nat
<1>1. CASE overlay = {}
  BY <1>1, ShownFact DEF SeenUnits
<1>2. CASE overlay # {}
  <2>1. PICK n \in overlay : TRUE
    BY <1>2
  <2>2. (CHOOSE x \in overlay : TRUE) \in overlay
    BY <2>1
  <2> QED
    BY <1>2, <2>2 DEF SeenUnits, BasketTypes
<1> QED
  BY <1>1, <1>2

LEMMA BasketInitInv == BasketInit => BasketInv
<1> SUFFICES ASSUME BasketInit PROVE BasketInv
  OBVIOUS
<1>0. who \in Identities /\ token = "none" /\ held \in [Identities -> Nat] /\ applied = {} /\ overlay = {} /\ quote = {} /\ asked = {}
      /\ voucher \subseteq Nat /\ strayed = FALSE
  BY DEF BasketInit
<1> DEFINE first == Sent("get", "guest", 0)
           second == Sent(IF who = "guest" THEN "get" ELSE "merge", "guest", 0)
<1>1. /\ first \in PageCalls /\ first.at = "sent" /\ first.older = {} /\ first # NoCall
      /\ first.kind # "none" /\ second.kind # "none"
      /\ second \in PageCalls /\ second.at = "sent" /\ second.older = {}
  BY SentFact DEF PageCallKinds, Identities
<1>2. call = [c \in Calls |-> CASE c = 1 -> first [] c = 2 -> second [] OTHER -> NoCall]
  BY DEF BasketInit
<1> HIDE DEF first, second
<1>3. \A c \in Calls : call[c] \in PageCalls /\ call[c].older = {} /\ ~ServedCall(c)
                       /\ (call[c].at # "none" => call[c].kind # "none")
  BY <1>1, <1>2, NoCallFact DEF ServedCall
<1>4. 1 \in Calls /\ call[1] = first
  BY <1>2, CartPageAssumption DEF Calls
<1>5. call \in [Calls -> PageCalls]
  BY <1>2, <1>3
<1>6. BasketTypes
  BY <1>0, <1>5 DEF BasketTypes
<1>7. AnswersKnow
  BY <1>3 DEF AnswersKnow
<1>8. PageShowsCart
  BY <1>1, <1>4 DEF PageShowsCart, AtRest, Free
<1> QED
  BY <1>0, <1>6, <1>7, <1>8 DEF BasketInv, QuoteFits

----
(* A call is sent from a free place.                                       *)
LEMMA SendingKeeps ==
    ASSUME BasketTypes, AnswersKnow, NEW c \in Calls, Free(c), NEW r \in PageCalls, r.at = "sent", r.older = {},
           r # NoCall, r.kind # "none", call' = [call EXCEPT ![c] = r], held' = held
    PROVE  call' \in [Calls -> PageCalls] /\ AnswersKnow' /\ ~AtRest'
<1>1. /\ call' \in [Calls -> PageCalls] /\ call'[c] = r /\ \A d \in Calls \ {c} : call'[d] = call[d]
  BY DEF BasketTypes
<1>2. ~ServedCall(c) /\ ~ServedCall(c)'
  BY <1>1, NoCallFact DEF ServedCall, Free
<1>3. \A d \in Calls : \A e \in call'[d].older : ServedCall(e)' /\ e # d
  BY <1>1, <1>2 DEF AnswersKnow, ServedCall, BasketTypes, PageCalls
<1>4. \A d \in Calls : ServedCall(d)' /\ Latest(d)' => call'[d].answer = held'[call'[d].of]
  BY <1>1, <1>2 DEF AnswersKnow, ServedCall, Latest
<1>5. \A d \in Calls : call'[d].at # "none" => call'[d].kind # "none"
  BY <1>1 DEF AnswersKnow
<1> QED
  BY <1>1, <1>3, <1>4, <1>5 DEF AnswersKnow, AtRest, Free

(* A call ends, and another may be sent in its place.                      *)
LEMMA FinishingKeeps ==
    ASSUME BasketTypes, AnswersKnow, NEW c \in Calls, NEW r \in PageCalls, r.at # "served", r.older = {},
           r.at # "none" => r.kind # "none",
           \A d \in Calls \ {c} : call'[d] = Finished(c)[d], call'[c] = r, DOMAIN call' = Calls,
           call' = [d \in Calls |-> call'[d]], held' = held
    PROVE  call' \in [Calls -> PageCalls] /\ AnswersKnow'
<1> DEFINE after(d) == [call[d] EXCEPT !.overtaken = @ \/ d \in call[c].older, !.older = @ \ {c}]
<1>1. ASSUME NEW d \in Calls \ {c}
      PROVE  /\ call'[d] = after(d)
             /\ after(d) \in PageCalls /\ after(d).at = call[d].at /\ after(d).answer = call[d].answer
             /\ after(d).of = call[d].of /\ after(d).kind = call[d].kind /\ after(d).older = call[d].older \ {c}
             /\ after(d).overtaken <=> call[d].overtaken \/ d \in call[c].older
  <2>1. call[d] \in PageCalls
    BY DEF BasketTypes
  <2>2. call'[d] = after(d)
    BY DEF Finished
  <2> QED
    BY <2>1, <2>2 DEF PageCalls
<1> HIDE DEF after
<1>2. \A d \in Calls : call'[d] \in PageCalls
  BY <1>1
<1>3. call' \in [Calls -> PageCalls]
  BY <1>2
<1>4. \A d \in Calls : ServedCall(d)' => d # c /\ ServedCall(d)
  BY <1>1 DEF ServedCall
<1>5. ASSUME NEW d \in Calls, NEW e \in call'[d].older
      PROVE  ServedCall(e)' /\ e # d
  <2>1. d # c /\ e \in call[d].older /\ e # c /\ e \in Calls
    BY <1>1, <1>5 DEF BasketTypes, PageCalls
  <2>2. ServedCall(e) /\ e # d
    BY <2>1 DEF AnswersKnow
  <2> QED
    BY <1>1, <2>1, <2>2 DEF ServedCall
<1>6. ASSUME NEW d \in Calls, ServedCall(d)', Latest(d)'
      PROVE  call'[d].answer = held'[call'[d].of]
  <2>1. d # c /\ ServedCall(d) /\ call'[d].answer = call[d].answer /\ call'[d].of = call[d].of
    BY <1>1, <1>4, <1>6
  <2>2. ~call[d].overtaken /\ d \notin call[c].older
    BY <1>1, <1>6, <2>1 DEF Latest
  <2>3. ASSUME NEW e \in Calls, ServedCall(e) PROVE d \notin call[e].older
    <3>1. CASE e = c
      BY <2>2, <3>1
    <3>2. CASE e # c
      <4>1. ServedCall(e)' /\ call'[e].older = call[e].older \ {c}
        BY <1>1, <2>3, <3>2 DEF ServedCall
      <4> QED
        BY <1>6, <2>1, <4>1 DEF Latest
    <3> QED
      BY <3>1, <3>2
  <2> QED
    BY <2>1, <2>2, <2>3 DEF AnswersKnow, Latest
<1>7. \A d \in Calls : call'[d].at # "none" => call'[d].kind # "none"
  BY <1>1 DEF AnswersKnow
<1> QED
  BY <1>3, <1>5, <1>6, <1>7 DEF AnswersKnow

LEMMA FinishedFact ==
    ASSUME NEW c \in Calls
    PROVE  /\ Finished(c)[c] = NoCall
           /\ DOMAIN Finished(c) = Calls /\ Finished(c) = [d \in Calls |-> Finished(c)[d]]
  BY DEF Finished

----
(* What the customer does.                                                 *)
LEMMA MutateKeeps ==
    ASSUME BasketInv, NEW c \in Calls, NEW kind \in PageCallKinds \ {"none"}, NEW n \in Nat, NEW seen \in Nat,
           Mutate(c, kind, n, seen), UNCHANGED <<voucher, quote>> \/ (voucher' = {} /\ quote' = {})
    PROVE  BasketInv'
<1>0. BasketTypes /\ AnswersKnow /\ QuoteFits
  BY DEF BasketInv
<1>1. /\ Free(c) /\ overlay' = {seen} /\ call' = [call EXCEPT ![c] = Sent(kind, Reached, n)]
      /\ UNCHANGED <<who, token, held, applied, asked, strayed>>
  BY DEF Mutate, FirstFree
<1>2. call' \in [Calls -> PageCalls] /\ AnswersKnow' /\ ~AtRest'
  <2> DEFINE r == Sent(kind, Reached, n)
  <2>1. r \in PageCalls /\ r.at = "sent" /\ r.older = {} /\ r # NoCall /\ r.kind # "none"
    BY ReachedFact, SentFact
  <2> HIDE DEF r
  <2>2. call' = [call EXCEPT ![c] = r] /\ held' = held
    BY <1>1 DEF r
  <2> QED
    BY <1>0, <1>1, <2>1, <2>2, SendingKeeps
<1>3. BasketTypes'
  BY <1>0, <1>1, <1>2 DEF BasketTypes
<1>4. QuoteFits'
  BY <1>0, <1>1 DEF QuoteFits, ShownUnits
<1> QED
  BY <1>2, <1>3, <1>4 DEF BasketInv, PageShowsCart

LEMMA CustomerKeeps ==
    ASSUME BasketInv, NEW c \in Calls,
           Add(c) \/ RemoveLine(c) \/ Clear(c) \/ \E n \in 0..MaxLine : UpdateQuantity(c, n)
    PROVE  BasketInv'
<1>0. SeenUnits \in Nat /\ MaxLine \in Nat
  BY SeenFact, CartPageAssumption DEF BasketInv
<1>1. CASE Add(c)
  <2> DEFINE seen == IF SeenUnits < MaxLine THEN SeenUnits + 1 ELSE MaxLine
  <2>1. seen \in Nat /\ "add" \in PageCallKinds \ {"none"} /\ 1 \in Nat
    BY <1>0 DEF PageCallKinds
  <2>2. Mutate(c, "add", 1, seen) /\ UNCHANGED <<voucher, quote>>
    BY <1>1 DEF Add
  <2> HIDE DEF seen
  <2> QED
    BY <2>1, <2>2, MutateKeeps
<1>2. CASE RemoveLine(c)
  BY <1>2, MutateKeeps DEF RemoveLine, PageCallKinds
<1>3. CASE Clear(c)
  BY <1>3, MutateKeeps DEF Clear, PageCallKinds
<1>4. ASSUME NEW n \in 0..MaxLine, UpdateQuantity(c, n) PROVE BasketInv'
  <2>1. n \in Nat /\ "update" \in PageCallKinds \ {"none"}
    BY <1>0 DEF PageCallKinds
  <2>2. Mutate(c, "update", n, n) /\ UNCHANGED <<voucher, quote>>
    BY <1>4 DEF UpdateQuantity
  <2> QED
    BY <2>1, <2>2, MutateKeeps
<1> QED
  BY <1>1, <1>2, <1>3, <1>4

LEMMA IdentityKeeps ==
    ASSUME BasketInv, NEW c \in Calls, SwitchIdentity(c)
    PROVE  BasketInv'
<1>0. BasketTypes /\ AnswersKnow /\ QuoteFits
  BY DEF BasketInv
<1> DEFINE r == Sent(IF who = "guest" THEN "merge" ELSE "get", who', 0)
<1>1. /\ Free(c) /\ who' \in Identities /\ token' \in {"none", "good"} /\ call' = [call EXCEPT ![c] = r]
      /\ UNCHANGED <<held, applied, overlay, voucher, quote, asked, strayed>>
  BY DEF SwitchIdentity, FirstFree, Identities
<1>2. r \in PageCalls /\ r.at = "sent" /\ r.older = {} /\ r # NoCall /\ r.kind # "none"
  BY <1>1, SentFact DEF PageCallKinds
<1> HIDE DEF r
<1>3. call' \in [Calls -> PageCalls] /\ AnswersKnow' /\ ~AtRest'
  BY <1>0, <1>1, <1>2, SendingKeeps
<1>4. BasketTypes' /\ QuoteFits'
  BY <1>0, <1>1, <1>3 DEF BasketTypes, QuoteFits, ShownUnits
<1> QED
  BY <1>3, <1>4 DEF BasketInv, PageShowsCart

(* The token comes and goes.                                               *)
LEMMA AccessKeeps == ASSUME BasketInv, AccessLapses \/ AccessRestored PROVE BasketInv'
<1>1. /\ token' \in {"none", "good"}
      /\ UNCHANGED <<who, held, applied, overlay, call, voucher, quote, asked, strayed>>
  BY DEF AccessLapses, AccessRestored
<1> QED
  BY <1>1 DEF BasketInv, BasketTypes, AnswersKnow, QuoteFits, PageShowsCart, ServedCall, Latest, ShownUnits, AtRest, Free

----
(* What the server does.                                                   *)
LEMMA ServeKeeps ==
    ASSUME BasketInv, NEW c \in Calls, Serve(c)
    PROVE  BasketInv'
<1>0. BasketTypes /\ AnswersKnow /\ QuoteFits /\ call[c] \in PageCalls /\ held \in [Identities -> Nat]
  BY DEF BasketInv, BasketTypes
<1> DEFINE k == call[c]
           e == Effect(k)
           r == [call[c] EXCEPT !.at = "served", !.answer = e[k.of],
                                !.older = {d \in Calls \ {c} : call[d].at = "served"}]
<1>1. k.at = "sent" /\ held' = e /\ UNCHANGED <<who, token, applied, overlay, voucher, quote, asked, strayed>>
  BY DEF Serve
<1>2. e \in [Identities -> Nat]
  <2>0. k.kind \in PageCallKinds \ {"none"}
    BY <1>0, <1>1 DEF AnswersKnow, PageCalls
  <2>1. k.of \in Identities /\ k.units \in Nat
    BY <1>0 DEF PageCalls
  <2>2. held["guest"] \in Nat /\ held["customer"] \in Nat /\ MaxLine \in Nat
    BY <1>0, CartPageAssumption DEF Identities
  <2>3. UpToCap(held.guest + held.customer) \in Nat
    BY <2>2 DEF UpToCap
  <2>4. k.kind = "merge" => e \in [Identities -> Nat]
    BY <2>3 DEF Effect, Identities
  <2>5. k.kind = "add" => e \in [Identities -> Nat]
    <3>1. held[k.of] + k.units \in Nat
      BY <1>0, <2>1
    <3> QED
      BY <1>0, <2>1, <3>1 DEF Effect
  <2> HIDE DEF k
  <2> QED
    BY <1>0, <2>0, <2>1, <2>4, <2>5 DEF Effect, PageCallKinds
<1>3. call' = [call EXCEPT ![c] = r]
  BY <1>0 DEF Serve, BasketTypes, PageCalls
<1>4. /\ r \in PageCalls /\ r.at = "served" /\ r.of = k.of /\ r.kind = k.kind /\ r.answer = e[k.of]
      /\ r.older = {d \in Calls \ {c} : call[d].at = "served"}
  <2>1. k.of \in Identities /\ e[k.of] \in Nat
    BY <1>0, <1>2 DEF PageCalls
  <2> HIDE DEF e
  <2> QED
    BY <1>0, <2>1 DEF PageCalls
<1> HIDE DEF r, e
<1>5. call'[c] = r /\ (\A d \in Calls \ {c} : call'[d] = call[d]) /\ call' \in [Calls -> PageCalls]
  BY <1>0, <1>3, <1>4 DEF BasketTypes
<1>6. BasketTypes'
  BY <1>0, <1>1, <1>2, <1>5 DEF BasketTypes
<1>7. AnswersKnow'
  <2>1. ASSUME NEW d \in Calls, NEW o \in call'[d].older PROVE ServedCall(o)' /\ o # d
    <3>1. CASE d = c
      BY <1>4, <1>5, <2>1, <3>1 DEF ServedCall
    <3>2. CASE d # c
      <4>1. o \in call[d].older /\ o \in Calls /\ ServedCall(o) /\ o # d
        BY <1>0, <1>5, <2>1, <3>2 DEF AnswersKnow, BasketTypes, PageCalls
      <4> QED
        BY <1>1, <1>5, <4>1 DEF ServedCall
    <3> QED
      BY <3>1, <3>2
  <2>2. \A d \in Calls : call'[d].at # "none" => call'[d].kind # "none"
    BY <1>0, <1>1, <1>4, <1>5 DEF AnswersKnow
  <2>3. ASSUME NEW d \in Calls, ServedCall(d)', Latest(d)' PROVE call'[d].answer = held'[call'[d].of]
    <3>1. d = c
      BY <1>4, <1>5, <2>3 DEF Latest, ServedCall
    <3> QED
      BY <1>1, <1>4, <1>5, <3>1
  <2> QED
    BY <2>1, <2>2, <2>3 DEF AnswersKnow
<1>8. QuoteFits'
  BY <1>0, <1>1 DEF QuoteFits, ShownUnits
<1>9. PageShowsCart'
  BY <1>4, <1>5, NoCallFact DEF PageShowsCart, AtRest, Free
<1> QED
  BY <1>6, <1>7, <1>8, <1>9 DEF BasketInv

----
(* What the page makes of answers.                                         *)
LEMMA ApplyKeeps ==
    ASSUME BasketInv, NEW c \in Calls, ApplyServer(c)
    PROVE  BasketInv'
<1>0. BasketTypes /\ AnswersKnow /\ QuoteFits /\ call[c] \in PageCalls
  BY DEF BasketInv, BasketTypes
<1> DEFINE k == call[c]
<1>1. /\ ServedCall(c) /\ applied' = {[of |-> k.of, units |-> k.answer]} /\ overlay' = {}
      /\ strayed' = (k.overtaken \/ k.of # who) /\ call' = Finished(c)
      /\ Requotes(k.answer, voucher) /\ UNCHANGED <<who, token, held, voucher, asked>>
  BY DEF ApplyServer, ServedCall
<1>2. call' \in [Calls -> PageCalls] /\ AnswersKnow'
  <2>1. /\ \A d \in Calls \ {c} : call'[d] = Finished(c)[d]
        /\ call'[c] = NoCall /\ DOMAIN call' = Calls /\ call' = [d \in Calls |-> call'[d]]
    BY <1>1, FinishedFact
  <2> QED
    BY <1>0, <1>1, <2>1, NoCallFact, FinishingKeeps
<1>3. k.answer \in Nat /\ k.of \in Identities /\ k.overtaken \in BOOLEAN
  BY <1>0 DEF PageCalls
<1>4. quote' \subseteq {k.answer} /\ quote' \subseteq Nat
  BY <1>1, <1>3 DEF Requotes
<1>5. BasketTypes'
  <2>1. strayed' \in BOOLEAN
    BY <1>1, <1>3
  <2>2. applied' \subseteq [of : Identities, units : Nat] /\ \A s, t \in applied' : s = t
    BY <1>1, <1>3
  <2> QED
    BY <1>0, <1>1, <1>2, <1>4, <2>1, <2>2 DEF BasketTypes
<1>6. ShownUnits' = k.answer
  <2>1. [of |-> k.of, units |-> k.answer] \in applied'
    BY <1>1
  <2>2. \A s \in applied' : s.units = k.answer
    BY <1>1
  <2>3. (CHOOSE x \in applied' : TRUE) \in applied'
    BY <2>1
  <2> HIDE DEF k
  <2> QED
    BY <2>1, <2>2, <2>3 DEF ShownUnits
<1>7. QuoteFits'
  <2>1. ASSUME k.answer > 0, quote' = {} PROVE voucher' \in {{}, {k.answer}}
    BY <1>1, <1>3, <2>1 DEF Requotes
  <2> QED
    BY <1>4, <1>6, <2>1 DEF QuoteFits
<1>8. PageShowsCart'
  <2> SUFFICES ASSUME AtRest', ~strayed'
               PROVE  overlay' = {} /\ applied' = {[of |-> who', units |-> held'[who']]}
    BY DEF PageShowsCart
  <2>1. k.of = who /\ ~k.overtaken
    BY <1>1, <1>3
  <2>2. ASSUME NEW d \in Calls, ServedCall(d), c \in call[d].older PROVE FALSE
    <3>1. d # c
      BY <1>0, <2>2 DEF AnswersKnow
    <3>2. call'[d] = NoCall
      BY DEF AtRest, Free
    <3>3. call'[d] = [call[d] EXCEPT !.overtaken = @ \/ d \in call[c].older, !.older = @ \ {c}]
      BY <1>1, <3>1 DEF Finished
    <3>4. call[d] \in PageCalls
      BY <1>0 DEF BasketTypes
    <3>5. call'[d].at = call[d].at
      BY <3>3, <3>4 DEF PageCalls
    <3> QED
      BY <2>2, <3>2, <3>5, NoCallFact DEF ServedCall
  <2>3. k.answer = held[k.of]
    BY <1>0, <1>1, <2>1, <2>2 DEF AnswersKnow, Latest
  <2> QED
    BY <1>1, <2>1, <2>3
<1> QED
  BY <1>2, <1>5, <1>7, <1>8 DEF BasketInv

LEMMA FailsKeeps ==
    ASSUME BasketInv, NEW c \in Calls, Fails(c)
    PROVE  BasketInv'
<1>0. BasketTypes /\ AnswersKnow /\ QuoteFits /\ call[c] \in PageCalls /\ strayed \in BOOLEAN
  BY DEF BasketInv, BasketTypes
<1>1. UNCHANGED <<who, token, held, applied, overlay, voucher, quote, asked>>
  BY DEF Fails
<1>2. QuoteFits'
  BY <1>0, <1>1 DEF QuoteFits, ShownUnits
<1>3. CASE Reconciles(call[c].kind)
  <2> DEFINE r == Sent("get", Reached, 0)
  <2>1. call' = [Finished(c) EXCEPT ![c] = r] /\ strayed' = strayed
    BY <1>3 DEF Fails
  <2>2. r \in PageCalls /\ r.at = "sent" /\ r.older = {} /\ r # NoCall /\ r.kind # "none"
    BY ReachedFact, SentFact DEF PageCallKinds
  <2> HIDE DEF r
  <2>3. /\ \A d \in Calls \ {c} : call'[d] = Finished(c)[d]
        /\ call'[c] = r /\ DOMAIN call' = Calls /\ call' = [d \in Calls |-> call'[d]]
    BY <2>1, FinishedFact
  <2>4. call' \in [Calls -> PageCalls] /\ AnswersKnow'
    BY <1>0, <1>1, <2>2, <2>3, FinishingKeeps
  <2>5. PageShowsCart'
    BY <2>2, <2>3 DEF PageShowsCart, AtRest, Free
  <2>6. BasketTypes'
    BY <1>0, <1>1, <2>1, <2>4 DEF BasketTypes
  <2> QED
    BY <1>2, <2>4, <2>5, <2>6 DEF BasketInv
<1>4. CASE ~Reconciles(call[c].kind)
  <2>1. call' = Finished(c) /\ strayed' = TRUE
    BY <1>4 DEF Fails, Reconciles
  <2>2. call' \in [Calls -> PageCalls] /\ AnswersKnow'
    <3>1. /\ \A d \in Calls \ {c} : call'[d] = Finished(c)[d]
          /\ call'[c] = NoCall /\ DOMAIN call' = Calls /\ call' = [d \in Calls |-> call'[d]]
      BY <2>1, FinishedFact
    <3> QED
      BY <1>0, <1>1, <3>1, NoCallFact, FinishingKeeps
  <2>3. BasketTypes'
    BY <1>0, <1>1, <2>1, <2>2 DEF BasketTypes
  <2> QED
    BY <1>2, <2>1, <2>2, <2>3 DEF BasketInv, PageShowsCart
<1> QED
  BY <1>3, <1>4

(* The coupon.                                                             *)
LEMMA CouponKeeps ==
    ASSUME BasketInv, QuoteArrives \/ ApplyCoupon \/ CouponArrives \/ RemoveCoupon
    PROVE  BasketInv'
<1>0. BasketTypes /\ AnswersKnow /\ QuoteFits /\ ShownUnits \in Nat /\ SeenUnits \in Nat
  BY ShownFact, SeenFact DEF BasketInv
<1>1. UNCHANGED <<who, token, held, applied, overlay, call, strayed>>
  BY DEF QuoteArrives, ApplyCoupon, CouponArrives, RemoveCoupon
<1>2. AnswersKnow' /\ PageShowsCart' /\ ShownUnits' = ShownUnits
  BY <1>0, <1>1 DEF AnswersKnow, ServedCall, Latest, PageShowsCart, AtRest, Free, ShownUnits, BasketInv
<1>3. CASE QuoteArrives
  <2>1. PICK new \in {{}} \cup {{n} : n \in {m \in quote : m >= QuotedFrom}} :
            /\ voucher' = new
            /\ IF new \in {voucher, {}} THEN quote' = {} ELSE Requotes(ShownUnits, new)
    BY <1>3 DEF QuoteArrives
  <2>2. new \subseteq quote /\ asked' = asked
    BY <1>3 DEF QuoteArrives
  <2>3. quote' \subseteq {ShownUnits} /\ quote' \subseteq Nat
    BY <1>0, <2>1 DEF Requotes
  <2>4. BasketTypes'
    BY <1>0, <1>1, <2>1, <2>2, <2>3 DEF BasketTypes
  <2>5. QuoteFits'
    <3>1. ASSUME applied # {} PROVE voucher' \in {{}, {ShownUnits}}
      BY <1>0, <2>1, <2>2, <3>1 DEF QuoteFits
    <3> QED
      BY <1>1, <1>2, <2>3, <3>1 DEF QuoteFits
  <2> QED
    BY <1>2, <2>4, <2>5 DEF BasketInv
<1>4. CASE ApplyCoupon
  <2>1. asked' = {SeenUnits} /\ UNCHANGED <<voucher, quote>>
    BY <1>4 DEF ApplyCoupon
  <2> QED
    BY <1>0, <1>1, <1>2, <2>1 DEF BasketTypes, QuoteFits, BasketInv
<1>5. CASE CouponArrives
  <2>1. asked' = {} /\ asked # {}
    BY <1>5 DEF CouponArrives
  <2>2. CASE UNCHANGED <<voucher, quote>>
    BY <1>0, <1>1, <1>2, <2>1, <2>2 DEF BasketTypes, QuoteFits, BasketInv
  <2>3. CASE voucher' = asked /\ applied = {} /\ UNCHANGED quote
    BY <1>0, <1>1, <1>2, <2>1, <2>3 DEF BasketTypes, QuoteFits, BasketInv
  <2>4. CASE voucher' = asked /\ applied # {} /\ Requotes(ShownUnits, asked)
    <3>1. quote' \subseteq {ShownUnits} /\ quote' \subseteq Nat /\ (ShownUnits > 0 => quote' # {})
      BY <1>0, <2>1, <2>4 DEF Requotes
    <3> QED
      BY <1>0, <1>1, <1>2, <2>1, <2>4, <3>1 DEF BasketTypes, QuoteFits, BasketInv
  <2> QED
    BY <1>5, <2>2, <2>3, <2>4 DEF CouponArrives
<1>6. CASE RemoveCoupon
  <2>1. voucher' = {} /\ quote' = {} /\ asked' = asked
    BY <1>6 DEF RemoveCoupon
  <2> QED
    BY <1>0, <1>1, <1>2, <2>1 DEF BasketTypes, QuoteFits, BasketInv
<1> QED
  BY <1>3, <1>4, <1>5, <1>6

LEMMA BasketStepInv == BasketInv /\ [BasketStep]_basketVars => BasketInv'
<1> SUFFICES ASSUME BasketInv, [BasketStep]_basketVars PROVE BasketInv'
  OBVIOUS
<1>1. ASSUME UNCHANGED basketVars PROVE BasketInv'
  BY <1>1 DEF basketVars, BasketInv, BasketTypes, AnswersKnow, QuoteFits, PageShowsCart, ServedCall, Latest,
              ShownUnits, AtRest, Free
<1> QED
  BY <1>1, CustomerKeeps, IdentityKeeps, AccessKeeps, ServeKeeps, ApplyKeeps, FailsKeeps, CouponKeeps DEF BasketStep

(* However many calls overlap, are refused and lost, an idle page shows    *)
(* the cart, and subtracts a coupon as quoted for it, for any number of    *)
(* calls, any cap of a line and any threshold of the coupon.               *)
THEOREM BasketsAreShown == BasketSpec => []BasketHolds
<1>1. BasketInv => BasketHolds
  BY DEF BasketInv, BasketHolds, QuoteFits, CouponFitsCart
<1> QED
  BY <1>1, BasketInitInv, BasketStepInv, PTL DEF BasketSpec

----------------------------------------------------------------------------
(* The promotions.                                                         *)

(* A shopper has at most one notice more than were deleted, and then it is *)
(* in the inbox.                                                           *)
NoticesAreCounted ==
    /\ told \in [Shoppers -> Nat] /\ removed \in [Shoppers -> Nat]
    /\ \A u \in Shoppers : told[u] <= (IF u \in inbox THEN 1 ELSE 0) + removed[u]

RowFields == {"state", "kind", "large", "start", "end", "live"}

PromoSteps == {"idle", "update", "announce", "tell"}
PromoRecords == [step : PromoSteps, patch : Patches \cup {NoPatch}, stale : BOOLEAN,
                 to : SUBSET Shoppers, looked : SUBSET Shoppers]

(* An update that nothing has overtaken still makes a sound row.           *)
UpdatesAreJudged ==
    /\ DOMAIN campaign = RowFields
    /\ misjudged \in BOOLEAN /\ reachable \subseteq Shoppers
    /\ promoReq \in [PromoRequests -> PromoRecords]
    /\ Exists /\ ~misjudged => Sound(campaign)
    /\ \A q \in PromoRequests :
        AtDesk(q, "update") /\ ~promoReq[q].stale /\ Exists => Sound(Patched(campaign, promoReq[q].patch))

CampaignInv == NoticesAreCounted /\ UpdatesAreJudged

LEMMA PromoIdleFact == PromoIdle \in PromoRecords /\ PromoIdle.step = "idle" /\ PromoIdle.stale = FALSE
  BY DEF PromoIdle, PromoRecords, PromoSteps

(* A step of a request that neither writes the row nor begins an update.   *)
LEMMA QuietPromo ==
    ASSUME UpdatesAreJudged, UNCHANGED <<campaign, misjudged>>, reachable' \subseteq Shoppers,
           NEW q \in PromoRequests, NEW r \in PromoRecords, promoReq' = [promoReq EXCEPT ![q] = r],
           r.step # "update"
    PROVE  UpdatesAreJudged'
<1>1. promoReq' \in [PromoRequests -> PromoRecords]
  BY DEF UpdatesAreJudged
<1>2. \A o \in PromoRequests : AtDesk(o, "update")' => promoReq'[o] = promoReq[o]
  BY DEF UpdatesAreJudged, AtDesk
<1> QED
  BY <1>1, <1>2 DEF UpdatesAreJudged, Exists, AtDesk, Sound, Patched

(* Writing the row leaves no update in force.                              *)
LEMMA WritesFact ==
    ASSUME UpdatesAreJudged, NEW q \in PromoRequests, NEW stored, NEW next \in {"idle", "announce"},
           Writes(q, stored, next), DOMAIN stored = RowFields, misjudged' \in BOOLEAN,
           stored.state = "row" /\ ~misjudged' => Sound(stored)
    PROVE  UpdatesAreJudged'
<1>1. campaign' = stored /\ reachable' = reachable
  BY DEF Writes
<1>2. \A o \in PromoRequests : promoReq'[o] \in PromoRecords /\ (AtDesk(o, "update")' => promoReq'[o].stale = TRUE)
  <2> SUFFICES ASSUME NEW o \in PromoRequests
               PROVE  promoReq'[o] \in PromoRecords /\ (AtDesk(o, "update")' => promoReq'[o].stale = TRUE)
    OBVIOUS
  <2>1. CASE o = q
    <3>1. promoReq'[o] = [PromoIdle EXCEPT !.step = next]
      BY <2>1 DEF Writes
    <3> QED
      BY <3>1, PromoIdleFact DEF AtDesk, PromoRecords, PromoSteps
  <2>2. CASE o # q /\ AtDesk(o, "update")
    <3>1. promoReq'[o] = [promoReq[o] EXCEPT !.stale = TRUE]
      BY <2>2 DEF Writes
    <3> QED
      BY <3>1 DEF UpdatesAreJudged, PromoRecords
  <2>3. CASE o # q /\ ~AtDesk(o, "update")
    <3>1. promoReq'[o] = promoReq[o]
      BY <2>3 DEF Writes
    <3> QED
      BY <2>3, <3>1 DEF UpdatesAreJudged, AtDesk
  <2> QED
    BY <2>1, <2>2, <2>3
<1>3. promoReq' \in [PromoRequests -> PromoRecords]
  BY <1>2 DEF Writes
<1> QED
  BY <1>1, <1>2, <1>3 DEF UpdatesAreJudged, Exists, Sound

LEMMA CampaignInitInv == CampaignInit => CampaignInv
<1> SUFFICES ASSUME CampaignInit PROVE CampaignInv
  OBVIOUS
<1>1. NoticesAreCounted
  BY DEF CampaignInit, NoticesAreCounted
<1>2. UpdatesAreJudged
  BY PromoIdleFact DEF CampaignInit, UpdatesAreJudged, RowFields, Exists, AtDesk
<1> QED
  BY <1>1, <1>2 DEF CampaignInv

(* The desk: creating, ...                                                 *)
LEMMA CreateKeeps ==
    ASSUME UpdatesAreJudged, NEW q \in PromoRequests, NEW f \in Fields, CreatePromotion(q, f)
    PROVE  UpdatesAreJudged'
  BY WritesFact DEF CreatePromotion, Fields, RowFields, After, UpdatesAreJudged

(* ... judging an update, ...                                              *)
LEMMA LookKeeps ==
    ASSUME UpdatesAreJudged, NEW q \in PromoRequests, NEW patch \in Patches, PatchLook(q, patch)
    PROVE  UpdatesAreJudged'
<1> DEFINE new == [PromoIdle EXCEPT !.step = "update", !.patch = patch]
<1>1. new.step = "update" /\ new.patch = patch /\ new.stale = FALSE /\ new \in PromoRecords
  BY PromoIdleFact DEF PromoRecords, PromoSteps
<1>2. /\ promoReq' = [promoReq EXCEPT ![q] = new] /\ UNCHANGED <<campaign, misjudged, reachable>>
      /\ Sound(Patched(campaign, patch))
  BY DEF PatchLook, Acceptable
<1> HIDE DEF new
<1>3. /\ promoReq' \in [PromoRequests -> PromoRecords] /\ promoReq'[q] = new
      /\ \A o \in PromoRequests \ {q} : promoReq'[o] = promoReq[o]
  BY <1>1, <1>2 DEF UpdatesAreJudged
<1>4. ASSUME NEW o \in PromoRequests, AtDesk(o, "update")', ~promoReq'[o].stale, Exists
      PROVE  Sound(Patched(campaign, promoReq'[o].patch))
  <2>1. CASE o = q
    BY <1>1, <1>2, <1>3, <2>1
  <2>2. CASE o # q
    BY <1>3, <1>4, <2>2 DEF UpdatesAreJudged, AtDesk
  <2> QED
    BY <2>1, <2>2
<1> QED
  BY <1>2, <1>3, <1>4 DEF UpdatesAreJudged, Exists, AtDesk, Sound, Patched

(* ... writing one, ...                                                    *)
LEMMA PatchKeeps ==
    ASSUME UpdatesAreJudged, NEW q \in PromoRequests, PatchWrite(q)
    PROVE  UpdatesAreJudged'
<1> DEFINE stored == Patched(campaign, promoReq[q].patch)
<1>1. DOMAIN stored = RowFields
  BY DEF Patched, UpdatesAreJudged
<1>2. promoReq[q].stale \in BOOLEAN /\ misjudged \in BOOLEAN
  BY DEF UpdatesAreJudged, PromoRecords
<1>3. misjudged' = (misjudged \/ promoReq[q].stale)
  BY DEF PatchWrite
<1>4. ~misjudged' => Sound(stored)
  BY <1>3 DEF PatchWrite, UpdatesAreJudged
<1>5. Writes(q, stored, "idle") /\ misjudged' \in BOOLEAN
  BY <1>2, <1>3 DEF PatchWrite
<1> HIDE DEF stored
<1> QED
  BY <1>1, <1>4, <1>5, WritesFact

(* ... switching it, and deleting it.                                      *)
LEMMA SwitchKeeps ==
    ASSUME UpdatesAreJudged, NEW q \in PromoRequests,
           DeletePromotion(q) \/ \E switched \in BOOLEAN : TogglePromotion(q, switched)
    PROVE  UpdatesAreJudged'
<1>1. ASSUME NEW switched \in BOOLEAN, TogglePromotion(q, switched)
      PROVE  UpdatesAreJudged'
  <2> DEFINE stored == [campaign EXCEPT !.live = switched]
  <2>1. DOMAIN stored = RowFields /\ (Sound(campaign) => Sound(stored))
    BY DEF UpdatesAreJudged, RowFields, Sound
  <2>2. Writes(q, stored, After(switched)) /\ UNCHANGED misjudged /\ Exists
    BY <1>1 DEF TogglePromotion
  <2>3. misjudged \in BOOLEAN /\ (~misjudged => Sound(campaign))
    BY <2>2 DEF UpdatesAreJudged
  <2> HIDE DEF stored
  <2> QED
    BY <2>1, <2>2, <2>3, WritesFact DEF After
<1>2. ASSUME DeletePromotion(q) PROVE UpdatesAreJudged'
  <2> DEFINE stored == [campaign EXCEPT !.state = "gone"]
  <2>1. DOMAIN stored = RowFields /\ stored.state = "gone"
    BY DEF UpdatesAreJudged, RowFields
  <2>2. Writes(q, stored, "idle") /\ misjudged' \in BOOLEAN
    BY <1>2 DEF DeletePromotion, UpdatesAreJudged
  <2> HIDE DEF stored
  <2> QED
    BY <2>1, <2>2, WritesFact
<1> QED
  BY <1>1, <1>2

(* The announcement.                                                       *)
LEMMA TellKeeps ==
    ASSUME UpdatesAreJudged, NEW q \in PromoRequests,
           \/ Announce(q) \/ AnnouncementDone(q) \/ PromoRequestDies(q)
           \/ \E u \in Shoppers : EmitLook(q, u) \/ \E ok \in BOOLEAN : EmitInsert(q, u, ok)
    PROVE  UpdatesAreJudged'
<1>0. /\ promoReq[q] \in PromoRecords /\ reachable \subseteq Shoppers
  BY DEF UpdatesAreJudged
<1>1. CASE Announce(q)
  <2> DEFINE r == [PromoIdle EXCEPT !.step = "tell", !.to = reachable]
  <2>1. r \in PromoRecords /\ r.step = "tell"
    BY <1>0, PromoIdleFact DEF PromoRecords, PromoSteps
  <2> QED
    BY <1>0, <1>1, <2>1, QuietPromo DEF Announce
<1>2. CASE AnnouncementDone(q) \/ PromoRequestDies(q)
  BY <1>0, <1>2, PromoIdleFact, QuietPromo DEF AnnouncementDone, PromoRequestDies
<1>3. ASSUME NEW u \in Shoppers, EmitLook(q, u) PROVE UpdatesAreJudged'
  <2> DEFINE r == [promoReq[q] EXCEPT !.to = @ \ {u}, !.looked = IF u \in inbox THEN @ ELSE @ \cup {u}]
  <2>1. r \in PromoRecords /\ r.step = promoReq[q].step /\ r.stale = promoReq[q].stale /\ r.patch = promoReq[q].patch
    BY <1>0, <1>3 DEF PromoRecords
  <2>2. promoReq' = [promoReq EXCEPT ![q] = r] /\ UNCHANGED <<campaign, misjudged, reachable>>
    BY <1>0, <1>3 DEF EmitLook, UpdatesAreJudged, PromoRecords
  <2> HIDE DEF r
  <2> QED
    BY <2>1, <2>2 DEF UpdatesAreJudged, Exists, AtDesk, Sound, Patched
<1>4. ASSUME NEW u \in Shoppers, NEW ok \in BOOLEAN, EmitInsert(q, u, ok) PROVE UpdatesAreJudged'
  <2> DEFINE r == [promoReq[q] EXCEPT !.looked = @ \ {u}]
  <2>1. r \in PromoRecords /\ r.step = promoReq[q].step /\ r.stale = promoReq[q].stale /\ r.patch = promoReq[q].patch
    BY <1>0, <1>4 DEF PromoRecords
  <2>2. promoReq' = [promoReq EXCEPT ![q] = r] /\ UNCHANGED <<campaign, misjudged, reachable>>
    BY <1>0, <1>4 DEF EmitInsert, UpdatesAreJudged, PromoRecords
  <2> HIDE DEF r
  <2> QED
    BY <2>1, <2>2 DEF UpdatesAreJudged, Exists, AtDesk, Sound, Patched
<1> QED
  BY <1>1, <1>2, <1>3, <1>4

(* The inbox.                                                              *)
LEMMA InboxKeeps ==
    ASSUME NoticesAreCounted, [CampaignStep]_campaignVars
    PROVE  NoticesAreCounted'
<1>1. ASSUME NEW u \in Shoppers, RemoveNotice(u) PROVE NoticesAreCounted'
  <2>1. /\ u \in inbox /\ inbox' = inbox \ {u} /\ told' = told
        /\ removed' = [removed EXCEPT ![u] = @ + 1]
    BY <1>1 DEF RemoveNotice
  <2>2. ASSUME NEW v \in Shoppers PROVE told'[v] <= (IF v \in inbox' THEN 1 ELSE 0) + removed'[v]
    BY <2>1 DEF NoticesAreCounted
  <2> QED
    BY <2>1, <2>2 DEF NoticesAreCounted
<1>2. ASSUME NEW q \in PromoRequests, NEW u \in Shoppers, NEW ok \in BOOLEAN, EmitInsert(q, u, ok)
      PROVE  NoticesAreCounted'
  <2>1. /\ inbox' = IF ok THEN inbox \cup {u} ELSE inbox
        /\ told' = IF ok /\ u \notin inbox THEN [told EXCEPT ![u] = @ + 1] ELSE told
        /\ removed' = removed
    BY <1>2 DEF EmitInsert
  <2>2. ASSUME NEW v \in Shoppers
        PROVE  told'[v] <= (IF v \in inbox' THEN 1 ELSE 0) + removed'[v]
    BY <2>1 DEF NoticesAreCounted
  <2>3. told' \in [Shoppers -> Nat]
    BY <2>1 DEF NoticesAreCounted
  <2> QED
    BY <2>1, <2>2, <2>3 DEF NoticesAreCounted
<1>3. ASSUME UNCHANGED <<inbox, told, removed>> PROVE NoticesAreCounted'
  BY <1>3 DEF NoticesAreCounted
<1> QED
  BY <1>1, <1>2, <1>3 DEF CampaignStep, campaignVars, Deactivate, CreatePromotion, PatchLook, PatchWrite,
        DeletePromotion, Announce, AnnouncementDone, PromoRequestDies, TogglePromotion, EmitLook, Writes

LEMMA CampaignStepInv == CampaignInv /\ [CampaignStep]_campaignVars => CampaignInv'
<1> SUFFICES ASSUME CampaignInv, [CampaignStep]_campaignVars PROVE CampaignInv'
  OBVIOUS
<1>0. UpdatesAreJudged /\ NoticesAreCounted
  BY DEF CampaignInv
<1>1. ASSUME UNCHANGED <<campaign, promoReq, misjudged>>, reachable' \subseteq Shoppers
      PROVE  UpdatesAreJudged'
  BY <1>0, <1>1 DEF UpdatesAreJudged, Exists, AtDesk, Sound, Patched
<1>2. UpdatesAreJudged'
  <2>1. CASE UNCHANGED campaignVars
    BY <1>0, <1>1, <2>1 DEF campaignVars, UpdatesAreJudged
  <2>2. ASSUME NEW u \in Shoppers, RemoveNotice(u) \/ Deactivate(u) PROVE UpdatesAreJudged'
    BY <1>0, <1>1, <2>2 DEF RemoveNotice, Deactivate, UpdatesAreJudged
  <2> QED
    BY <1>0, <2>1, <2>2, CreateKeeps, LookKeeps, PatchKeeps, SwitchKeeps, TellKeeps DEF CampaignStep
<1> QED
  BY <1>0, <1>2, InboxKeeps DEF CampaignInv

(* A promotion stays sound unless an update was judged against a row that  *)
(* had changed, and a second notice goes only to who deleted the first,    *)
(* however many requests of the desk overlap and die.                      *)
THEOREM PromotionsStaySound == CampaignSpec => []CampaignHolds
<1>1. CampaignInv => CampaignHolds
  <2> SUFFICES ASSUME CampaignInv PROVE CampaignHolds
    OBVIOUS
  <2>1. \A u \in Shoppers : told[u] <= 1 + removed[u]
    BY DEF CampaignInv, NoticesAreCounted
  <2> QED
    BY <2>1 DEF CampaignHolds, CampaignInv, UpdatesAreJudged
<1> QED
  BY <1>1, CampaignInitInv, CampaignStepInv, PTL DEF CampaignSpec

----------------------------------------------------------------------------
(* The pictures.                                                           *)

TaskKinds == {"verify", "insert", "primary", "delete object", "delete row", "rewrite"}
Tasks == [kind : TaskKinds, slots : SUBSET Slots, primary : BOOLEAN, stale : BOOLEAN]

GalleryTypes ==
    /\ bucket \in [Keys -> {"none", "stored", "deleted"}]
    /\ row \in [Slots -> {"absent", "plain", "primary"}]
    /\ task \in [Clerks -> {NoTask} \cup Tasks]
    /\ raced \in BOOLEAN /\ unmarked \in BOOLEAN /\ pulled \subseteq Keys

(* The object of a row is there, or was deleted with leave.                *)
Kept(k) == bucket[k] = "stored" \/ k \in pulled

(* An edit of one row knows it; what an edit is to write points at objects *)
(* that were there when it looked.                                         *)
TasksPointAtObjects ==
    \A c \in Clerks : task[c] # NoTask =>
        /\ task[c].kind # "rewrite" => \E s \in Slots : task[c].slots = {s}
        /\ task[c].kind # "verify" => \A s \in task[c].slots : Kept(s[1])

(* As long as nobody else has written the gallery, an edit knows whether   *)
(* there is a row, and which one is the primary.                           *)
TasksKnowThePrimary ==
    \A c \in Clerks : task[c] # NoTask /\ ~task[c].stale =>
        /\ task[c].kind \in {"verify", "insert"} /\ ~task[c].primary => Rows # {}
        /\ task[c].kind \in {"delete object", "delete row"} =>
              \A s \in task[c].slots : task[c].primary <=> row[s] = "primary"

RowsPointAtObjects == \A s \in Rows : Kept(s[1])

OnePrimary == \A s, t \in Primaries : s = t

(* A gallery that is not empty has a primary picture.                      *)
Marked == Rows # {} => Primaries # {}

GalleryInv ==
    /\ GalleryTypes /\ TasksPointAtObjects /\ TasksKnowThePrimary /\ RowsPointAtObjects /\ OnePrimary
    /\ raced \/ unmarked \/ Marked

LEMMA GalleryInitInv == GalleryInit => GalleryInv
  BY DEF GalleryInit, GalleryInv, GalleryTypes, TasksPointAtObjects, TasksKnowThePrimary, RowsPointAtObjects,
     OnePrimary, Marked, Rows, Primaries

(* The slot of an edit of one row.                                         *)
LEMMA SlotFact ==
    ASSUME GalleryInv, NEW c \in Clerks, task[c] # NoTask
    PROVE  /\ task[c] \in Tasks
           /\ task[c].kind # "rewrite" => task[c].slots = {Slot(c)} /\ Slot(c) \in Slots /\ Key(c) = Slot(c)[1] /\ Key(c) \in Keys
<1>1. task[c] \in Tasks
  BY DEF GalleryInv, GalleryTypes
<1>2. ASSUME task[c].kind # "rewrite"
      PROVE  task[c].slots = {Slot(c)} /\ Slot(c) \in Slots /\ Key(c) = Slot(c)[1] /\ Key(c) \in Keys
  <2>1. PICK s \in Slots : task[c].slots = {s}
    BY <1>2 DEF GalleryInv, TasksPointAtObjects
  <2>2. Slot(c) \in task[c].slots
    BY <2>1 DEF Slot
  <2>3. Key(c) = Slot(c)[1]
    BY DEF Key, Slot
  <2> QED BY <2>1, <2>2, <2>3 DEF Slots
<1> QED BY <1>1, <1>2

(* Objects come and go; no row is written, and no edit begins.             *)
LEMMA ObjectsKeep ==
    ASSUME GalleryInv, UNCHANGED <<row, raced, unmarked>>,
           bucket' \in [Keys -> {"none", "stored", "deleted"}], pulled' \subseteq Keys,
           \A k \in Keys : Kept(k) => Kept(k)',
           task' \in [Clerks -> {NoTask} \cup Tasks],
           \A c \in Clerks : task'[c] # NoTask /\ task'[c] # task[c] =>
                /\ task[c] # NoTask /\ task'[c].slots = task[c].slots
                /\ task'[c].primary = task[c].primary /\ task'[c].stale = task[c].stale
                /\ \/ /\ task[c].kind = "delete object" /\ task'[c].kind = "delete row"
                   \/ /\ task[c].kind = "verify" /\ task'[c].kind = "insert"
                      /\ \A s \in task[c].slots : Kept(s[1])'
    PROVE  GalleryInv'
<1>1. GalleryTypes'
  BY DEF GalleryInv, GalleryTypes
<1>2. \A s \in Slots : s[1] \in Keys
  BY DEF Slots
<1>3. TasksPointAtObjects'
  <2> SUFFICES ASSUME NEW c \in Clerks, task'[c] # NoTask
               PROVE  /\ task'[c].kind # "rewrite" => \E s \in Slots : task'[c].slots = {s}
                      /\ task'[c].kind # "verify" => \A s \in task'[c].slots : Kept(s[1])'
    BY DEF TasksPointAtObjects
  <2>1. task[c] # NoTask /\ task[c] \in Tasks /\ \A s \in task[c].slots : s \in Slots
    BY SlotFact DEF Tasks, GalleryInv, GalleryTypes
  <2>2. /\ task[c].kind # "rewrite" => \E s \in Slots : task[c].slots = {s}
        /\ task[c].kind # "verify" => \A s \in task[c].slots : Kept(s[1])
    BY <2>1 DEF GalleryInv, TasksPointAtObjects
  <2>3. CASE task'[c] = task[c]
    BY <1>2, <2>1, <2>2, <2>3
  <2>4. CASE task'[c] # task[c]
    BY <1>2, <2>1, <2>2, <2>4
  <2> QED BY <2>3, <2>4
<1>4. TasksKnowThePrimary'
  <2>1. Rows' = Rows
    BY DEF Rows
  <2> SUFFICES ASSUME NEW c \in Clerks, task'[c] # NoTask, ~task'[c].stale
               PROVE  /\ task'[c].kind \in {"verify", "insert"} /\ ~task'[c].primary => Rows # {}
                      /\ task'[c].kind \in {"delete object", "delete row"} =>
                            \A s \in task'[c].slots : task'[c].primary <=> row[s] = "primary"
    BY <2>1 DEF TasksKnowThePrimary
  <2>2. /\ task[c] # NoTask /\ ~task[c].stale
        /\ task'[c].slots = task[c].slots /\ task'[c].primary = task[c].primary
        /\ task'[c].kind \in {"verify", "insert"} => task[c].kind \in {"verify", "insert"}
        /\ task'[c].kind \in {"delete object", "delete row"} => task[c].kind \in {"delete object", "delete row"}
    <3>1. CASE task'[c] = task[c]
      BY <3>1
    <3>2. CASE task'[c] # task[c]
      BY <3>2
    <3> QED BY <3>1, <3>2
  <2>3. /\ task[c].kind \in {"verify", "insert"} /\ ~task[c].primary => Rows # {}
        /\ task[c].kind \in {"delete object", "delete row"} =>
              \A s \in task[c].slots : task[c].primary <=> row[s] = "primary"
    BY <2>2 DEF GalleryInv, TasksKnowThePrimary
  <2> QED BY <2>2, <2>3
<1>5. RowsPointAtObjects' /\ OnePrimary' /\ (raced' \/ unmarked' \/ Marked')
  BY <1>2 DEF GalleryInv, RowsPointAtObjects, OnePrimary, Marked, Rows, Primaries
<1> QED BY <1>1, <1>3, <1>4, <1>5 DEF GalleryInv

(* An edit has looked at the gallery.                                      *)
LEMMA TakesKeeps ==
    ASSUME GalleryInv, NEW c \in Clerks, NEW kind \in TaskKinds, NEW slots \in SUBSET Slots, NEW primary \in BOOLEAN,
           Takes(c, kind, slots, primary),
           kind # "rewrite" => \E s \in Slots : slots = {s},
           kind # "verify" => \A s \in slots : Kept(s[1]),
           kind \in {"verify", "insert"} /\ ~primary => Rows # {},
           kind \in {"delete object", "delete row"} => \A s \in slots : primary <=> row[s] = "primary"
    PROVE  GalleryInv'
<1> DEFINE r == [kind |-> kind, slots |-> slots, primary |-> primary, stale |-> FALSE]
<1>1. r \in Tasks /\ r.kind = kind /\ r.slots = slots /\ (r.primary <=> primary) /\ r # NoTask
  BY DEF Tasks, NoTask, TaskKinds
<1>2. task' = [task EXCEPT ![c] = r] /\ UNCHANGED <<bucket, row, raced, unmarked, pulled>>
  BY DEF Takes
<1> HIDE DEF r
<1>3. /\ task' \in [Clerks -> {NoTask} \cup Tasks] /\ task'[c] = r
      /\ \A d \in Clerks \ {c} : task'[d] = task[d]
  BY <1>1, <1>2 DEF GalleryInv, GalleryTypes
<1>4. \A k \in Keys : Kept(k)' <=> Kept(k)
  BY <1>2 DEF Kept
<1>5. \A s \in Slots : s[1] \in Keys
  BY DEF Slots
<1>6. GalleryTypes'
  BY <1>2, <1>3 DEF GalleryInv, GalleryTypes
<1>7. TasksPointAtObjects'
  <2> SUFFICES ASSUME NEW d \in Clerks, task'[d] # NoTask
               PROVE  /\ task'[d].kind # "rewrite" => \E s \in Slots : task'[d].slots = {s}
                      /\ task'[d].kind # "verify" => \A s \in task'[d].slots : Kept(s[1])'
    BY DEF TasksPointAtObjects
  <2>1. CASE d = c
    BY <1>1, <1>3, <1>4, <1>5, <2>1
  <2>2. CASE d # c
    <3>1. task[d] \in Tasks /\ task'[d] = task[d]
      BY <1>3, <2>2, SlotFact
    <3> QED BY <1>4, <1>5, <3>1 DEF GalleryInv, TasksPointAtObjects, Tasks
  <2> QED BY <2>1, <2>2
<1>8. Rows' = Rows /\ Primaries' = Primaries
  BY <1>2 DEF Rows, Primaries
<1>9. TasksKnowThePrimary'
  <2> SUFFICES ASSUME NEW d \in Clerks, task'[d] # NoTask, ~task'[d].stale
               PROVE  /\ task'[d].kind \in {"verify", "insert"} /\ ~task'[d].primary => Rows # {}
                      /\ task'[d].kind \in {"delete object", "delete row"} =>
                            \A s \in task'[d].slots : task'[d].primary <=> row[s] = "primary"
    BY <1>2, <1>8 DEF TasksKnowThePrimary
  <2>1. CASE d = c
    BY <1>1, <1>3, <2>1
  <2>2. CASE d # c
    BY <1>3, <2>2 DEF GalleryInv, TasksKnowThePrimary
  <2> QED BY <2>1, <2>2
<1>10. RowsPointAtObjects' /\ OnePrimary' /\ (raced' \/ unmarked' \/ Marked')
  BY <1>2, <1>4, <1>5, <1>8 DEF GalleryInv, RowsPointAtObjects, OnePrimary, Marked, Rows
<1> QED BY <1>6, <1>7, <1>9, <1>10 DEF GalleryInv

(* An edit writes the gallery.                                             *)
LEMMA PublishesKeeps ==
    ASSUME GalleryInv, NEW c \in Clerks, task[c] # NoTask, Publishes(c), UNCHANGED <<bucket, pulled>>,
           row' \in [Slots -> {"absent", "plain", "primary"}],
           RowsPointAtObjects', OnePrimary',
           \/ Marked'
           \/ task[c].kind = "rewrite" /\ ~task[c].primary
           \/ raced \/ task[c].stale
           \/ unmarked /\ Primaries' = {}
    PROVE  GalleryInv'
<1>1. /\ task' \in [Clerks -> {NoTask} \cup Tasks]
      /\ \A d \in Clerks : task'[d] # NoTask =>
            /\ task[d] # NoTask /\ task'[d].kind = task[d].kind /\ task'[d].slots = task[d].slots
            /\ task'[d].stale = TRUE
  <2> DEFINE next(d) == CASE d = c -> NoTask
                          [] d # c /\ task[d] = NoTask -> NoTask
                          [] OTHER -> [task[d] EXCEPT !.stale = TRUE]
  <2>1. task' = [d \in Clerks |-> next(d)]
    BY DEF Publishes
  <2>2. ASSUME NEW d \in Clerks
        PROVE  /\ next(d) \in {NoTask} \cup Tasks
               /\ next(d) # NoTask =>
                    /\ task[d] # NoTask /\ next(d).kind = task[d].kind /\ next(d).slots = task[d].slots
                    /\ next(d).stale = TRUE
    <3>1. CASE d = c \/ task[d] = NoTask
      BY <3>1
    <3>2. CASE d # c /\ task[d] # NoTask
      <4>1. task[d] \in Tasks
        BY <3>2, SlotFact
      <4> QED BY <3>2, <4>1 DEF Tasks
    <3> QED BY <3>1, <3>2
  <2> HIDE DEF next
  <2> QED BY <2>1, <2>2
<1>2. \A s \in Slots : s[1] \in Keys
  BY DEF Slots
<1>3. \A k \in Keys : Kept(k)' <=> Kept(k)
  BY DEF Kept
<1>4. TasksPointAtObjects'
  <2> SUFFICES ASSUME NEW d \in Clerks, task'[d] # NoTask
               PROVE  /\ task'[d].kind # "rewrite" => \E s \in Slots : task'[d].slots = {s}
                      /\ task'[d].kind # "verify" => \A s \in task'[d].slots : Kept(s[1])'
    BY DEF TasksPointAtObjects
  <2>1. task[d] \in Tasks /\ task[d] # NoTask
    BY <1>1, SlotFact
  <2> QED BY <1>1, <1>2, <1>3, <2>1 DEF GalleryInv, TasksPointAtObjects, Tasks
<1>5. TasksKnowThePrimary'
  BY <1>1 DEF TasksKnowThePrimary
<1>6. GalleryTypes'
  <2>1. raced' = (raced \/ task[c].stale) /\ task[c] \in Tasks /\ unmarked' \in BOOLEAN
    BY SlotFact DEF Publishes
  <2> QED BY <1>1, <2>1 DEF GalleryInv, GalleryTypes, Tasks
<1>7. raced' \/ unmarked' \/ Marked'
  BY DEF Publishes, Marked
<1> QED BY <1>4, <1>5, <1>6, <1>7 DEF GalleryInv

(* An edit is over, and has left the rows alone.                           *)
LEMMA DropKeeps ==
    ASSUME GalleryInv, NEW c \in Clerks, task[c] # NoTask, Drop(c), UNCHANGED <<row, raced, unmarked>>,
           UNCHANGED <<bucket, pulled>> \/ (task[c].kind # "rewrite" /\ CleansUp(c))
    PROVE  GalleryInv'
<1>1. /\ bucket' \in [Keys -> {"none", "stored", "deleted"}] /\ pulled' \subseteq Keys
      /\ \A k \in Keys : Kept(k) => Kept(k)'
  <2>1. CASE UNCHANGED <<bucket, pulled>>
    BY <2>1 DEF GalleryInv, GalleryTypes, Kept
  <2>2. CASE /\ bucket' = [bucket EXCEPT ![Key(c)] = "deleted"] /\ pulled' = pulled \cup {Key(c)}
             /\ task[c].kind # "rewrite"
    BY <2>2, SlotFact DEF GalleryInv, GalleryTypes, Kept
  <2> QED BY <2>1, <2>2 DEF CleansUp
<1>2. /\ task' \in [Clerks -> {NoTask} \cup Tasks] /\ task'[c] = NoTask
      /\ \A d \in Clerks \ {c} : task'[d] = task[d]
  BY DEF GalleryInv, GalleryTypes, Drop
<1> QED BY <1>1, <1>2, ObjectsKeep

(* An edit has done its first half.                                        *)
LEMMA ContinueKeeps ==
    ASSUME GalleryInv, NEW c \in Clerks, NEW next \in {"insert", "delete row"}, Continue(c, next),
           UNCHANGED <<row, raced, unmarked>>,
           \/ next = "insert" /\ task[c].kind = "verify" /\ bucket[Key(c)] = "stored" /\ UNCHANGED <<bucket, pulled>>
           \/ /\ next = "delete row" /\ task[c].kind = "delete object"
              /\ bucket' = [bucket EXCEPT ![Key(c)] = "deleted"] /\ pulled' = pulled \cup {Key(c)}
    PROVE  GalleryInv'
<1>00. task[c].kind \in {"verify", "delete object"}
  OBVIOUS
<1>0. task[c] # NoTask /\ task[c].kind # "rewrite"
  <2>1. NoTask.kind = "none"
    BY DEF NoTask
  <2> QED BY <1>00, <2>1
<1>1. /\ task[c] \in Tasks /\ task[c].slots = {Slot(c)} /\ Slot(c) \in Slots /\ Key(c) = Slot(c)[1] /\ Key(c) \in Keys
  BY <1>0, SlotFact
<1> DEFINE r == [task[c] EXCEPT !.kind = next]
<1>2. /\ r \in Tasks /\ r.kind = next /\ r.slots = task[c].slots /\ r.primary = task[c].primary
      /\ r.stale = task[c].stale
  BY <1>1 DEF Tasks, TaskKinds
<1>3. task' = [task EXCEPT ![c] = r]
  BY DEF Continue
<1> HIDE DEF r
<1>4. /\ task' \in [Clerks -> {NoTask} \cup Tasks] /\ task'[c] = r
      /\ \A d \in Clerks \ {c} : task'[d] = task[d]
  BY <1>2, <1>3 DEF GalleryInv, GalleryTypes
<1>5. /\ bucket' \in [Keys -> {"none", "stored", "deleted"}] /\ pulled' \subseteq Keys
      /\ \A k \in Keys : Kept(k) => Kept(k)'
  BY <1>1 DEF GalleryInv, GalleryTypes, Kept
<1>6. next = "insert" => \A s \in task[c].slots : Kept(s[1])'
  BY <1>1 DEF Kept
<1> QED BY <1>0, <1>2, <1>4, <1>5, <1>6, ObjectsKeep

(* A picture is attached, the first or on demand as the primary one.       *)
LEMMA InsertKeeps == ASSUME GalleryInv, NEW c \in Clerks, AttachInsert(c) PROVE GalleryInv'
<1>0. task[c] # NoTask /\ task[c].kind = "insert"
  BY DEF AttachInsert, NoTask
<1> DEFINE s == Slot(c)
<1>1. task[c] \in Tasks /\ task[c].slots = {s} /\ s \in Slots /\ Kept(s[1]) /\ row[s] = "absent"
      /\ row \in [Slots -> {"absent", "plain", "primary"}]
  BY <1>0, SlotFact DEF GalleryInv, GalleryTypes, TasksPointAtObjects, AttachInsert
<1> HIDE DEF s
<1>2. CASE task[c].primary
  <2>1. /\ row' \in [Slots -> {"absent", "plain", "primary"}] /\ row'[s] = "primary"
        /\ \A t \in Slots \ {s} : row'[t] = IF row[t] = "primary" THEN "plain" ELSE row[t]
    BY <1>1, <1>2 DEF AttachInsert, Demoted, s
  <2>2. Rows' = Rows \cup {s} /\ Primaries' = {s}
    BY <1>1, <2>1 DEF Rows, Primaries
  <2>3. RowsPointAtObjects'
    BY <1>1, <2>2 DEF GalleryInv, RowsPointAtObjects, AttachInsert, Kept
  <2>4. OnePrimary' /\ Marked'
    BY <2>2 DEF OnePrimary, Marked
  <2> QED BY <1>0, <1>1, <2>1, <2>3, <2>4, PublishesKeeps DEF AttachInsert
<1>3. CASE ~task[c].primary
  <2>1. /\ row' \in [Slots -> {"absent", "plain", "primary"}] /\ row'[s] = "plain"
        /\ \A t \in Slots \ {s} : row'[t] = row[t]
    BY <1>1, <1>3 DEF AttachInsert, s
  <2>2. Rows' = Rows \cup {s} /\ Primaries' = Primaries
    BY <1>1, <2>1 DEF Rows, Primaries
  <2>3. RowsPointAtObjects'
    BY <1>1, <2>2 DEF GalleryInv, RowsPointAtObjects, AttachInsert, Kept
  <2>4. OnePrimary' /\ (raced \/ task[c].stale \/ Marked' \/ (unmarked /\ Primaries' = {}))
    BY <1>0, <1>3, <2>2 DEF GalleryInv, TasksKnowThePrimary, OnePrimary, Marked
  <2> QED BY <1>0, <2>1, <2>3, <2>4, PublishesKeeps DEF AttachInsert
<1> QED BY <1>1, <1>2, <1>3 DEF Tasks

(* A row becomes the primary one, and no other is.                         *)
LEMMA SetPrimaryKeeps == ASSUME GalleryInv, NEW c \in Clerks, SetPrimaryWrite(c) PROVE GalleryInv'
<1>0. task[c] # NoTask
  BY DEF SetPrimaryWrite, NoTask
<1> DEFINE s == Slot(c)
<1>1. s \in Rows /\ s \in Slots /\ row' = [Demoted EXCEPT ![s] = "primary"]
      /\ row \in [Slots -> {"absent", "plain", "primary"}]
  BY DEF SetPrimaryWrite, Rows, GalleryInv, GalleryTypes
<1> HIDE DEF s
<1>2. /\ row' \in [Slots -> {"absent", "plain", "primary"}] /\ row'[s] = "primary"
      /\ \A t \in Slots \ {s} : row'[t] = IF row[t] = "primary" THEN "plain" ELSE row[t]
  BY <1>1 DEF Demoted
<1>3. Rows' = Rows /\ Primaries' = {s}
  BY <1>1, <1>2 DEF Rows, Primaries
<1>4. RowsPointAtObjects' /\ OnePrimary' /\ Marked'
  BY <1>1, <1>3 DEF GalleryInv, RowsPointAtObjects, SetPrimaryWrite, Kept, OnePrimary, Marked
<1> QED BY <1>0, <1>2, <1>4, PublishesKeeps DEF SetPrimaryWrite

(* A row is deleted; if it was the primary one, another one becomes it.    *)
LEMMA DeleteRowKeeps == ASSUME GalleryInv, NEW c \in Clerks, DeleteRow(c) PROVE GalleryInv'
<1>00. task[c].kind = "delete row"
  BY DEF DeleteRow
<1>0. task[c] # NoTask /\ task[c].kind = "delete row"
  <2>1. NoTask.kind = "none"
    BY DEF NoTask
  <2> QED BY <1>00, <2>1
<1> DEFINE s == Slot(c)
<1>1. task[c] \in Tasks /\ task[c].slots = {s} /\ s \in Slots /\ s \in Rows
      /\ row \in [Slots -> {"absent", "plain", "primary"}]
  BY <1>0, SlotFact DEF GalleryInv, GalleryTypes, DeleteRow
<1>2. \/ /\ task[c].primary = TRUE /\ Rows # {s} 
         /\ \E next \in Rows \ {s} : Primaries \subseteq {s, next} /\ row' = WithoutRow(s, {next})
      \/ /\ task[c].primary = FALSE \/ Rows = {s}
         /\ row' = WithoutRow(s, {})
  BY <1>1 DEF DeleteRow, Tasks
<1> HIDE DEF s
<1>3. OnePrimary /\ (~task[c].stale => (task[c].primary <=> row[s] = "primary"))
  BY <1>0, <1>1 DEF GalleryInv, TasksKnowThePrimary
<1>4. CASE \E next \in Rows \ {s} : Primaries \subseteq {s, next} /\ row' = WithoutRow(s, {next})
  <2>1. PICK next \in Rows \ {s} : Primaries \subseteq {s, next} /\ row' = WithoutRow(s, {next})
    BY <1>4
  <2>2. /\ row' \in [Slots -> {"absent", "plain", "primary"}] /\ row'[s] = "absent" /\ row'[next] = "primary"
        /\ \A t \in Slots \ {s, next} : row'[t] = row[t]
        /\ next \in Slots
    BY <1>1, <2>1 DEF WithoutRow, Rows
  <2>3. Rows' = Rows \ {s} /\ Primaries' = (Primaries \ {s}) \cup {next}
    BY <1>1, <2>2 DEF Rows, Primaries
  <2>4. RowsPointAtObjects'
    BY <2>3 DEF GalleryInv, RowsPointAtObjects, DeleteRow, Kept
  <2>5. OnePrimary' /\ Marked'
    BY <2>1, <2>3 DEF OnePrimary, Marked
  <2> QED BY <1>0, <2>2, <2>4, <2>5, PublishesKeeps DEF DeleteRow
<1>5. CASE (task[c].primary = FALSE \/ Rows = {s}) /\ row' = WithoutRow(s, {})
  <2>1. /\ row' \in [Slots -> {"absent", "plain", "primary"}] /\ row'[s] = "absent"
        /\ \A t \in Slots \ {s} : row'[t] = row[t]
    BY <1>1, <1>5 DEF WithoutRow
  <2>2. Rows' = Rows \ {s} /\ Primaries' = Primaries \ {s}
    BY <1>1, <2>1 DEF Rows, Primaries
  <2>3. RowsPointAtObjects'
    BY <2>2 DEF GalleryInv, RowsPointAtObjects, DeleteRow, Kept
  <2>4. Primaries \subseteq Rows
    BY DEF Primaries, Rows
  <2>5. OnePrimary'
    BY <1>3, <2>2 DEF OnePrimary
  <2>6. raced \/ task[c].stale \/ Marked' \/ (unmarked /\ Primaries' = {})
    <3> SUFFICES ASSUME ~raced, ~task[c].stale PROVE Marked' \/ (unmarked /\ Primaries' = {})
      OBVIOUS
    <3>1. CASE Rows = {s}
      BY <2>2, <3>1 DEF Marked
    <3>2. CASE task[c].primary = FALSE
      <4>1. s \notin Primaries
        BY <1>3, <3>2 DEF Primaries
      <4>2. Primaries' = Primaries
        BY <2>2, <4>1
      <4> QED BY <2>2, <2>4, <4>2 DEF Marked, GalleryInv
    <3> QED BY <1>5, <3>1, <3>2
  <2> QED BY <1>0, <2>1, <2>3, <2>5, <2>6, PublishesKeeps DEF DeleteRow
<1> QED BY <1>2, <1>4, <1>5

(* All rows are replaced, and those marked are the primary ones.           *)
LEMMA RewriteKeeps == ASSUME GalleryInv, NEW c \in Clerks, RewriteGallery(c) PROVE GalleryInv'
<1>0. task[c] # NoTask /\ task[c].kind = "rewrite"
  BY DEF RewriteGallery, NoTask
<1> DEFINE kept == task[c].slots
<1>1. task[c] \in Tasks /\ kept \subseteq Slots /\ \A s \in kept : Kept(s[1])
  BY <1>0, SlotFact DEF GalleryInv, TasksPointAtObjects, Tasks
<1>2. PICK marked \in SUBSET kept :
        /\ IF task[c].primary /\ kept # {} THEN \E s \in kept : marked = {s} ELSE marked = {}
        /\ row' = [s \in Slots |-> IF s \in marked THEN "primary" ELSE IF s \in kept THEN "plain" ELSE "absent"]
  BY DEF RewriteGallery
<1> HIDE DEF kept
<1>3. /\ row' \in [Slots -> {"absent", "plain", "primary"}]
      /\ \A s \in Slots : row'[s] = IF s \in marked THEN "primary" ELSE IF s \in kept THEN "plain" ELSE "absent"
  BY <1>1, <1>2
<1>4. Rows' = kept /\ Primaries' = marked
  BY <1>1, <1>3 DEF Rows, Primaries
<1>5. OnePrimary'
  BY <1>2, <1>4 DEF OnePrimary
<1>6. Marked' \/ ~task[c].primary
  BY <1>2, <1>4 DEF Marked
<1>7. RowsPointAtObjects'
  BY <1>1, <1>4 DEF RowsPointAtObjects, RewriteGallery, Kept
<1> QED BY <1>0, <1>3, <1>5, <1>6, <1>7, PublishesKeeps DEF RewriteGallery

LEMMA GalleryStepInv == GalleryInv /\ [GalleryStep]_galleryVars => GalleryInv'
<1> SUFFICES ASSUME GalleryInv, [GalleryStep]_galleryVars PROVE GalleryInv'
  OBVIOUS
<1>0. GalleryTypes /\ RowsPointAtObjects
  BY DEF GalleryInv
<1>1. CASE UNCHANGED galleryVars
  <2>1. UNCHANGED <<row, raced, unmarked, bucket, pulled, task>>
    BY <1>1 DEF galleryVars
  <2>2. \A k \in Keys : Kept(k) => Kept(k)'
    BY <2>1 DEF Kept
  <2> QED BY <1>0, <2>1, <2>2, ObjectsKeep DEF GalleryTypes
<1>2. ASSUME NEW k \in Keys, Upload(k) PROVE GalleryInv'
  <2>1. /\ bucket' \in [Keys -> {"none", "stored", "deleted"}] /\ UNCHANGED <<row, task, raced, unmarked, pulled>>
        /\ \A j \in Keys : Kept(j) => Kept(j)'
    BY <1>0, <1>2 DEF Upload, GalleryTypes, Kept
  <2> QED BY <1>0, <2>1, ObjectsKeep DEF GalleryTypes
<1>3. ASSUME NEW c \in Clerks, NEW k \in Keys, NEW wanted \in BOOLEAN, AttachRead(c, k, wanted) PROVE GalleryInv'
  <2> DEFINE primary == wanted \/ Rows = {}
  <2>1. /\ Takes(c, "verify", {<<k, TRUE>>}, primary) /\ <<k, TRUE>> \in Slots
        /\ primary \in BOOLEAN /\ (~primary => Rows # {})
    BY <1>3 DEF AttachRead, Slots
  <2> HIDE DEF primary
  <2> QED BY <2>1, TakesKeeps DEF TaskKinds
<1>4. ASSUME NEW c \in Clerks, NEW s \in Slots, SetPrimaryRead(c, s) PROVE GalleryInv'
  <2>1. s \in Rows /\ Takes(c, "primary", {s}, TRUE) /\ Kept(s[1])
    BY <1>0, <1>4 DEF SetPrimaryRead, RowsPointAtObjects
  <2> QED BY <2>1, TakesKeeps DEF TaskKinds
<1>5. ASSUME NEW c \in Clerks, NEW s \in Slots, DeleteRead(c, s) PROVE GalleryInv'
  <2>1. PICK kind \in {"delete object", "delete row"} : Takes(c, kind, {s}, row[s] = "primary")
    BY <1>5 DEF DeleteRead
  <2>2. PICK primary \in BOOLEAN : primary <=> row[s] = "primary"
    OBVIOUS
  <2>3. (row[s] = "primary") = primary
    BY <2>2
  <2>4. Takes(c, kind, {s}, primary)
    BY <2>1, <2>3
  <2>5. Kept(s[1])
    BY <1>0, <1>5 DEF DeleteRead, RowsPointAtObjects
  <2>6. \A q \in {s} : primary <=> row[q] = "primary"
    BY <2>2
  <2>7. kind \in TaskKinds /\ kind \notin {"rewrite", "verify", "insert"}
    BY DEF TaskKinds
  <2>8. {s} \in SUBSET Slots /\ \A q \in {s} : Kept(q[1])
    BY <2>5
  <2> QED BY <2>2, <2>4, <2>6, <2>7, <2>8, TakesKeeps
<1>6. ASSUME NEW c \in Clerks, NEW s \in Slots, ConsoleOpens(c, s) PROVE GalleryInv'
  <2>0. s \in Rows
    BY <1>6 DEF ConsoleOpens, Rows, Primaries
  <2>1. Takes(c, "rewrite", {<<s[1], FALSE>>}, TRUE)
    BY <1>6 DEF ConsoleOpens
  <2>2. <<s[1], FALSE>> \in Slots
    BY DEF Slots
  <2>3. \A t \in {<<s[1], FALSE>>} : Kept(t[1])
    BY <1>0, <2>0 DEF RowsPointAtObjects
  <2> QED BY <2>1, <2>2, <2>3, TakesKeeps DEF TaskKinds
<1>7. ASSUME NEW c \in Clerks, NEW keys \in SUBSET Keys, NEW marks \in BOOLEAN, RewriteRead(c, keys, marks) PROVE GalleryInv'
  <2>1. Takes(c, "rewrite", keys \X {TRUE}, marks) /\ keys \X {TRUE} \subseteq Slots
        /\ \A s \in keys \X {TRUE} : Kept(s[1])
    BY <1>7 DEF RewriteRead, Slots, Kept
  <2> QED BY <2>1, TakesKeeps DEF TaskKinds
<1>8. ASSUME NEW c \in Clerks, AttachVerified(c) PROVE GalleryInv'
  BY <1>8, ContinueKeeps DEF AttachVerified
<1>9. ASSUME NEW c \in Clerks, DeleteObject(c) PROVE GalleryInv'
  BY <1>9, ContinueKeeps DEF DeleteObject
<1>10. ASSUME NEW c \in Clerks, AttachRejected(c) \/ AttachLoses(c) \/ AttachFails(c) \/ TaskFails(c) PROVE GalleryInv'
  BY <1>10, DropKeeps DEF AttachRejected, AttachLoses, AttachFails, TaskFails, NoTask
<1> QED BY <1>1, <1>2, <1>3, <1>4, <1>5, <1>6, <1>7, <1>8, <1>9, <1>10, InsertKeeps, SetPrimaryKeeps,
           DeleteRowKeeps, RewriteKeeps DEF GalleryStep

(* Whatever edits of a gallery overlap and wherever they stop, its rows    *)
(* point at objects that were not deleted behind their back and at most    *)
(* one is the primary; and there is one, unless an edit wrote after        *)
(* another or the last rewriting marked none.                              *)
THEOREM PicturesAreKept == GallerySpec => []GalleryHolds
<1>1. GalleryInv => GalleryHolds
  BY DEF GalleryInv, RowsPointAtObjects, Kept, OnePrimary, Marked, GalleryHolds
<1> QED BY GalleryInitInv, GalleryStepInv, <1>1, PTL DEF GallerySpec

----------------------------------------------------------------------------
(* The prices.                                                             *)

(* What there is to a basket of any lines.                                 *)
BasketIsPriced == basket \in [Goods -> [price : Prices, quantity : 0..MaxUnits]] /\ code \in Coupons \cup {NoCoupon}

(* The cart was shown as it is, and the order billed once that was done.   *)
PricingInv ==
    /\ BasketIsPriced
    /\ shown \in {NoQuote, CartQuote}
    /\ bill = NoQuote \/ /\ shown = CartQuote
                         /\ bill = OrderQuote(IF code = NoCoupon THEN 0 ELSE DiscountOf(code))

(* A percentage of an amount is none less than that of a smaller one.      *)
LEMMA TaxFact ==
    \A a, b \in Nat : Percent(a, TaxPercent) \in Nat /\ (a <= b => Percent(a, TaxPercent) <= Percent(b, TaxPercent))
  BY DEF Percent, TaxPercent

LEMMA ShippingFact == \A a \in Nat : Shipping(a) \in Nat
  BY DEF Shipping, ShippingFee, FreeShippingFrom

(* Prices and quantities are natural numbers.                              *)
LEMMA PricesFact == Prices \subseteq Nat
  BY PricingAssumption

LEMMA QuantitiesFact == MaxUnits \in Nat
  BY PricingAssumption

(* The lines a coupon is for are worth no more than all of them.           *)
LEMMA WorthFact ==
    ASSUME BasketIsPriced, NEW offer
    PROVE  /\ Worth(Lines) \in Nat /\ Worth(Eligible(offer)) \in Nat /\ Worth(Eligible(offer)) <= Worth(Lines)
<1>1. \A p \in Goods : LinePrice[p] \in Nat
  <2> SUFFICES ASSUME NEW p \in Goods PROVE LinePrice[p] \in Nat
    OBVIOUS
  <2>0. basket[p] \in [price : Prices, quantity : 0..MaxUnits]
    BY DEF BasketIsPriced
  <2>1. basket[p].price \in Nat /\ basket[p].quantity \in Nat
    <3>1. basket[p].price \in Prices /\ basket[p].quantity \in 0..MaxUnits
      BY <2>0
    <3>2. basket[p].price \in Nat
      BY <3>1, PricesFact
    <3>3. basket[p].quantity \in Nat
      BY <3>1, QuantitiesFact
    <3> QED BY <3>2, <3>3
  <2>2. \A m, n \in Nat : m * n \in Nat
    OBVIOUS
  <2> QED BY <2>1, <2>2 DEF LinePrice
<1>2. Lines \subseteq Goods /\ IsFiniteSet(Lines)
  BY PricingAssumption, FS_Subset DEF Lines
<1>3. Eligible(offer) \subseteq Lines
  BY DEF Eligible
<1> HIDE DEF Worth
<1>4. \A x \in Lines : LinePrice[x] \in Nat
  BY <1>1, <1>2
<1>5. Worth(Lines) \in Nat
  BY <1>2, <1>4, SumOfSome DEF Worth
<1> QED BY <1>2, <1>3, <1>4, <1>5, SumOfSome DEF Worth

(* A discount is a natural number, and at most what its lines are worth.   *)
LEMMA DiscountFact ==
    ASSUME BasketIsPriced, code # NoCoupon
    PROVE  DiscountOf(code) \in Nat /\ DiscountOf(code) <= Worth(Eligible(code))
<1> DEFINE worth == Worth(Eligible(code))
<1>1. worth \in Nat /\ code.value \in Nat /\ code.max \in Nat
  BY WorthFact, PricingAssumption DEF BasketIsPriced
<1>2. Percent(worth, code.value) \in Nat
  <2> HIDE DEF worth
  <2>1. worth * code.value \in Nat
    BY <1>1
  <2> DEFINE product == worth * code.value
  <2>2. (product + 50) \div 100 \in Nat
    <3> HIDE DEF product
    <3> QED BY <2>1 DEF product
  <2> QED BY <2>2 DEF Percent
<1> HIDE DEF worth
<1> QED BY <1>1, <1>2 DEF DiscountOf, Least, worth

LEMMA PricingInitInv == PricingInit => PricingInv
  BY DEF PricingInit, PricingInv, BasketIsPriced

(* Nothing but the quotes changes.                                         *)
LEMMA PricingStepInv == PricingInv /\ [PricingStep]_pricingVars => PricingInv'
<1> SUFFICES ASSUME PricingInv, [PricingStep]_pricingVars PROVE PricingInv'
  OBVIOUS
<1>1. UNCHANGED <<basket, code>>
  BY DEF PricingStep, ShowCart, PlaceOrder, pricingVars
<1>2. BasketIsPriced' /\ LinePrice' = LinePrice /\ Lines' = Lines
  BY <1>1 DEF PricingInv, BasketIsPriced, LinePrice, Lines
<1>3. CartQuote' = CartQuote
  BY <1>2 DEF CartQuote, Worth
<1>4. OrderQuote(IF code = NoCoupon THEN 0 ELSE DiscountOf(code))' = OrderQuote(IF code = NoCoupon THEN 0 ELSE DiscountOf(code))
  BY <1>1, <1>2 DEF OrderQuote, DiscountOf, Eligible, Worth
<1>5. CASE ShowCart
  BY <1>2, <1>3, <1>4, <1>5 DEF ShowCart, PricingInv
<1>6. CASE PlaceOrder
  BY <1>2, <1>3, <1>4, <1>6 DEF PlaceOrder, PricingInv
<1>7. CASE UNCHANGED pricingVars
  BY <1>2, <1>3, <1>4, <1>7 DEF pricingVars, PricingInv
<1> QED BY <1>5, <1>6, <1>7 DEF PricingStep

(* Whatever is in the basket and whatever the coupon, the cart, the        *)
(* storefront's summary and the order agree on who pays what.              *)
THEOREM TheBillIsAsShown == PricingSpec => []QuotesAgree
<1>1. PricingInv => QuotesAgree
  <2> SUFFICES ASSUME PricingInv, bill # NoQuote PROVE QuotesAgree
    BY DEF QuotesAgree, Billed
  <2> DEFINE discount == IF code = NoCoupon THEN 0 ELSE DiscountOf(code)
             all == Worth(Lines)
             left == all - discount
  <2>1. /\ all \in Nat /\ discount \in Nat /\ discount <= all
        /\ discount <= (IF code = NoCoupon THEN 0 ELSE Worth(Eligible(code)))
    BY WorthFact, DiscountFact DEF PricingInv
  <2>2. /\ left \in Nat /\ left <= all /\ (code = NoCoupon => left = all)
        /\ ~(discount > all)
    BY <2>1
  <2>3. /\ bill.discount = discount
        /\ bill.total = left + Shipping(all) + Percent(left, TaxPercent)
        /\ bill.subtotal = all /\ bill.shipping = Shipping(all) /\ bill.tax = Percent(left, TaxPercent)
    BY <2>2 DEF PricingInv, OrderQuote
  <2>4. /\ shown.subtotal = all /\ shown.discount = 0 /\ shown.shipping = Shipping(all)
        /\ shown.tax = Percent(all, TaxPercent)
        /\ shown.total = all + Shipping(all) + Percent(all, TaxPercent)
    BY DEF PricingInv, CartQuote
  <2> HIDE DEF left, all, discount
  <2>5. /\ Shipping(all) \in Nat /\ Percent(left, TaxPercent) \in Nat /\ Percent(all, TaxPercent) \in Nat
        /\ Percent(left, TaxPercent) <= Percent(all, TaxPercent)
    BY <2>1, <2>2, TaxFact, ShippingFact
  <2>6. bill.total <= shown.total
    BY <2>1, <2>2, <2>3, <2>4, <2>5
  <2>7. code = NoCoupon => bill = shown
    BY <2>1, <2>2 DEF PricingInv, OrderQuote, CartQuote, left, all, discount
  <2>8. bill.total <= Summary.total
    <3> DEFINE taken == IF code # NoCoupon /\ Accepted(code) THEN Least(DiscountOf(code), shown.subtotal) ELSE 0
    <3>1. Summary.total = IF taken > shown.total THEN 0 ELSE shown.total - taken
      BY DEF PricingInv, Summary, CartQuote, NoQuote
    <3>2. taken \in Nat /\ taken <= discount
      BY <2>1, <2>4 DEF Least, discount, all
    <3> HIDE DEF taken
    <3>3. shown.total = all + Shipping(all) + Percent(all, TaxPercent) /\ left = all - discount
      BY <2>4 DEF left
    <3> QED BY <2>1, <2>2, <2>3, <2>5, <3>1, <3>2, <3>3
  <2> QED BY <2>1, <2>3, <2>6, <2>7, <2>8 DEF QuotesAgree
<1> QED BY PricingInitInv, PricingStepInv, <1>1, PTL DEF PricingSpec

----------------------------------------------------------------------------
(* The address book.                                                       *)

(* Between the look of a request and its transaction nobody takes its      *)
(* address out of the book, or the default flag to or from an address that *)
(* is about to be deleted.                                                 *)
BookHolds ==
    \A r \in AddressRequests :
        LET q == addrReq[r] IN
        addrReq'[r] # IdleAddrReq =>
            /\ q.kind \in {"update", "delete", "setDefault"} => q.address \in live'
            /\ q.kind = "delete" => (q.address \in default' <=> q.address \in default)

(* That is so when the customer's requests come one after the other.       *)
BookInTurn == \A q, r \in AddressRequests : q = r

LookIsCurrent(q) ==
    /\ q.kind \in {"update", "delete", "setDefault"} => q.address \in live
    /\ q.kind = "delete" => (q.flag <=> q.address \in default)

(* The book has one default at most, and it is in the book; a request      *)
(* under way is about an address of the book, and a deletion knows whether *)
(* it takes the default.                                                   *)
AddressInv ==
    /\ created \in Nat /\ live \subseteq 1..created
    /\ default \subseteq live
    /\ \A a, b \in default : a = b
    /\ addrReq \in [AddressRequests ->
          [kind : {"idle", "create", "update", "delete", "setDefault"}, address : Nat, flag : BOOLEAN]]
    /\ \A r \in AddressRequests : LookIsCurrent(addrReq[r])

(* A finite set of numbers has a largest one.                              *)
LEMMA MaxIsIn ==
    ASSUME NEW S, IsFiniteSet(S), \A x \in S : x \in Nat, S # {} PROVE Max(S) \in S
<1> DEFINE above(x) == {y \in S : y >= x}
           C == {above(x) : x \in S}
<1>0. C # {}
  OBVIOUS
<1>1. C \in SUBSET (SUBSET S)
  OBVIOUS
<1>2. PICK t \in C : \A u \in C : u \subseteq t => u = t
  <2>1. IsFiniteSet(S)
    OBVIOUS
  <2> HIDE DEF C
  <2> QED BY <1>0, <1>1, <2>1, MinimalSubset
<1>3. PICK x \in S : t = above(x)
  OBVIOUS
<1>4. ASSUME NEW y \in S, ~ (x >= y) PROVE FALSE
  <2>0. x \in Nat /\ y \in Nat /\ y > x
    BY <1>4
  <2>1. \A z \in above(y) : z \in S /\ z >= x
    BY <2>0
  <2>3. above(y) \subseteq t
    BY <1>3, <2>1
  <2>2. x \in t /\ x \notin above(y)
    BY <1>3, <1>4
  <2> QED BY <1>2, <2>3, <2>2
<1>5. \A y \in S : x >= y
  BY <1>4
<1> QED BY <1>5 DEF Max

(* A step of the request keeps the book in order, and is as promised.      *)
BookKept ==
    /\ AddressInv'
    /\ Cardinality(default') <= 1 /\ default' \subseteq live'
    /\ live' # live /\ live' \subseteq live /\ live' # {}
          => (default \cap live # {} => default' \cap live' # {})

(* At most one element: cardinality at most one.                           *)
LEMMA AtMostOne ==
    ASSUME NEW S, \A a, b \in S : a = b PROVE Cardinality(S) <= 1
<1>1. CASE S = {}
  BY <1>1, FS_EmptySet
<1>2. CASE S # {}
  <2>1. PICK a : S = {a}
    BY <1>2
  <2> QED BY <2>1, FS_Singleton
<1> QED BY <1>1, <1>2

LEMMA BookAndPromise ==
    ASSUME AddressInv', 
           live' # live /\ live' \subseteq live /\ live' # {}
              => (default \cap live # {} => default' \cap live' # {})
    PROVE  BookKept
<1>1. PICK D : D = default'
  OBVIOUS
<1>2. \A a, b \in D : a = b
  BY <1>1 DEF AddressInv
<1>3. Cardinality(D) <= 1
  BY <1>2, AtMostOne
<1> QED BY <1>1, <1>3 DEF BookKept, AddressInv

(* A request that waits is still right about the book, when looks hold.    *)
LEMMA WaitingLooks ==
    ASSUME AddressInv, BookHolds, NEW q \in AddressRequests, addrReq'[q] = addrReq[q]
    PROVE  LookIsCurrent(addrReq[q])'
<1>1. CASE addrReq[q] = IdleAddrReq
  BY <1>1 DEF LookIsCurrent, IdleAddrReq
<1>2. CASE addrReq[q] # IdleAddrReq
  BY <1>2 DEF LookIsCurrent, AddressInv, BookHolds
<1> QED BY <1>1, <1>2

LEMMA AddressLookKeeps ==
    ASSUME AddressInv, BookHolds, NEW r \in AddressRequests, NEW kind \in {"create", "update", "delete", "setDefault"},
           NEW a \in Nat, NEW flag \in BOOLEAN, Look(r, kind, a, flag),
           kind # "create" => a \in live, kind = "delete" => (flag <=> a \in default)
    PROVE  BookKept
<1>1. UNCHANGED <<created, live, default>>
  BY DEF Look
<1>2. /\ addrReq'[r] = [kind |-> kind, address |-> a, flag |-> flag]
      /\ \A q \in AddressRequests \ {r} : addrReq'[q] = addrReq[q]
  BY DEF Look, AddressInv
<1>3. LookIsCurrent(addrReq[r])'
  BY <1>1, <1>2 DEF LookIsCurrent
<1>4. \A q \in AddressRequests : LookIsCurrent(addrReq[q])'
  BY <1>2, <1>3, WaitingLooks
<1>5. AddressInv'
  BY <1>1, <1>4 DEF AddressInv, Look
<1> QED BY <1>1, <1>5, BookAndPromise

(* The request ends with a book that is in order.                          *)
LEMMA WriteKeeps ==
    ASSUME AddressInv, BookHolds, NEW r \in AddressRequests, AddrDone(r),
           created' \in Nat, live' \subseteq 1..created', default' \subseteq live',
           \A a, b \in default' : a = b,
           live' # live /\ live' \subseteq live /\ live' # {}
              => (default \cap live # {} => default' \cap live' # {})
    PROVE  BookKept
<1>1. addrReq'[r] = IdleAddrReq /\ \A q \in AddressRequests \ {r} : addrReq'[q] = addrReq[q]
  BY DEF AddrDone, AddressInv
<1>2. addrReq' \in [AddressRequests ->
          [kind : {"idle", "create", "update", "delete", "setDefault"}, address : Nat, flag : BOOLEAN]]
  BY DEF AddrDone, AddressInv, IdleAddrReq
<1>3. LookIsCurrent(addrReq[r])'
  BY <1>1 DEF LookIsCurrent, IdleAddrReq
<1>4. \A q \in AddressRequests : LookIsCurrent(addrReq[q])'
  BY <1>1, <1>3, WaitingLooks
<1>5. AddressInv'
  BY <1>2, <1>4 DEF AddressInv
<1> QED BY <1>5, BookAndPromise

LEMMA AddressCreateKeeps ==
    ASSUME AddressInv, BookHolds, NEW r \in AddressRequests, CreateWrite(r) PROVE BookKept
<1>1. /\ created' = created + 1 /\ live' = live \cup {created + 1} /\ AddrDone(r)
      /\ default' = IF addrReq[r].flag THEN (default \ live) \cup {created + 1} ELSE default
  BY DEF CreateWrite
<1>2. created' \in Nat /\ live' \subseteq 1..created' /\ created + 1 \notin live
  BY <1>1 DEF AddressInv
<1>3. default' \subseteq live' /\ \A a, b \in default' : a = b
  BY <1>1 DEF AddressInv
<1> QED BY <1>1, <1>2, <1>3, WriteKeeps

LEMMA AddressUpdateKeeps ==
    ASSUME AddressInv, BookHolds, NEW r \in AddressRequests, UpdateWrite(r) PROVE BookKept
<1>1. PICK a : a = addrReq[r].address
  OBVIOUS
<1>2. a \in live
  BY <1>1 DEF AddressInv, LookIsCurrent, UpdateWrite, AddrServing
<1>3. /\ UNCHANGED <<created, live>> /\ AddrDone(r)
      /\ default' = IF addrReq[r].flag THEN (default \ live) \cup {a} ELSE default \ {a}
  BY <1>1 DEF UpdateWrite
<1>4. default' \subseteq live' /\ \A x, y \in default' : x = y
  BY <1>2, <1>3 DEF AddressInv
<1> QED BY <1>3, <1>4, WriteKeeps DEF AddressInv

LEMMA SetDefaultWriteKeeps ==
    ASSUME AddressInv, BookHolds, NEW r \in AddressRequests, SetDefaultWrite(r) PROVE BookKept
<1>1. PICK a : a = addrReq[r].address
  OBVIOUS
<1>2. a \in live
  BY <1>1 DEF AddressInv, LookIsCurrent, SetDefaultWrite, AddrServing
<1>3. /\ UNCHANGED <<created, live>> /\ AddrDone(r)
      /\ default' = (default \ live) \cup {a}
  BY <1>1 DEF SetDefaultWrite
<1>4. default' \subseteq live' /\ \A x, y \in default' : x = y
  BY <1>2, <1>3 DEF AddressInv
<1> QED BY <1>3, <1>4, WriteKeeps DEF AddressInv

LEMMA AddressDeleteKeeps ==
    ASSUME AddressInv, BookHolds, NEW r \in AddressRequests, DeleteWrite(r) PROVE BookKept
<1>1. PICK a : a = addrReq[r].address
  OBVIOUS
<1>2. a \in live /\ (addrReq[r].flag <=> a \in default)
  BY <1>1 DEF AddressInv, LookIsCurrent, DeleteWrite, AddrServing
<1>3. PICK others : others = live \ {a}
  OBVIOUS
<1>4. /\ UNCHANGED created /\ AddrDone(r) /\ live' = others
      /\ default' = (default \ {a}) \cup (IF addrReq[r].flag /\ others # {} THEN {Max(others)} ELSE {})
  BY <1>1, <1>3 DEF DeleteWrite
<1>5. others # {} => Max(others) \in others
  <2>0. created \in Nat /\ others \subseteq 1..created
    BY <1>3 DEF AddressInv
  <2>1. IsFiniteSet(1..created) /\ others \subseteq Nat
    BY <2>0, FS_Interval
  <2>2. IsFiniteSet(others)
    BY <2>0, <2>1, FS_Subset
  <2> QED BY <2>1, <2>2, MaxIsIn
<1>6. CASE a \in default
  <2>1. default \ {a} = {}
    BY <1>6 DEF AddressInv
  <2>2. default' = IF others # {} THEN {Max(others)} ELSE {}
    BY <1>2, <1>4, <1>6, <2>1
  <2>3. default' \subseteq live' /\ \A x, y \in default' : x = y
    BY <1>4, <1>5, <2>2
  <2>4. live' # {} => default' \cap live' # {}
    BY <1>4, <1>5, <2>2
  <2>5. live' \subseteq 1..created' /\ created' \in Nat
    BY <1>3, <1>4 DEF AddressInv
  <2> QED BY <1>4, <2>3, <2>4, <2>5, WriteKeeps
<1>7. CASE a \notin default
  <2>1. default' = default /\ default' \subseteq live'
    BY <1>2, <1>3, <1>4, <1>7 DEF AddressInv
  <2>2. live' \subseteq 1..created' /\ created' \in Nat
    BY <1>3, <1>4 DEF AddressInv
  <2>3. (default \cap live # {} => default' \cap live' # {}) /\ \A x, y \in default' : x = y
    BY <2>1 DEF AddressInv
  <2> QED BY <1>4, <2>1, <2>2, <2>3, WriteKeeps
<1> QED BY <1>6, <1>7

LEMMA AddressStepKeeps == ASSUME AddressInv, BookHolds, AddressStep PROVE BookKept
<1>0. live \subseteq Nat
  BY DEF AddressInv
<1>1. ASSUME NEW r \in AddressRequests, NEW flag \in BOOLEAN, CreateLook(r, flag) PROVE BookKept
  <2>1. PICK f \in BOOLEAN : f = (flag \/ live = {})
    OBVIOUS
  <2>2. Look(r, "create", 0, f)
    BY <1>1, <2>1 DEF CreateLook
  <2> QED BY <2>2, AddressLookKeeps
<1>2. ASSUME NEW r \in AddressRequests, NEW flag \in BOOLEAN, NEW a \in live, UpdateLook(r, a, flag) PROVE BookKept
  BY <1>0, <1>2, AddressLookKeeps DEF UpdateLook
<1>3. ASSUME NEW r \in AddressRequests, NEW a \in live, DeleteLook(r, a) PROVE BookKept
  <2>1. PICK f \in BOOLEAN : f <=> a \in default
    <3>1. CASE a \in default
      BY <3>1
    <3>2. CASE a \notin default
      BY <3>2
    <3> QED BY <3>1, <3>2
  <2>2. Look(r, "delete", a, f)
    BY <1>3, <2>1 DEF DeleteLook
  <2> QED BY <1>0, <2>1, <2>2, AddressLookKeeps
<1>4. ASSUME NEW r \in AddressRequests, NEW a \in live, SetDefaultLook(r, a) PROVE BookKept
  <2>1. Look(r, "setDefault", a, TRUE)
    BY <1>4 DEF SetDefaultLook
  <2> QED BY <1>0, <2>1, AddressLookKeeps
<1>5. ASSUME NEW r \in AddressRequests, CreateWrite(r) \/ UpdateWrite(r) \/ DeleteWrite(r) \/ SetDefaultWrite(r)
      PROVE  BookKept
  BY <1>5, AddressCreateKeeps, AddressUpdateKeeps, AddressDeleteKeeps, SetDefaultWriteKeeps
<1> QED BY <1>1, <1>2, <1>3, <1>4, <1>5 DEF AddressStep

(* A step that writes the book ends its request.                           *)
LEMMA BookTurn == ASSUME BookInTurn, AddressInv, AddressStep PROVE BookHolds
<1>1. \A q, r \in AddressRequests : q = r
  BY DEF BookInTurn
<1>2. CASE UNCHANGED <<live, default>>
  BY <1>2 DEF BookHolds, AddressInv, LookIsCurrent
<1>3. CASE \E r \in AddressRequests : AddrDone(r)
  BY <1>1, <1>3 DEF BookHolds, AddrDone, AddressInv
<1>4. ASSUME NEW r \in AddressRequests, CreateWrite(r) \/ UpdateWrite(r) \/ DeleteWrite(r) \/ SetDefaultWrite(r)
      PROVE  BookHolds
  BY <1>3, <1>4 DEF CreateWrite, UpdateWrite, DeleteWrite, SetDefaultWrite
<1> QED BY <1>2, <1>4 DEF AddressStep, CreateLook, UpdateLook, DeleteLook, SetDefaultLook, Look

(* For any number of addresses and of overlapping requests: one default at *)
(* most, in the book, handed on by a deletion, as long as nobody takes an  *)
(* address out of the book, or a flag to or from one about to be deleted,  *)
(* between another request's look and its transaction.                     *)
THEOREM OneDefaultIsKeptWhileLooksHold ==
    AddressSpec /\ [][BookHolds]_addressVars => OneDefault
<1>1. AddressInit => AddressInv
  BY DEF AddressInit, AddressInv, LookIsCurrent, IdleAddrReq
<1>2. AddressInv /\ AddressStep /\ BookHolds => BookKept
  BY AddressStepKeeps
<1>3. AddressInv /\ UNCHANGED addressVars => AddressInv'
  BY DEF AddressInv, LookIsCurrent, addressVars
<1>4. AddressInv /\ [AddressStep]_addressVars /\ [BookHolds]_addressVars => AddressInv'
  BY <1>2, <1>3 DEF BookKept
<1>5. AddressInv /\ [AddressStep]_addressVars /\ [BookHolds]_addressVars =>
        [/\ Cardinality(default') <= 1 /\ default' \subseteq live'
         /\ (live' # live /\ live' \subseteq live /\ live' # {}
             => (default \cap live # {} => default' \cap live' # {}))]_addressVars
  BY <1>2 DEF BookKept
<1> QED BY <1>1, <1>4, <1>5, PTL DEF AddressSpec, OneDefault

(* ... without that condition for requests one after the other.            *)
THEOREM OneDefaultIsKept == ASSUME BookInTurn PROVE AddressSpec => OneDefault
<1>1. AddressInit => AddressInv
  BY DEF AddressInit, AddressInv, LookIsCurrent, IdleAddrReq
<1>2. AddressInv /\ AddressStep => BookKept
  BY AddressStepKeeps, BookTurn
<1>3. AddressInv /\ UNCHANGED addressVars => AddressInv'
  BY DEF AddressInv, LookIsCurrent, addressVars
<1>4. AddressInv /\ [AddressStep]_addressVars => AddressInv'
  BY <1>2, <1>3 DEF BookKept
<1>5. AddressInv /\ [AddressStep]_addressVars =>
        [/\ Cardinality(default') <= 1 /\ default' \subseteq live'
         /\ (live' # live /\ live' \subseteq live /\ live' # {}
             => (default \cap live # {} => default' \cap live' # {}))]_addressVars
  BY <1>2 DEF BookKept
<1> QED BY <1>1, <1>4, <1>5, PTL DEF AddressSpec, OneDefault

----------------------------------------------------------------------------
(* The tree of categories and the products in it.                          *)

EditRecords ==
    {NoEdit}
    \cup [kind : {"move"}, stale : BOOLEAN, category : Cats, parent : Cats \cup {Top}]
    \cup [kind : {"delete"}, stale : BOOLEAN, category : Cats]
    \cup [kind : {"create", "update"}, stale : BOOLEAN, ware : Wares, category : Cats]

CatalogueTypes ==
    /\ parent \in [Cats -> Cats \cup {Top, Unborn, Gone}]
    /\ ware \in [Wares -> [category : Cats \cup {Top}, state : {"unborn", "live", "archived", "gone"}]]
    /\ edit \in [Editors -> EditRecords]
    /\ overlapped \in BOOLEAN

(* A row is only ever put below a row that is there.                       *)
ParentsAreThere == \A c \in Cats : parent[c] \in Cats => Shelved(parent[c])

(* In every set of rows there is one whose parent is outside.              *)
Forest == \A rows \in SUBSET Cats : rows # {} => \E d \in rows : parent[d] \notin rows

(* What an edit that nobody overtook has checked: a set of rows that is    *)
(* left upwards only by way of the top has the new parent in it and not    *)
(* the row to be moved; the category to be deleted has no live product.    *)
Separates(rows, c, p) ==
    /\ p \in rows /\ c \notin rows /\ Upward(rows)
    /\ \A d \in rows : Shelved(d)

Checked(r) ==
    /\ r.kind = "move" /\ ~r.stale =>
          r.parent = Top \/ \E rows \in SUBSET Cats : Separates(rows, r.category, r.parent)
    /\ r.kind = "delete" /\ ~r.stale => \A w \in In(r.category) : ware[w].state = "archived"

CatalogueInv ==
    /\ CatalogueTypes /\ ParentsAreThere
    /\ ~overlapped => /\ Forest
                      /\ \A e \in Editors : Checked(edit[e])

LEMMA NamesDiffer == Top \notin Cats /\ Unborn \notin Cats /\ Gone \notin Cats /\ Top # Unborn /\ Top # Gone /\ Unborn # Gone
<1>1. Top \notin Cats /\ Unborn \notin Cats /\ Gone \notin Cats
  BY CatalogueAssumption
<1>2. Top # Unborn /\ Top # Gone /\ Unborn # Gone
  BY DEF Top, Unborn, Gone
<1> QED BY <1>1, <1>2

(* The walk from a row that is there meets rows that are there.            *)
LEMMA LineSeparates ==
    ASSUME CatalogueTypes, ParentsAreThere, NEW c \in Cats, NEW p \in Cats, Shelved(p), c \notin Line(p)
    PROVE  Separates(Line(p), c, p)
<1> DEFINE there == {d \in Cats : Shelved(d)}
<1>1. there \in SUBSET Cats /\ p \in there /\ Upward(there)
  BY DEF ParentsAreThere, Upward
<1>2. \A d \in Line(p) : d \in there
  BY <1>1 DEF Line
<1>3. p \in Line(p)
  BY DEF Line
<1>4. Upward(Line(p))
  <2> SUFFICES ASSUME NEW d \in Line(p), parent[d] \in Cats, NEW rows \in SUBSET Cats, p \in rows, Upward(rows)
      PROVE  parent[d] \in rows
    BY DEF Upward, Line
  <2>1. d \in rows
    BY DEF Line
  <2> QED BY <2>1 DEF Upward
<1> QED BY <1>2, <1>3, <1>4 DEF Separates

(* In a forest no walk is circular.                                        *)
LEMMA NoWalkIsCircular ==
    ASSUME Forest, NEW c \in Cats PROVE ~Circular(c)
<1> SUFFICES ASSUME Circular(c) PROVE FALSE
  OBVIOUS
<1>1. c \in Line(c) /\ Line(c) \in SUBSET Cats
  BY DEF Line
<1>2. \A d \in Line(c) : parent[d] \in Line(c)
  <2> SUFFICES ASSUME NEW d \in Line(c), NEW rows \in SUBSET Cats, c \in rows, Upward(rows)
      PROVE  parent[d] \in rows
    BY DEF Line, Circular
  <2>1. d \in rows /\ parent[d] \in Cats
    BY DEF Line, Circular
  <2> QED BY <2>1 DEF Upward
<1>3. PICK L \in SUBSET Cats : L = Line(c)
  BY <1>1
<1> QED BY <1>1, <1>2, <1>3 DEF Forest

----------------------------------------------------------------------------
(* An edit begins, or ends without a write.                                *)
LEMMA EditOnly ==
    ASSUME CatalogueInv, NEW e \in Editors, NEW r \in EditRecords, edit' = [edit EXCEPT ![e] = r],
           UNCHANGED <<parent, ware, ordered, overlapped>>, ~overlapped => Checked(r)
    PROVE  CatalogueInv'
<1>1. CatalogueTypes' /\ ParentsAreThere'
  BY DEF CatalogueInv, CatalogueTypes, ParentsAreThere, Shelved
<1>2. ASSUME ~overlapped PROVE Forest'
  BY <1>2 DEF CatalogueInv, Forest
<1>3. ASSUME ~overlapped, NEW f \in Editors PROVE Checked(edit[f])'
  <2>1. PICK q : q = edit'[f]
    OBVIOUS
  <2>2. Checked(q)
    BY <1>3, <2>1 DEF CatalogueInv, CatalogueTypes
  <2>3. Checked(q)'
    BY <2>2 DEF Checked, Separates, Upward, Shelved, In, Stored
  <2> QED BY <2>1, <2>3 DEF Checked
<1> QED BY <1>1, <1>2, <1>3 DEF CatalogueInv

(* A commit: every other edit is out of date.                              *)
LEMMA CommitFact ==
    ASSUME CatalogueTypes, NEW e \in Editors, Commits(e)
    PROVE  /\ edit' \in [Editors -> EditRecords] /\ overlapped' \in BOOLEAN
           /\ \A f \in Editors : edit'[f] = NoEdit \/ edit'[f].stale
           /\ ~overlapped' => ~overlapped /\ ~edit[e].stale
<1>1. ASSUME NEW f \in Editors PROVE edit'[f] \in EditRecords /\ (edit'[f] = NoEdit \/ edit'[f].stale)
  <2>1. edit'[f] = NoEdit \/ (edit[f] # NoEdit /\ edit'[f] = [edit[f] EXCEPT !.stale = TRUE])
    BY DEF Commits
  <2>2. CASE edit[f] # NoEdit /\ edit'[f] = [edit[f] EXCEPT !.stale = TRUE]
    <3>1. PICK r : r = edit[f]
      OBVIOUS
    <3>2. PICK q : q = [r EXCEPT !.stale = TRUE]
      OBVIOUS
    <3>3. r \in EditRecords \ {NoEdit}
      BY <2>2, <3>1 DEF CatalogueTypes
    <3>4. CASE r \in [kind : {"move"}, stale : BOOLEAN, category : Cats, parent : Cats \cup {Top}]
      BY <2>2, <3>1, <3>2, <3>4 DEF EditRecords
    <3>5. CASE r \in [kind : {"delete"}, stale : BOOLEAN, category : Cats]
      BY <2>2, <3>1, <3>2, <3>5 DEF EditRecords
    <3>6. CASE r \in [kind : {"create", "update"}, stale : BOOLEAN, ware : Wares, category : Cats]
      BY <2>2, <3>1, <3>2, <3>6 DEF EditRecords
    <3> QED BY <3>3, <3>4, <3>5, <3>6 DEF EditRecords
  <2> QED BY <2>1, <2>2 DEF EditRecords
<1>2. edit' \in [Editors -> EditRecords]
  <2>1. edit' = [f \in Editors |-> edit'[f]]
    BY DEF Commits
  <2> QED BY <1>1, <2>1
<1>3. edit[e].stale \in BOOLEAN \/ edit[e] = NoEdit
  BY DEF CatalogueTypes, EditRecords
<1>4. overlapped' = (overlapped \/ edit[e].stale)
  BY DEF Commits
<1> QED BY <1>1, <1>2, <1>4 DEF CatalogueTypes

(* After a commit nothing is known of other edits, nor need it be.         *)
LEMMA CommitChecks ==
    ASSUME \A f \in Editors : edit'[f] = NoEdit \/ edit'[f].stale
    PROVE  \A f \in Editors : Checked(edit[f])'
  BY DEF Checked, NoEdit

LEMMA EditCommitKeeps ==
    ASSUME CatalogueInv, NEW e \in Editors, Commits(e),
           parent' \in [Cats -> Cats \cup {Top, Unborn, Gone}],
           ware' \in [Wares -> [category : Cats \cup {Top}, state : {"unborn", "live", "archived", "gone"}]],
           ParentsAreThere',
           ~overlapped /\ ~edit[e].stale => Forest'
    PROVE  CatalogueInv'
  BY CommitFact, CommitChecks DEF CatalogueInv, CatalogueTypes

(* What an edit of a kind carries.                                         *)
LEMMA EditFields ==
    ASSUME CatalogueTypes, NEW e \in Editors
    PROVE  /\ edit[e].kind = "move" => edit[e].category \in Cats /\ edit[e].parent \in Cats \cup {Top}
           /\ edit[e].kind = "delete" => edit[e].category \in Cats
           /\ edit[e].kind \in {"create", "update"} => edit[e].ware \in Wares /\ edit[e].category \in Cats
<1>1. edit[e] \in EditRecords
  BY DEF CatalogueTypes
<1> QED BY <1>1 DEF EditRecords, NoEdit

LEMMA PlaceFact ==
    ASSUME NEW p \in Cats \cup {Top}, p \in Places
    PROVE  p # Unborn /\ p # Gone /\ (p \in Cats => Shelved(p))
  BY NamesDiffer DEF Places

(* Where a row is, a change of its parent leaves it.                       *)
LEMMA StillThere ==
    ASSUME CatalogueTypes, NEW c \in Cats, NEW p \in Cats \cup {Top}, p \in Places, ParentsAreThere,
           parent' = [parent EXCEPT ![c] = p]
    PROVE  /\ parent' \in [Cats -> Cats \cup {Top, Unborn, Gone}]
           /\ \A d \in Cats : Shelved(d) => Shelved(d)'
           /\ parent'[c] = p /\ \A d \in Cats \ {c} : parent'[d] = parent[d]
           /\ ParentsAreThere'
<1>1. parent'[c] = p /\ \A d \in Cats \ {c} : parent'[d] = parent[d]
  BY DEF CatalogueTypes
<1>2. p # Unborn /\ p # Gone /\ (p \in Cats => Shelved(p))
  BY PlaceFact
<1>3. \A d \in Cats : Shelved(d) => Shelved(d)'
  BY <1>1, <1>2 DEF Shelved
<1>4. ParentsAreThere'
  BY <1>1, <1>2, <1>3 DEF ParentsAreThere
<1>5. parent' \in [Cats -> Cats \cup {Top, Unborn, Gone}]
  BY DEF CatalogueTypes
<1> QED BY <1>1, <1>3, <1>4, <1>5

LEMMA CreateCategoryKeeps ==
    ASSUME CatalogueInv, NEW c \in Cats, NEW p \in Cats \cup {Top}, CreateCategory(c, p)
    PROVE  CatalogueInv'
<1>1. /\ parent[c] = Unborn /\ p \in Places /\ parent' = [parent EXCEPT ![c] = p]
      /\ UNCHANGED <<ware, ordered, edit, overlapped>>
  BY DEF CreateCategory
<1>2. /\ parent' \in [Cats -> Cats \cup {Top, Unborn, Gone}]
      /\ \A d \in Cats : Shelved(d) => Shelved(d)'
      /\ parent'[c] = p /\ \A d \in Cats \ {c} : parent'[d] = parent[d]
      /\ ParentsAreThere'
  BY <1>1, StillThere DEF CatalogueInv
<1>3. p # c /\ ~Shelved(c)
  BY <1>1, PlaceFact DEF Shelved
<1>4. ASSUME ~overlapped PROVE Forest'
  <2> SUFFICES ASSUME NEW rows \in SUBSET Cats, rows # {}, \A d \in rows : parent'[d] \in rows
      PROVE  FALSE
    BY DEF Forest
  <2>1. PICK others \in SUBSET Cats : others = rows \ {c}
    OBVIOUS
  <2>2. others # {}
    BY <1>2, <1>3, <2>1
  <2>3. \A d \in others : parent[d] \in rows /\ parent[d] # c
    BY <1>2, <1>3, <2>1 DEF CatalogueInv, ParentsAreThere
  <2>4. \A d \in others : parent[d] \in others
    BY <2>1, <2>3
  <2> QED BY <1>4, <2>2, <2>4 DEF CatalogueInv, Forest
<1>5. ASSUME ~overlapped, NEW e \in Editors PROVE Checked(edit[e])'
  <2>1. PICK r : r = edit[e]
    OBVIOUS
  <2>2. Checked(r) /\ edit'[e] = r
    BY <1>1, <1>5, <2>1 DEF CatalogueInv
  <2>3. \A rows \in SUBSET Cats : \A a, b : Separates(rows, a, b) => Separates(rows, a, b)'
    <3> SUFFICES ASSUME NEW rows \in SUBSET Cats, NEW a, NEW b, Separates(rows, a, b) PROVE Separates(rows, a, b)'
      OBVIOUS
    <3>1. c \notin rows
      BY <1>3 DEF Separates
    <3> QED BY <1>2, <3>1 DEF Separates, Upward
  <2>4. Checked(r)'
    BY <1>1, <2>2, <2>3 DEF Checked, In, Stored
  <2> QED BY <2>2, <2>4 DEF Checked
<1> QED BY <1>1, <1>2, <1>4, <1>5 DEF CatalogueInv, CatalogueTypes

LEMMA MoveKeeps ==
    ASSUME CatalogueInv, NEW e \in Editors, MoveWrite(e) PROVE CatalogueInv'
<1>0. PICK r : r = edit[e]
  OBVIOUS
<1>1. r.kind = "move" /\ r.category \in Cats /\ r.parent \in Cats \cup {Top}
  BY <1>0, EditFields DEF MoveWrite, CatalogueInv
<1>2. PICK c \in Cats, p \in Cats \cup {Top} : c = r.category /\ p = r.parent
  BY <1>1
<1>3. p \in Places /\ parent' = [parent EXCEPT ![c] = p] /\ Commits(e) /\ UNCHANGED <<ware, ordered>>
  BY <1>0, <1>2 DEF MoveWrite
<1>4. /\ parent' \in [Cats -> Cats \cup {Top, Unborn, Gone}]
      /\ \A d \in Cats : Shelved(d) => Shelved(d)'
      /\ parent'[c] = p /\ \A d \in Cats \ {c} : parent'[d] = parent[d]
      /\ ParentsAreThere'
  BY <1>3, StillThere DEF CatalogueInv
<1>5. ASSUME ~overlapped, ~edit[e].stale PROVE Forest'
  <2> SUFFICES ASSUME NEW rows \in SUBSET Cats, rows # {}, \A d \in rows : parent'[d] \in rows
      PROVE  FALSE
    BY DEF Forest
  <2>1. Forest /\ (p = Top \/ \E line \in SUBSET Cats : Separates(line, c, p))
    BY <1>0, <1>1, <1>2, <1>5 DEF CatalogueInv, Checked
  <2>2. CASE c \notin rows
    <3>1. \A d \in rows : parent[d] \in rows
      BY <1>4, <2>2
    <3> QED BY <2>1, <3>1 DEF Forest
  <2>3. CASE c \in rows
    <3>1. p \in rows /\ p # Top
      BY <1>4, <2>3, NamesDiffer
    <3>2. PICK line \in SUBSET Cats : Separates(line, c, p)
      BY <2>1, <3>1
    <3>3. PICK both \in SUBSET Cats : both = rows \cap line
      OBVIOUS
    <3>4. both # {}
      BY <3>1, <3>2, <3>3 DEF Separates
    <3>5. \A d \in both : parent[d] \in both
      BY <1>4, <3>2, <3>3 DEF Separates, Upward
    <3> QED BY <2>1, <3>4, <3>5 DEF Forest
  <2> QED BY <2>2, <2>3
<1>6. ware' \in [Wares -> [category : Cats \cup {Top}, state : {"unborn", "live", "archived", "gone"}]]
  BY <1>3 DEF CatalogueInv, CatalogueTypes
<1> QED BY <1>3, <1>4, <1>5, <1>6, EditCommitKeeps

LEMMA DeleteCategoryKeeps ==
    ASSUME CatalogueInv, NEW e \in Editors, DeleteCategoryWrite(e) PROVE CatalogueInv'
<1>0. PICK r : r = edit[e]
  OBVIOUS
<1>1. r.kind = "delete" /\ r.category \in Cats
  BY <1>0, EditFields DEF DeleteCategoryWrite, CatalogueInv
<1>2. PICK c \in Cats : c = r.category
  BY <1>1
<1>3. /\ parent' = [d \in Cats |-> IF d = c THEN Gone ELSE IF d \in Under(c) THEN Top ELSE parent[d]]
      /\ ware' = [w \in Wares |-> IF w \in In(c) THEN [ware[w] EXCEPT !.state = "gone"] ELSE ware[w]]
      /\ Commits(e)
  BY <1>0, <1>2 DEF DeleteCategoryWrite
<1>4. parent' \in [Cats -> Cats \cup {Top, Unborn, Gone}]
  BY <1>3 DEF CatalogueInv, CatalogueTypes
<1>5. \A d \in Cats : /\ d = c => parent'[d] = Gone
                      /\ d # c /\ parent[d] = c => parent'[d] = Top
                      /\ d # c /\ parent[d] # c => parent'[d] = parent[d]
  BY <1>3 DEF Under
<1>6. \A d \in Cats \ {c} : Shelved(d) => Shelved(d)'
  BY <1>5, NamesDiffer DEF Shelved
<1>7. ParentsAreThere'
  <2> SUFFICES ASSUME NEW d \in Cats, parent'[d] \in Cats PROVE Shelved(parent[d])'
    BY DEF ParentsAreThere
  <2>1. parent'[d] = parent[d] /\ parent[d] # c
    BY <1>5, NamesDiffer
  <2> QED BY <1>6, <2>1 DEF CatalogueInv, ParentsAreThere, Shelved
<1>8. ware' \in [Wares -> [category : Cats \cup {Top}, state : {"unborn", "live", "archived", "gone"}]]
  BY <1>3 DEF CatalogueInv, CatalogueTypes
<1>9. ASSUME ~overlapped PROVE Forest'
  <2> SUFFICES ASSUME NEW rows \in SUBSET Cats, rows # {}, \A d \in rows : parent'[d] \in rows
      PROVE  FALSE
    BY DEF Forest
  <2>1. \A d \in rows : parent[d] = parent'[d]
    BY <1>5, NamesDiffer
  <2> QED BY <1>9, <2>1 DEF CatalogueInv, Forest
<1> QED BY <1>3, <1>4, <1>7, <1>8, <1>9, EditCommitKeeps

LEMMA ProductKeeps ==
    ASSUME CatalogueInv, NEW e \in Editors, CreateProductWrite(e) \/ UpdateProductWrite(e) PROVE CatalogueInv'
<1>0. PICK r : r = edit[e]
  OBVIOUS
<1>1. r.ware \in Wares /\ r.category \in Cats
  BY <1>0, EditFields DEF CreateProductWrite, UpdateProductWrite, CatalogueInv
<1>2. PICK w \in Wares, c \in Cats : w = r.ware /\ c = r.category
  BY <1>1
<1>3. /\ Shelved(c) /\ Commits(e) /\ UNCHANGED <<parent, ordered>>
      /\ \/ ware' = [ware EXCEPT ![w] = [category |-> c, state |-> "live"]]
         \/ ware' = [ware EXCEPT ![w].category = c]
  BY <1>0, <1>2 DEF CreateProductWrite, UpdateProductWrite
<1>4. ware' \in [Wares -> [category : Cats \cup {Top}, state : {"unborn", "live", "archived", "gone"}]]
  BY <1>3 DEF CatalogueInv, CatalogueTypes
<1>5. ParentsAreThere' /\ (Forest => Forest')
  BY <1>3 DEF CatalogueInv, ParentsAreThere, Shelved, Forest
<1>6. parent' \in [Cats -> Cats \cup {Top, Unborn, Gone}]
  BY <1>3 DEF CatalogueInv, CatalogueTypes
<1> QED BY <1>3, <1>4, <1>5, <1>6, EditCommitKeeps DEF CatalogueInv

LEMMA ArchiveKeeps ==
    ASSUME CatalogueInv, NEW w \in Wares, ArchiveProduct(w) PROVE CatalogueInv'
<1>1. ware' = [ware EXCEPT ![w].state = "archived"] /\ Stored(w) /\ UNCHANGED <<parent, ordered, edit, overlapped>>
  BY DEF ArchiveProduct
<1>2. /\ ware' \in [Wares -> [category : Cats \cup {Top}, state : {"unborn", "live", "archived", "gone"}]]
      /\ \A v \in Wares : ware'[v].category = ware[v].category
      /\ ware'[w].state = "archived" /\ \A v \in Wares \ {w} : ware'[v].state = ware[v].state
  BY <1>1 DEF CatalogueInv, CatalogueTypes
<1>3. ASSUME ~overlapped, NEW e \in Editors PROVE Checked(edit[e])'
  <2>1. PICK r : r = edit[e]
    OBVIOUS
  <2>2. Checked(r) /\ edit'[e] = r
    BY <1>1, <1>3, <2>1 DEF CatalogueInv
  <2>3. \A c : In(c)' = In(c)
    BY <1>1, <1>2 DEF In, Stored
  <2>4. \A c : (\A v \in In(c) : ware[v].state = "archived") => \A v \in In(c) : ware'[v].state = "archived"
    BY <1>2 DEF In
  <2>5. Checked(r)'
    BY <1>1, <2>2, <2>3, <2>4 DEF Checked, Separates, Upward, Shelved
  <2> QED BY <2>2, <2>5 DEF Checked
<1> QED BY <1>1, <1>2, <1>3 DEF CatalogueInv, CatalogueTypes, ParentsAreThere, Shelved, Forest

LEMMA CatalogueReads ==
    ASSUME CatalogueInv, NEW e \in Editors,
           \/ \E c \in Cats, p \in Cats \cup {Top} : MoveRead(e, c, p)
           \/ \E c \in Cats : DeleteCategoryRead(e, c)
           \/ \E w \in Wares, c \in Cats : CreateProductRead(e, w, c) \/ UpdateProductRead(e, w, c)
           \/ EditFails(e)
    PROVE  CatalogueInv'
<1>1. ASSUME NEW c \in Cats, NEW p \in Cats \cup {Top}, MoveRead(e, c, p) PROVE CatalogueInv'
  <2>1. PICK r : r = [kind |-> "move", stale |-> FALSE, category |-> c, parent |-> p]
    OBVIOUS
  <2>2. r \in EditRecords /\ r.kind = "move" /\ r.category = c /\ r.parent = p
    BY <2>1 DEF EditRecords
  <2>3. p = Top \/ Separates(Line(p), c, p)
    BY <1>1, LineSeparates, PlaceFact DEF MoveRead, MayMove, CatalogueInv
  <2>4. Checked(r)
    <3>1. Line(p) \in SUBSET Cats
      BY DEF Line
    <3> QED BY <2>2, <2>3, <3>1 DEF Checked
  <2>5. edit' = [edit EXCEPT ![e] = r] /\ UNCHANGED <<parent, ware, ordered, overlapped>>
    BY <1>1, <2>1 DEF MoveRead, Opens
  <2> QED BY <2>2, <2>4, <2>5, EditOnly
<1>2. ASSUME NEW c \in Cats, DeleteCategoryRead(e, c) PROVE CatalogueInv'
  <2>1. PICK r : r = [kind |-> "delete", stale |-> FALSE, category |-> c]
    OBVIOUS
  <2>2. r \in EditRecords /\ r.kind = "delete" /\ r.category = c
    BY <2>1 DEF EditRecords
  <2>3. Checked(r)
    BY <1>2, <2>2 DEF Checked, DeleteCategoryRead
  <2>4. edit' = [edit EXCEPT ![e] = r] /\ UNCHANGED <<parent, ware, ordered, overlapped>>
    BY <1>2, <2>1 DEF DeleteCategoryRead, Opens
  <2> QED BY <2>2, <2>3, <2>4, EditOnly
<1>3. ASSUME NEW w \in Wares, NEW c \in Cats, CreateProductRead(e, w, c) \/ UpdateProductRead(e, w, c)
      PROVE  CatalogueInv'
  <2>1. PICK k \in {"create", "update"} : Opens(e, [kind |-> k, stale |-> FALSE, ware |-> w, category |-> c])
    BY <1>3 DEF CreateProductRead, UpdateProductRead
  <2>2. PICK r : r = [kind |-> k, stale |-> FALSE, ware |-> w, category |-> c]
    OBVIOUS
  <2>3. r \in EditRecords /\ r.kind = k
    BY <2>2 DEF EditRecords
  <2>4. Checked(r)
    BY <2>3 DEF Checked
  <2>5. edit' = [edit EXCEPT ![e] = r] /\ UNCHANGED <<parent, ware, ordered, overlapped>>
    BY <2>1, <2>2 DEF Opens
  <2> QED BY <2>3, <2>4, <2>5, EditOnly
<1>4. ASSUME EditFails(e) PROVE CatalogueInv'
  <2>1. NoEdit \in EditRecords /\ Checked(NoEdit)
    BY DEF EditRecords, Checked, NoEdit
  <2> QED BY <1>4, <2>1, EditOnly DEF EditFails
<1> QED BY <1>1, <1>2, <1>3, <1>4

LEMMA CatalogueBegins == ASSUME CatalogueInit PROVE CatalogueInv
<1>1. CatalogueTypes
  BY DEF CatalogueInit, CatalogueTypes, EditRecords
<1>2. \A c \in Cats : parent[c] = Unborn
  BY DEF CatalogueInit
<1>3. ParentsAreThere /\ Forest
  BY <1>2, NamesDiffer DEF ParentsAreThere, Forest
<1>4. \A e \in Editors : Checked(edit[e])
  BY DEF CatalogueInit, Checked, NoEdit
<1> QED BY <1>1, <1>3, <1>4 DEF CatalogueInv

(* A product that is not archived is gone only after a deletion that did   *)
(* not see it.                                                             *)
LEMMA LiveOnesGoUnseen ==
    ASSUME CatalogueInv, [CatalogueStep]_catalogueVars, NEW w \in Wares, ware[w].state = "live", ware'[w].state = "gone"
    PROVE  overlapped'
<1>1. CASE \E e \in Editors : DeleteCategoryWrite(e)
  <2>1. PICK e \in Editors : DeleteCategoryWrite(e)
    BY <1>1
  <2>2. PICK r : r = edit[e]
    OBVIOUS
  <2>3. r.kind = "delete" /\ r.category \in Cats
    BY <2>1, <2>2, EditFields DEF DeleteCategoryWrite, CatalogueInv
  <2>4. ware' = [v \in Wares |-> IF v \in In(r.category) THEN [ware[v] EXCEPT !.state = "gone"] ELSE ware[v]]
    BY <2>1, <2>2 DEF DeleteCategoryWrite
  <2>5. w \in In(r.category)
    BY <2>4
  <2>6. overlapped \/ r.stale
    BY <2>2, <2>3, <2>5 DEF CatalogueInv, Checked
  <2> QED BY <2>1, <2>2, <2>6 DEF DeleteCategoryWrite, Commits
<1>2. CASE UNCHANGED ware
  BY <1>2
<1>3. ASSUME NEW e \in Editors, CreateProductWrite(e) \/ UpdateProductWrite(e) PROVE FALSE
  <2>1. PICK v, c : ware' = [ware EXCEPT ![v] = [category |-> c, state |-> "live"]] \/ ware' = [ware EXCEPT ![v].category = c]
    BY <1>3 DEF CreateProductWrite, UpdateProductWrite
  <2> QED BY <2>1 DEF CatalogueInv, CatalogueTypes
<1>4. ASSUME NEW v \in Wares, ArchiveProduct(v) PROVE FALSE
  BY <1>4 DEF ArchiveProduct, CatalogueInv, CatalogueTypes
<1>5. ASSUME NEW e \in Editors,
             \/ \E c \in Cats, p \in Cats \cup {Top} : MoveRead(e, c, p)
             \/ \E c \in Cats : DeleteCategoryRead(e, c)
             \/ \E v \in Wares, c \in Cats : CreateProductRead(e, v, c) \/ UpdateProductRead(e, v, c)
             \/ MoveWrite(e) \/ EditFails(e)
      PROVE  UNCHANGED ware
  BY <1>5 DEF MoveRead, DeleteCategoryRead, CreateProductRead, UpdateProductRead, MoveWrite, EditFails, Opens
<1>6. ASSUME \/ \E c \in Cats, p \in Cats \cup {Top} : CreateCategory(c, p)
             \/ \E v \in Wares : OrderProduct(v)
             \/ UNCHANGED catalogueVars
      PROVE  UNCHANGED ware
  BY <1>6 DEF CreateCategory, OrderProduct, catalogueVars
<1> QED BY <1>1, <1>2, <1>3, <1>4, <1>5, <1>6 DEF CatalogueStep

(* For any categories, products and editors: the categories form a forest, *)
(* and a deletion takes no product that is not archived with its category, *)
(* unless two edits overlapped.                                            *)
THEOREM TheTreeStands == CatalogueSpec => CatalogueHolds
<1>1. CatalogueInit => CatalogueInv
  BY CatalogueBegins
<1>2. CatalogueInv /\ [CatalogueStep]_catalogueVars => CatalogueInv'
  <2> SUFFICES ASSUME CatalogueInv, [CatalogueStep]_catalogueVars PROVE CatalogueInv'
    OBVIOUS
  <2>1. CASE UNCHANGED catalogueVars
    BY <2>1 DEF CatalogueInv, CatalogueTypes, ParentsAreThere, Forest, Checked, Separates, Upward,
        Shelved, In, Stored, catalogueVars
  <2>2. ASSUME NEW w \in Wares, OrderProduct(w) PROVE CatalogueInv'
    BY <2>2 DEF OrderProduct, CatalogueInv, CatalogueTypes, ParentsAreThere, Forest, Checked, Separates,
        Upward, Shelved, In, Stored
  <2> QED BY <2>1, <2>2, CreateCategoryKeeps, ArchiveKeeps, MoveKeeps, DeleteCategoryKeeps, ProductKeeps, CatalogueReads
          DEF CatalogueStep
<1>3. CatalogueInv => (overlapped \/ \A c \in Cats : Shelved(c) => ~Circular(c))
  BY NoWalkIsCircular DEF CatalogueInv
<1>4. CatalogueInv /\ [CatalogueStep]_catalogueVars
        => [\A w \in Wares : ware[w].state = "live" /\ ware'[w].state = "gone" => overlapped']_catalogueVars
  BY LiveOnesGoUnseen
<1> QED BY <1>1, <1>2, <1>3, <1>4, PTL DEF CatalogueSpec, CatalogueHolds
=============================================================================
