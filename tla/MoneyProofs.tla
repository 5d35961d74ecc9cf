---------------------------- MODULE MoneyProofs ----------------------------
(***************************************************************************)
(* Two parts that keep books of money: the cash drawer (CashSession) and   *)
(* returns and refunds (ReturnRefund), for any number of handlers, stores, *)
(* sessions, sales, lines, payments and keys, and any amounts.             *)
(*                                                                         *)
(* ExpectedAddsUp is not inductive: it needs that a movement inserted      *)
(* before a close is committed before it (TardyTellsStatus), which is what *)
(* the wait of close() for the share locks gives.                          *)
(*                                                                         *)
(* Nor is ReturnedMoneyAddsUp.  What holds after every return is that the  *)
(* money given back is what is due for the units returned by now, however  *)
(* they were spread over returns (Allocated); that needs the units a       *)
(* return counted to be there still when it commits (Reserved), which is   *)
(* what the lock on the sale's row gives.                                  *)
(***************************************************************************)
EXTENDS CashSession, ReturnRefund, SumsProofs

TardyTellsStatus ==
  \A h \in Handlers :
    at[h] = "inserted" => status[mine[h]] = IF tardy[h] THEN "CLOSED" ELSE "OPEN"

Inv == TypeOK /\ OneOpenPerStore /\ ExpectedAddsUp /\ TardyTellsStatus

LEMMA CashInit == Init => Inv
BY CashAssumption DEF Init, Inv, TypeOK, OneOpenPerStore, ExpectedAddsUp, TardyTellsStatus

(* Steps of handlers that leave the sessions alone.                        *)
LEMMA SessionsUntouched ==
  ASSUME Inv, TypeOK', UNCHANGED sessionVars
  PROVE  OneOpenPerStore' /\ ExpectedAddsUp'
BY DEF Inv, OneOpenPerStore, ExpectedAddsUp, sessionVars

LEMMA CashStep ==
  ASSUME Inv, [Next]_vars
  PROVE  Inv'
<1> USE CashAssumption
<1>0. TypeOK /\ OneOpenPerStore /\ ExpectedAddsUp /\ TardyTellsStatus
  BY DEF Inv
<1>1. ASSUME NEW h \in Handlers, NEW st \in Stores, CheckNoneOpen(h, st) PROVE Inv'
  <2> USE <1>1 DEF CheckNoneOpen
  <2>1. TypeOK'
    BY <1>0 DEF TypeOK, sessionVars
  <2>2. TardyTellsStatus'
    BY <1>0 DEF TypeOK, TardyTellsStatus, sessionVars
  <2> QED BY <2>1, <2>2, SessionsUntouched DEF Inv
<1>2. ASSUME NEW h \in Handlers, NEW i \in Sessions, NEW sum \in Openings, Open(h, i, sum)
      PROVE  Inv'
  <2> USE <1>2 DEF Open, Leave
  <2>1. place[h] \in Stores
    BY <1>0 DEF TypeOK
  <2>2. TypeOK'
    BY <1>0, <2>1 DEF TypeOK
  <2>3. OneOpenPerStore'
    BY <1>0, <2>1 DEF TypeOK, OneOpenPerStore, OpenIn
  <2>4. ExpectedAddsUp'
    BY <1>0 DEF TypeOK, ExpectedAddsUp
  <2>5. TardyTellsStatus'
    BY <1>0 DEF TypeOK, TardyTellsStatus
  <2> QED BY <2>2, <2>3, <2>4, <2>5 DEF Inv
<1>3. ASSUME NEW h \in Handlers, NEW i \in Sessions, NEW sum \in Cash, FindOpen(h, i, sum)
      PROVE  Inv'
  <2> USE <1>3 DEF FindOpen
  <2>1. TypeOK'
    BY <1>0 DEF TypeOK, sessionVars
  <2>2. TardyTellsStatus'
    BY <1>0 DEF TypeOK, TardyTellsStatus, sessionVars
  <2> QED BY <2>1, <2>2, SessionsUntouched DEF Inv
<1>4. ASSUME NEW h \in Handlers, Insert(h) PROVE Inv'
  <2> USE <1>4 DEF Insert
  <2>1. TypeOK'
    BY <1>0 DEF TypeOK, sessionVars
  <2>2. mine[h] \in Sessions /\ status[mine[h]] \in {"OPEN", "CLOSED"}
    BY <1>0 DEF TypeOK
  <2>3. TardyTellsStatus'
    BY <1>0, <2>2 DEF TypeOK, TardyTellsStatus, sessionVars
  <2> QED BY <2>1, <2>3, SessionsUntouched DEF Inv
<1>5. ASSUME NEW h \in Handlers, Commit(h) PROVE Inv'
  <2> USE <1>5 DEF Commit, Leave
  <2>1. mine[h] \in Sessions /\ amount[h] \in Int
    BY <1>0 DEF TypeOK
  <2>2. TypeOK'
    BY <1>0, <2>1 DEF TypeOK
  <2>3. OneOpenPerStore'
    BY <1>0 DEF OneOpenPerStore
  <2>4. ExpectedAddsUp'
    <3> SUFFICES ASSUME NEW i \in Sessions, status'[i] = "CLOSED"
                 PROVE  expected'[i] = opening'[i] + recorded'[i] - late'[i]
      BY DEF ExpectedAddsUp
    <3>1. /\ expected[i] = opening[i] + recorded[i] - late[i]
          /\ recorded[i] \in Int /\ late[i] \in Int /\ opening[i] \in Int
      BY <1>0 DEF ExpectedAddsUp, TypeOK
    <3>2. CASE i # mine[h]
      BY <1>0, <2>1, <3>1, <3>2 DEF TypeOK
    <3>3. CASE i = mine[h]
      <4>1. tardy[h]
        BY <1>0, <3>3 DEF TardyTellsStatus, TypeOK
      <4>2. recorded'[i] = recorded[i] + amount[h] /\ late'[i] = late[i] + amount[h]
        BY <1>0, <3>3, <4>1 DEF TypeOK
      <4> QED BY <2>1, <3>1, <4>2
    <3> QED BY <3>2, <3>3
  <2>5. TardyTellsStatus'
    BY <1>0 DEF TypeOK, TardyTellsStatus
  <2> QED BY <2>2, <2>3, <2>4, <2>5 DEF Inv
<1>6. ASSUME NEW h \in Handlers, RollBack(h) PROVE Inv'
  <2> USE <1>6 DEF RollBack, Leave
  <2>1. TypeOK'
    BY <1>0 DEF TypeOK, sessionVars
  <2>2. TardyTellsStatus'
    BY <1>0 DEF TypeOK, TardyTellsStatus, sessionVars
  <2> QED BY <2>1, <2>2, SessionsUntouched DEF Inv
<1>7. ASSUME NEW i \in Sessions, NEW sum \in Cash, AddMovement(i, sum) PROVE Inv'
  <2> USE <1>7 DEF AddMovement
  <2>1. TypeOK'
    BY <1>0 DEF TypeOK, handlerVars
  <2>2. OneOpenPerStore'
    BY <1>0 DEF OneOpenPerStore
  <2>3. ExpectedAddsUp'
    BY <1>0 DEF TypeOK, ExpectedAddsUp
  <2>4. TardyTellsStatus'
    BY <1>0 DEF TardyTellsStatus, handlerVars
  <2> QED BY <2>1, <2>2, <2>3, <2>4 DEF Inv
<1>8. ASSUME NEW i \in Sessions, Close(i) PROVE Inv'
  <2> USE <1>8 DEF Close
  <2>1. opening[i] + recorded[i] \in Int
    BY <1>0 DEF TypeOK
  <2>2. TypeOK'
    BY <1>0, <2>1 DEF TypeOK, handlerVars
  <2>3. OneOpenPerStore'
    BY <1>0 DEF TypeOK, OneOpenPerStore
  <2>4. ExpectedAddsUp'
    BY <1>0 DEF TypeOK, ExpectedAddsUp
  <2>5. TardyTellsStatus'
    BY <1>0 DEF TypeOK, TardyTellsStatus, ShareLocked, handlerVars
  <2> QED BY <2>2, <2>3, <2>4, <2>5 DEF Inv
<1>9. CASE UNCHANGED vars
  BY <1>0, <1>9 DEF vars, sessionVars, handlerVars, Inv, TypeOK, OneOpenPerStore,
     ExpectedAddsUp, TardyTellsStatus
<1> QED BY <1>1, <1>2, <1>3, <1>4, <1>5, <1>6, <1>7, <1>8, <1>9 DEF Next

LEMMA CashInvariant == Spec => []Inv
<1>1. Inv /\ [Next]_vars => Inv'
  BY CashStep
<1> QED BY <1>1, CashInit, PTL DEF Spec

(* No store ever has two open sessions.                                    *)
THEOREM OneOpenSessionPerStore == Spec => []OneOpenPerStore
<1>1. Inv => OneOpenPerStore
  BY DEF Inv
<1> QED BY <1>1, CashInvariant, PTL

(* A close misses no movement that was under way: what the drawer should   *)
(* hold is the opening amount and every movement but the late ones.        *)
THEOREM ClosingAddsUp == Spec => []ExpectedAddsUp
<1>1. Inv => ExpectedAddsUp
  BY DEF Inv
<1> QED BY <1>1, CashInvariant, PTL

-----------------------------------------------------------------------------
(* Rounding. *)
LEMMA DivMonotone ==
  ASSUME NEW a \in Nat, NEW b \in Nat, a <= b, NEW c \in Nat \ {0}
  PROVE  a \div c \in Nat /\ a \div c <= b \div c
OBVIOUS

LEMMA DivWhole ==
  ASSUME NEW x \in Nat, NEW c \in Nat \ {0}
  PROVE  (2 * x * c + c) \div (2 * c) = x
OBVIOUS

LEMMA TimesMonotone ==
  ASSUME NEW x \in Nat, NEW m \in Nat, NEW n \in Nat, m <= n
  PROVE  x * m \in Nat /\ x * m <= x * n
OBVIOUS

(* Of an amount x, what n of d parts are: more for more parts, all of it   *)
(* for all of them, nothing for none.                                      *)
LEMMA RoundedUpTo ==
  ASSUME NEW x \in Nat, NEW d \in Nat \ {0}
  PROVE  /\ \A n \in Nat : Rounded(x, n, d) \in Nat
         /\ \A m, n \in Nat : m <= n => Rounded(x, m, d) <= Rounded(x, n, d)
         /\ Rounded(x, d, d) = x
         /\ Rounded(x, 0, d) = 0
<1>1. 2 * x \in Nat /\ 2 * d \in Nat \ {0}
  OBVIOUS
<1>2. ASSUME NEW m \in Nat, NEW n \in Nat, m <= n
      PROVE  Rounded(x, m, d) \in Nat /\ Rounded(x, m, d) <= Rounded(x, n, d)
  <2>1. 2 * x * m \in Nat /\ 2 * x * n \in Nat /\ 2 * x * m <= 2 * x * n
    BY <1>1, <1>2, TimesMonotone
  <2>2. 2 * x * m + d \in Nat /\ 2 * x * n + d \in Nat /\ 2 * x * m + d <= 2 * x * n + d
    BY <2>1
  <2> QED BY <1>1, <2>2, DivMonotone DEF Rounded
<1>3. Rounded(x, d, d) = x
  BY DivWhole DEF Rounded
<1>4. Rounded(x, 0, d) = 0
  <2>1. 2 * x * 0 + d = d
    OBVIOUS
  <2>2. d \div (2 * d) = 0
    OBVIOUS
  <2> QED BY <2>1, <2>2 DEF Rounded
<1> QED BY <1>2, <1>3, <1>4

(* A sum of naturals grows with its terms, and with the set summed over.   *)
LEMMA SumOverMonotone ==
  ASSUME NEW S, IsFiniteSet(S), NEW f, NEW g,
         \A x \in S : f[x] \in Int /\ g[x] \in Int /\ f[x] <= g[x]
  PROVE  SumOver(f, S) <= SumOver(g, S)
<1> DEFINE d == [x \in S |-> g[x] - f[x]]
<1>1. \A x \in S : d[x] \in Nat /\ f[x] \in Int /\ d[x] \in Int /\ g[x] = f[x] + d[x]
  OBVIOUS
<1> HIDE DEF d
<1>2. SumOver(g, S) = SumOver(f, S) + SumOver(d, S)
  BY <1>1, SumOverAdd
<1>3. SumOver(d, S) \in Nat /\ SumOver(f, S) \in Int
  BY <1>1, SumOverNat, SumOverType
<1> QED BY <1>2, <1>3

-----------------------------------------------------------------------------
(* The books: what never changes of a sale. *)
Books ==
  /\ net \in [Lines -> Nat] /\ sold \in [Lines -> Nat \ {0}] /\ tax \in [Sales -> Nat]
  /\ \A s \in Sales : NetOf(s) = 0 => tax[s] = 0

(* The net price of the lines of s up to n, and before it. *)
Below(s, n) == SumOver(net, {m \in LinesOf(s) : m < n})

LEMMA LinesFinite ==
  /\ \A s : IsFiniteSet(LinesOf(s)) /\ LinesOf(s) \subseteq Lines
  /\ \A T \in SUBSET Lines : IsFiniteSet(T)
BY ReturnAssumption, FS_Subset DEF LinesOf

LEMMA NetType ==
  ASSUME Books, NEW s
  PROVE  /\ NetOf(s) \in Nat
         /\ \A n \in Nat : Below(s, n) \in Nat
<1>1. \A T \in SUBSET Lines : SumOver(net, T) \in Nat
  BY LinesFinite, SumOverNat DEF Books
<1> QED BY <1>1, LinesFinite DEF NetOf, Below

(* One line more. *)
LEMMA BelowNext ==
  ASSUME Books, NEW s, NEW n \in Nat
  PROVE  Below(s, n + 1) = IF n \in LinesOf(s) THEN Below(s, n) + net[n] ELSE Below(s, n)
<1> DEFINE S == {m \in LinesOf(s) : m < n}
           Q == {m \in LinesOf(s) : m < n + 1}
<1>0. LinesOf(s) \subseteq Nat /\ LinesOf(s) \subseteq Lines
  BY LinesFinite, ReturnAssumption
<1>1. CASE n \in LinesOf(s)
  <2>1. Q = S \cup {n} /\ n \notin S
    BY <1>0, <1>1
  <2>2. IsFiniteSet(S) /\ net[n] \in Int /\ \A x \in S : net[x] \in Int
    BY <1>0, <1>1, LinesFinite DEF Books
  <2>3. SumOver(net, Q) = SumOver(net, S) + net[n]
    <3> HIDE DEF S, Q
    <3> QED BY <2>1, <2>2, SumOverInsert
  <2> QED BY <1>1, <2>3 DEF Below
<1>2. CASE n \notin LinesOf(s)
  <2>1. Q = S
    BY <1>0, <1>2
  <2> QED BY <1>2, <2>1 DEF Below
<1> QED BY <1>1, <1>2

LEMMA UpToBelow ==
  ASSUME Books, NEW l \in Lines
  PROVE  /\ UpTo(l) = Below(SaleOf[l], l + 1)
         /\ UpTo(l) - net[l] = Below(SaleOf[l], l)
         /\ l \in LinesOf(SaleOf[l]) /\ l \in Nat
<1>1. l \in Nat /\ l \in LinesOf(SaleOf[l]) /\ LinesOf(SaleOf[l]) \subseteq Nat
  BY ReturnAssumption DEF LinesOf
<1>2. {m \in LinesOf(SaleOf[l]) : m <= l} = {m \in LinesOf(SaleOf[l]) : m < l + 1}
  BY <1>1
<1>3. UpTo(l) = Below(SaleOf[l], l + 1)
  BY <1>2 DEF UpTo, Below
<1>4. Below(SaleOf[l], l) \in Nat /\ net[l] \in Nat
  BY <1>1, NetType DEF Books
<1> QED BY <1>1, <1>3, <1>4, BelowNext

(* The tax of the first x cents grows with x; all of it falls on all of    *)
(* them.                                                                   *)
LEMMA TaxShares ==
  ASSUME Books, NEW s \in Sales
  PROVE  /\ \A x \in Nat : TaxShare(s, x) \in Nat
         /\ \A x, y \in Nat : x <= y => TaxShare(s, x) <= TaxShare(s, y)
         /\ TaxShare(s, 0) = 0
         /\ TaxShare(s, NetOf(s)) = tax[s]
<1>1. NetOf(s) \in Nat /\ tax[s] \in Nat
  BY NetType DEF Books
<1>2. CASE NetOf(s) > 0
  BY <1>1, <1>2, RoundedUpTo DEF TaxShare
<1>3. CASE NetOf(s) = 0
  <2>1. tax[s] = 0
    BY <1>3 DEF Books
  <2> QED BY <1>1, <1>3, <2>1 DEF TaxShare
<1> QED BY <1>1, <1>2, <1>3

LEMMA LineTaxType ==
  ASSUME Books, NEW l \in Lines
  PROVE  LineTax(l) \in Nat
<1> DEFINE s == SaleOf[l]
<1>1. s \in Sales /\ net[l] \in Nat
  BY ReturnAssumption DEF Books
<1>0. l \in Nat
  BY ReturnAssumption
<1> HIDE DEF s
<1>2. Below(s, l) \in Nat /\ Below(s, l + 1) \in Nat /\ Below(s, l) <= Below(s, l + 1)
  <2>1. Below(s, l) \in Nat /\ Below(s, l + 1) \in Nat
    <3>1. \A n \in Nat : Below(s, n) \in Nat
      BY NetType
    <3>2. l + 1 \in Nat
      BY <1>0
    <3> QED BY <1>0, <3>1, <3>2
  <2>2. Below(s, l + 1) \in {Below(s, l), Below(s, l) + net[l]}
    BY <1>0, BelowNext
  <2> QED BY <1>1, <2>1, <2>2
<1>3. LineTax(l) = TaxShare(s, Below(s, l + 1)) - TaxShare(s, Below(s, l))
  BY UpToBelow DEF LineTax, s
<1>4. /\ TaxShare(s, Below(s, l)) \in Nat /\ TaxShare(s, Below(s, l + 1)) \in Nat
      /\ TaxShare(s, Below(s, l)) <= TaxShare(s, Below(s, l + 1))
  BY <1>1, <1>2, TaxShares
<1> QED BY <1>3, <1>4

(* What is given back for a line: more for more units, its price and its   *)
(* tax for all of them.                                                    *)
LEMMA GivenBackUpTo ==
  ASSUME Books, NEW l \in Lines
  PROVE  /\ \A n \in Nat : GivenBack(l, n) \in Nat
         /\ \A m, n \in Nat : m <= n => GivenBack(l, m) <= GivenBack(l, n)
         /\ GivenBack(l, sold[l]) = net[l] + LineTax(l)
         /\ GivenBack(l, 0) = 0
<1>1. net[l] \in Nat /\ LineTax(l) \in Nat /\ sold[l] \in Nat \ {0}
  BY LineTaxType DEF Books
<1> DEFINE t == LineTax(l)
<1> HIDE DEF t
<1>2. \A n \in Nat : Rounded(net[l], n, sold[l]) \in Nat /\ Rounded(t, n, sold[l]) \in Nat
  BY <1>1, RoundedUpTo DEF t
<1>3. \A m, n \in Nat : m <= n =>
        /\ Rounded(net[l], m, sold[l]) <= Rounded(net[l], n, sold[l])
        /\ Rounded(t, m, sold[l]) <= Rounded(t, n, sold[l])
  BY <1>1, RoundedUpTo DEF t
<1>4. /\ Rounded(net[l], sold[l], sold[l]) = net[l] /\ Rounded(t, sold[l], sold[l]) = t
      /\ Rounded(net[l], 0, sold[l]) = 0 /\ Rounded(t, 0, sold[l]) = 0
  BY <1>1, RoundedUpTo DEF t
<1>5. \A n : GivenBack(l, n) = Rounded(net[l], n, sold[l]) + Rounded(t, n, sold[l])
  BY DEF GivenBack, t
<1> QED
  <2>1. \A m, n \in Nat : m <= n => GivenBack(l, m) <= GivenBack(l, n)
    <3> SUFFICES ASSUME NEW m \in Nat, NEW n \in Nat, m <= n
                 PROVE  GivenBack(l, m) <= GivenBack(l, n)
      OBVIOUS
    <3> QED BY <1>2, <1>3, <1>5
  <2>2. \A n \in Nat : GivenBack(l, n) \in Nat
    BY <1>2, <1>5
  <2>3. GivenBack(l, sold[l]) = net[l] + LineTax(l)
    BY <1>4, <1>5 DEF t
  <2>4. GivenBack(l, 0) = 0
    BY <1>4, <1>5
  <2> QED BY <2>1, <2>2, <2>3, <2>4

-----------------------------------------------------------------------------
(* The taxes of the lines add up to the tax of the sale.                   *)
LEMMA NumbersBounded ==
  ASSUME NEW S \in SUBSET Nat, IsFiniteSet(S)
  PROVE  \E n \in Nat : \A m \in S : m < n
<1> DEFINE U == {T \in SUBSET S : \E n \in Nat : \A m \in T : m < n}
<1>1. {} \in U
  OBVIOUS
<1>2. ASSUME NEW T \in SUBSET S, T # {} /\ T \ {AnyOf(T)} \in U PROVE T \in U
  <2>1. PICK n \in Nat : \A m \in T \ {AnyOf(T)} : m < n
    BY <1>2
  <2>2. AnyOf(T) \in Nat
    BY <1>2, AnyOfIn
  <2> DEFINE k == IF AnyOf(T) < n THEN n ELSE AnyOf(T) + 1
  <2>3. k \in Nat /\ \A m \in T : m < k
    BY <2>1, <2>2
  <2> QED BY <2>3
<1> HIDE DEF U
<1>3. SUBSET S \subseteq U
  BY <1>1, <1>2, SubsetInduction
<1>4. S \in U
  BY <1>3
<1> QED BY <1>4 DEF U

LineTaxes == [l \in Lines |-> LineTax(l)]

LEMMA TaxesAddUp ==
  ASSUME Books, NEW s \in Sales
  PROVE  SumOver(LineTaxes, LinesOf(s)) = tax[s]
<1> DEFINE To(n) == {m \in LinesOf(s) : m < n}
           T == {n \in Nat : SumOver(LineTaxes, To(n)) = TaxShare(s, Below(s, n))}
<1>0. /\ LinesOf(s) \subseteq Nat /\ IsFiniteSet(LinesOf(s)) /\ LinesOf(s) \subseteq Lines
      /\ \A n : IsFiniteSet(To(n)) /\ To(n) \subseteq Lines
  BY LinesFinite, ReturnAssumption
<1>1. 0 \in T
  <2>1. To(0) = {}
    BY <1>0
  <2>2. SumOver(LineTaxes, {}) = 0 /\ SumOver(net, {}) = 0
    BY FS_EmptySet, SumOverZero
  <2>3. Below(s, 0) = 0
    BY <2>1, <2>2 DEF Below
  <2> QED BY <2>1, <2>2, <2>3, TaxShares
<1>2. ASSUME NEW n \in Nat, n \in T PROVE n + 1 \in T
  <2>1. SumOver(LineTaxes, To(n)) = TaxShare(s, Below(s, n))
    BY <1>2
  <2>2. CASE n \in LinesOf(s)
    <3>1. To(n + 1) = To(n) \cup {n} /\ n \notin To(n)
      BY <1>0, <2>2
    <3>2. n \in Lines /\ SaleOf[n] = s
      BY <2>2 DEF LinesOf
    <3>3. \A l \in Lines : LineTaxes[l] = LineTax(l) /\ LineTax(l) \in Int
      BY LineTaxType DEF LineTaxes
    <3>4. SumOver(LineTaxes, To(n + 1)) = SumOver(LineTaxes, To(n)) + LineTax(n)
      <4>1. LineTaxes[n] \in Int /\ \A x \in To(n) : LineTaxes[x] \in Int
        BY <1>0, <3>2, <3>3
      <4>2. IsFiniteSet(To(n)) /\ LineTaxes[n] = LineTax(n)
        BY <1>0, <3>2, <3>3
      <4> HIDE DEF To
      <4> QED BY <3>1, <4>1, <4>2, SumOverInsert
    <3>5. LineTax(n) = TaxShare(s, Below(s, n + 1)) - TaxShare(s, Below(s, n))
      BY <3>2, UpToBelow DEF LineTax
    <3>6. Below(s, n) \in Nat /\ Below(s, n + 1) \in Nat
      <4>1. \A k \in Nat : Below(s, k) \in Nat
        BY NetType
      <4>2. n + 1 \in Nat
        OBVIOUS
      <4> QED BY <4>1, <4>2
    <3>7. TaxShare(s, Below(s, n)) \in Nat /\ TaxShare(s, Below(s, n + 1)) \in Nat
      BY <3>6, TaxShares
    <3> HIDE DEF To
    <3> QED BY <2>1, <3>4, <3>5, <3>7
  <2>3. CASE n \notin LinesOf(s)
    <3>1. To(n + 1) = To(n)
      BY <1>0, <2>3
    <3>2. Below(s, n + 1) = Below(s, n)
      BY <2>3, BelowNext
    <3> QED BY <2>1, <3>1, <3>2
  <2> QED BY <2>2, <2>3
<1>3. PICK n \in Nat : \A m \in LinesOf(s) : m < n
  BY <1>0, NumbersBounded
<1>4. To(n) = LinesOf(s)
  BY <1>3
<1>5. n \in T
  <2> HIDE DEF T
  <2> QED BY <1>1, <1>2, NatSetInduction
<1>6. Below(s, n) = NetOf(s)
  BY <1>4 DEF Below, NetOf
<1> QED BY <1>4, <1>5, <1>6, TaxShares

(* All the units of all the lines: what the sale cost. *)
LEMMA AllIsGivenBack ==
  ASSUME Books, NEW s \in Sales
  PROVE  SumOver([l \in Lines |-> GivenBack(l, sold[l])], LinesOf(s)) = NetOf(s) + tax[s]
<1> DEFINE all == [l \in Lines |-> GivenBack(l, sold[l])]
<1>1. \A l \in LinesOf(s) : l \in Lines
  BY LinesFinite
<1>2. \A l \in Lines : LineTaxes[l] \in Int /\ net[l] \in Int /\ all[l] = net[l] + LineTaxes[l]
  BY LineTaxType, GivenBackUpTo DEF LineTaxes, Books
<1> HIDE DEF all
<1>3. SumOver(all, LinesOf(s)) = SumOver(net, LinesOf(s)) + SumOver(LineTaxes, LinesOf(s))
  BY <1>1, <1>2, LinesFinite, SumOverAdd
<1> QED BY <1>3, TaxesAddUp DEF NetOf, all

-----------------------------------------------------------------------------
(* The inductive invariant of ReturnRefund.  A return under way holds the  *)
(* row of its sale: the units it saw are still there when it commits.      *)
Reserved ==
  /\ \A l \in Lines : returned[l] <= sold[l]
  /\ \A s \in Sales : pending[s] # NoReturn =>
       /\ pending[s].asked.sale = s
       /\ \A l \in Lines : pending[s].asked.units[l] > 0 =>
            SaleOf[l] = s /\ pending[s].asked.units[l] <= sold[l] - returned[l]

(* What the returns of a sale gave back is what is given back for the      *)
(* units returned by now, in however many returns.                         *)
GivenBackSoFar(s) == SumOver([l \in Lines |-> GivenBack(l, returned[l])], LinesOf(s))

Allocated == \A s \in Sales : ReturnedMoney(s) = GivenBackSoFar(s)

ReturnsInv == Books /\ Reserved /\ ReturnedOncePerKey /\ Allocated

RefundsInv == RefundsWithinBoth /\ RefundedOncePerKey

BooksInv == BooksTypeOK /\ ReturnsInv /\ RefundsInv

LEMMA BooksConstants ==
  /\ IsFiniteSet(Lines) /\ IsFiniteSet(Payments) /\ IsFiniteSet(Returns) /\ IsFiniteSet(Keys)
  /\ Nets \subseteq Nat /\ Taxes \subseteq Nat /\ Quantities \subseteq Nat \ {0}
  /\ Baskets \subseteq [Lines -> Nat]
  /\ PaidAmounts \subseteq Nat /\ RefundAmounts \subseteq Nat
  /\ NoReturn \notin StoredReturns /\ NoRefund \notin Requests
BY ReturnAssumption

(* A row of returns, and a key of refunds, read. *)
LEMMA Rows ==
  ASSUME BooksTypeOK
  PROVE  /\ \A r \in Returns : return[r] # NoReturn =>
              /\ return[r] \in StoredReturns /\ return[r].total \in Nat
              /\ \A l \in Lines : return[r].asked.units[l] \in Nat
         /\ \A k \in Keys : refund[k] # NoRefund => refund[k].amount \in Nat
         /\ \A r \in Returns, p \in Payments : paidBack[r][p] \in Nat /\ refunded[p] \in Nat
         /\ \A r \in Returns : SumOver(paidBack[r], Payments) \in Nat
         /\ SumOver(refunded, Payments) \in Nat
<1>1. \A r \in Returns : return[r] # NoReturn =>
        /\ return[r] \in StoredReturns /\ return[r].total \in Nat
        /\ return[r].asked.units \in Baskets
  BY DEF BooksTypeOK, StoredReturns, ReturnRequests
<1>2. \A k \in Keys : refund[k] # NoRefund => refund[k].amount \in Nat
  BY BooksConstants DEF BooksTypeOK, Requests
<1>3. \A r \in Returns, p \in Payments : paidBack[r][p] \in Nat /\ refunded[p] \in Nat
  BY DEF BooksTypeOK
<1>4. \A r \in Returns : SumOver(paidBack[r], Payments) \in Nat
  BY <1>3, BooksConstants, SumOverNat
<1>5. SumOver(refunded, Payments) \in Nat
  <2>1. \A p \in Payments : refunded[p] \in Nat
    BY DEF BooksTypeOK
  <2> QED BY <2>1, BooksConstants, SumOverNat
<1>6. \A n \in Baskets, l \in Lines : n[l] \in Nat
  BY BooksConstants
<1> QED BY <1>1, <1>2, <1>3, <1>4, <1>5, <1>6

LEMMA StartOfBooks == BooksInit => BooksInv
<1> SUFFICES ASSUME BooksInit PROVE BooksInv
  OBVIOUS
<1> USE DEF BooksInit
<1>1. BooksTypeOK
  BY BooksConstants DEF BooksTypeOK
<1>2. Books
  BY BooksConstants DEF Books
<1>3. Reserved
  BY <1>2 DEF Reserved, Books
<1>4. ReturnedOncePerKey
  <2> SUFFICES ASSUME NEW l \in Lines
               PROVE  SumOver([r \in Returns |-> IF return[r] = NoReturn THEN 0
                                                 ELSE return[r].asked.units[l]], Returns) = 0
    BY DEF ReturnedOncePerKey
  <2> QED BY BooksConstants, SumOverZero
<1>5. Allocated
  <2> SUFFICES ASSUME NEW s \in Sales PROVE ReturnedMoney(s) = 0 /\ GivenBackSoFar(s) = 0
    BY DEF Allocated
  <2> DEFINE f == [r \in Returns |-> IF return[r] # NoReturn /\ return[r].asked.sale = s
                                     THEN return[r].total ELSE 0]
             g == [l \in Lines |-> GivenBack(l, returned[l])]
  <2>1. \A r \in Returns : f[r] = 0
    OBVIOUS
  <2>2. \A l \in LinesOf(s) : g[l] = 0
    BY <1>2, LinesFinite, GivenBackUpTo
  <2> HIDE DEF f, g
  <2>3. SumOver(f, Returns) = 0 /\ SumOver(g, LinesOf(s)) = 0
    BY <2>1, <2>2, BooksConstants, LinesFinite, SumOverZero
  <2> QED BY <2>3 DEF ReturnedMoney, GivenBackSoFar, f, g
<1>6. \A r \in Returns : SumOver(paidBack[r], Payments) = 0
  BY BooksConstants, SumOverZero
<1>7. RefundsWithinBoth
  <2>1. \A p \in Payments : SumOver([r \in Returns |-> paidBack[r][p]], Returns) = 0
    <3> SUFFICES ASSUME NEW p \in Payments
                 PROVE  SumOver([r \in Returns |-> paidBack[r][p]], Returns) = 0
      OBVIOUS
    <3> QED BY BooksConstants, SumOverZero
  <2>2. \A p \in Payments : refunded[p] = 0 /\ paid[p] \in Nat
    BY BooksConstants
  <2> QED BY <1>6, <2>1, <2>2 DEF RefundsWithinBoth
<1>8. RefundedOncePerKey
  <2>1. SumOver(refunded, Payments) = 0
    BY BooksConstants, SumOverZero
  <2>2. SumOver([k \in Keys |-> IF refund[k] = NoRefund THEN 0 ELSE refund[k].amount], Keys) = 0
    BY BooksConstants, SumOverZero
  <2> QED BY <2>1, <2>2 DEF RefundedOncePerKey
<1> QED BY <1>1, <1>2, <1>3, <1>4, <1>5, <1>7, <1>8 DEF BooksInv, ReturnsInv, RefundsInv

-----------------------------------------------------------------------------
(* What a step leaves alone. *)
LEMMA SameBooks ==
  ASSUME UNCHANGED saleVars
  PROVE  /\ Books' <=> Books
         /\ \A s : NetOf(s)' = NetOf(s)
         /\ \A l, n : GivenBack(l, n)' = GivenBack(l, n)
BY DEF saleVars, Books, NetOf, GivenBack, LineTax, UpTo, TaxShare, Rounded

LEMMA SameReturns ==
  ASSUME ReturnsInv, UNCHANGED <<saleVars, returned, return>>, Reserved'
  PROVE  ReturnsInv'
<1>1. Books' /\ UNCHANGED <<net, sold, tax, returned, return>>
  BY SameBooks DEF ReturnsInv, saleVars
<1>2. ReturnedOncePerKey'
  BY <1>1 DEF ReturnsInv, ReturnedOncePerKey
<1>3. Allocated'
  <2> SUFFICES ASSUME NEW s \in Sales PROVE ReturnedMoney(s)' = GivenBackSoFar(s)'
    BY DEF Allocated
  <2>1. ReturnedMoney(s) = GivenBackSoFar(s)
    BY DEF ReturnsInv, Allocated
  <2>2. ReturnedMoney(s)' = ReturnedMoney(s)
    BY <1>1 DEF ReturnedMoney
  <2>3. \A l : GivenBack(l, returned[l])' = GivenBack(l, returned[l])
    BY <1>1 DEF GivenBack, LineTax, UpTo, NetOf, TaxShare, Rounded
  <2>4. GivenBackSoFar(s)' = GivenBackSoFar(s)
    BY <2>3 DEF GivenBackSoFar
  <2> QED BY <2>1, <2>2, <2>4
<1> QED BY <1>1, <1>2, <1>3 DEF ReturnsInv

LEMMA SameRefunds ==
  ASSUME RefundsInv, UNCHANGED <<saleVars, return, refundVars>>
  PROVE  RefundsInv'
BY DEF RefundsInv, RefundsWithinBoth, RefundedOncePerKey, refundVars, saleVars

LEMMA BeginReturnInv ==
  ASSUME BooksInv, NEW r \in Returns, NEW s \in Sales, NEW n \in Baskets, BeginReturn(r, s, n)
  PROVE  BooksInv'
<1>1. /\ UNCHANGED <<saleVars, returned, return, refundVars, answer>>
      /\ pending' = [pending EXCEPT ![s] = [key |-> r, asked |-> ReturnRequest(s, n)]]
      /\ \A l \in Lines : n[l] > 0 => SaleOf[l] = s /\ n[l] <= sold[l] - returned[l]
  BY DEF BeginReturn
<1>2. BooksTypeOK'
  BY <1>1 DEF BooksInv, BooksTypeOK, saleVars, refundVars, ReturnRequest, ReturnRequests
<1>3. Reserved'
  <2> SUFFICES ASSUME NEW t \in Sales, pending'[t] # NoReturn
               PROVE  /\ pending'[t].asked.sale = t
                      /\ \A l \in Lines : pending'[t].asked.units[l] > 0 =>
                           /\ SaleOf[l] = t
                           /\ pending'[t].asked.units[l] <= sold[l] - returned[l]
    BY <1>1 DEF BooksInv, ReturnsInv, Reserved, saleVars
  <2>1. CASE t = s
    <3>1. pending'[t].asked.sale = s /\ pending'[t].asked.units = n
      BY <1>1, <2>1 DEF BooksInv, BooksTypeOK, ReturnRequest
    <3> QED BY <1>1, <2>1, <3>1
  <2>2. CASE t # s
    BY <1>1, <2>2 DEF BooksInv, BooksTypeOK, ReturnsInv, Reserved
  <2> QED BY <2>1, <2>2
<1> QED BY <1>1, <1>2, <1>3, SameReturns, SameRefunds DEF BooksInv

LEMMA EndReturnInv ==
  ASSUME BooksInv, NEW s \in Sales, EndReturn(s),
         UNCHANGED <<saleVars, returned, return, refundVars>>
  PROVE  BooksInv'
<1>1. pending' = [pending EXCEPT ![s] = NoReturn]
  BY DEF EndReturn
<1>2. BooksTypeOK'
  BY <1>1 DEF BooksInv, BooksTypeOK, saleVars, refundVars
<1>3. Reserved'
  BY <1>1 DEF BooksInv, BooksTypeOK, ReturnsInv, Reserved, saleVars
<1> QED BY <1>2, <1>3, SameReturns, SameRefunds DEF BooksInv

LEMMA AnsweredInv ==
  ASSUME BooksInv, UNCHANGED <<saleVars, returned, pending, return, refundVars>>
  PROVE  BooksInv'
<1>1. BooksTypeOK' /\ Reserved'
  BY DEF BooksInv, BooksTypeOK, ReturnsInv, Reserved, saleVars, refundVars
<1> QED BY <1>1, SameReturns, SameRefunds DEF BooksInv

(* A return that commits: its row says what it returned and gave back. *)
LEMMA CommitReturnInv ==
  ASSUME BooksInv, NEW s \in Sales, CommitReturn(s)
  PROVE  BooksInv'
<1> DEFINE r == pending[s].key
           n == pending[s].asked.units
           part == [l \in Lines |-> ItemRefund(l, n[l])]
           sum == SumOver(part, LinesOf(s))
           new == [asked |-> pending[s].asked, total |-> sum]
<1>1. /\ pending[s] # NoReturn /\ return[r] = NoReturn
      /\ pending[s] \in [key : Returns, asked : ReturnRequests]
      /\ r \in Returns /\ pending[s].asked \in ReturnRequests /\ n \in Baskets
  BY DEF CommitReturn, BooksInv, BooksTypeOK, ReturnRequests
<1>2. /\ pending[s].asked.sale = s
      /\ \A l \in Lines : n[l] \in Nat
      /\ \A l \in Lines : n[l] > 0 => SaleOf[l] = s /\ n[l] <= sold[l] - returned[l]
      /\ \A l \in Lines : returned[l] \in Nat /\ sold[l] \in Nat /\ returned[l] <= sold[l]
  <2>1. /\ pending[s].asked.sale = s
        /\ \A l \in Lines : n[l] > 0 => SaleOf[l] = s /\ n[l] <= sold[l] - returned[l]
        /\ \A l \in Lines : returned[l] <= sold[l]
    BY <1>1 DEF BooksInv, ReturnsInv, Reserved
  <2>2. \A l \in Lines : returned[l] \in Nat /\ sold[l] \in Nat
    BY BooksConstants DEF BooksInv, BooksTypeOK
  <2>3. n \in [Lines -> Nat]
    BY <1>1, BooksConstants
  <2> HIDE DEF n
  <2> QED BY <2>1, <2>2, <2>3
<1>3. /\ return' = [return EXCEPT ![r] = new]
      /\ returned' = [l \in Lines |-> returned[l] + n[l]]
      /\ pending' = [pending EXCEPT ![s] = NoReturn]
      /\ UNCHANGED <<saleVars, refundVars>>
  BY <1>2 DEF CommitReturn, StoreReturn, EndReturn
<1>4. Books
  BY DEF BooksInv, ReturnsInv
<1>5. \A l \in Lines : /\ part[l] = GivenBack(l, returned[l] + n[l]) - GivenBack(l, returned[l])
                       /\ part[l] \in Nat
                       /\ GivenBack(l, returned[l] + n[l]) \in Nat
                       /\ GivenBack(l, returned[l]) \in Nat
  <2> SUFFICES ASSUME NEW l \in Lines
               PROVE  /\ part[l] = GivenBack(l, returned[l] + n[l]) - GivenBack(l, returned[l])
                      /\ part[l] \in Nat
                      /\ GivenBack(l, returned[l] + n[l]) \in Nat
                      /\ GivenBack(l, returned[l]) \in Nat
    OBVIOUS
  <2>1. returned[l] \in Nat /\ returned[l] + n[l] \in Nat /\ returned[l] <= returned[l] + n[l]
    BY <1>2
  <2>2. /\ GivenBack(l, returned[l]) \in Nat /\ GivenBack(l, returned[l] + n[l]) \in Nat
        /\ GivenBack(l, returned[l]) <= GivenBack(l, returned[l] + n[l])
    <3> HIDE DEF n
    <3> QED BY <1>4, <2>1, GivenBackUpTo
  <2> QED BY <2>2 DEF ItemRefund
<1> HIDE DEF part
<1>6. sum \in Nat
  BY <1>5, LinesFinite, SumOverNat
<1> HIDE DEF n, r, sum
<1>7. /\ new \in StoredReturns /\ new # NoReturn
      /\ new.asked.units = n /\ new.asked.sale = s /\ new.total = sum
  BY <1>1, <1>2, <1>6, BooksConstants DEF StoredReturns, n
<1> HIDE DEF new
<1>8. BooksTypeOK'
  <2>1. returned' \in [Lines -> Nat]
    BY <1>2, <1>3
  <2> QED BY <1>1, <1>3, <1>7, <2>1 DEF BooksInv, BooksTypeOK, saleVars, refundVars
<1>9. /\ return'[r] = new
      /\ \A q \in Returns \ {r} : return'[q] = return[q]
      /\ \A l \in Lines : returned'[l] = returned[l] + n[l]
      /\ \A t \in Sales \ {s} : pending'[t] = pending[t]
      /\ pending'[s] = NoReturn
  BY <1>1, <1>3 DEF BooksInv, BooksTypeOK
<1>10. Reserved'
  <2>1. \A l \in Lines : returned'[l] <= sold[l]
    BY <1>2, <1>9
  <2>2. \A t \in Sales \ {s}, l \in Lines : SaleOf[l] = t => returned'[l] = returned[l]
    BY <1>2, <1>9
  <2> QED BY <1>3, <1>9, <2>1, <2>2 DEF BooksInv, ReturnsInv, Reserved, saleVars
<1>11. Books'
  BY <1>3, <1>4, SameBooks
<1>12. ReturnedOncePerKey'
  <2> SUFFICES ASSUME NEW l \in Lines
               PROVE  returned'[l] =
                        SumOver([q \in Returns |-> IF return'[q] = NoReturn THEN 0
                                                   ELSE return'[q].asked.units[l]], Returns)
    BY DEF ReturnedOncePerKey
  <2> DEFINE f == [q \in Returns |-> IF return[q] = NoReturn THEN 0
                                     ELSE return[q].asked.units[l]]
             g == [q \in Returns |-> IF return'[q] = NoReturn THEN 0
                                     ELSE return'[q].asked.units[l]]
  <2>1. \A q \in Returns : f[q] \in Int
    BY Rows DEF BooksInv
  <2>2. f[r] = 0 /\ g[r] = n[l] /\ n[l] \in Int
    BY <1>1, <1>2, <1>7, <1>9 DEF r
  <2>3. \A q \in Returns : q # r => g[q] = f[q]
    BY <1>9
  <2>4. returned[l] = SumOver(f, Returns)
    BY DEF BooksInv, ReturnsInv, ReturnedOncePerKey
  <2> HIDE DEF f, g
  <2>5. \A q \in Returns : f[q] \in Int /\ g[q] \in Int
    BY <2>1, <2>2, <2>3
  <2>6. SumOver(g, Returns) = SumOver(f, Returns) + (g[r] - f[r])
    BY <1>1, <2>3, <2>5, BooksConstants, SumOverChange DEF r
  <2>7. returned'[l] = SumOver(g, Returns)
    BY <1>2, <1>9, <2>2, <2>4, <2>6
  <2> QED BY <2>7 DEF g
<1>13. Allocated'
  <2> SUFFICES ASSUME NEW t \in Sales PROVE ReturnedMoney(t)' = GivenBackSoFar(t)'
    BY DEF Allocated
  <2> DEFINE f == [q \in Returns |-> IF return[q] # NoReturn /\ return[q].asked.sale = t
                                     THEN return[q].total ELSE 0]
             g == [q \in Returns |-> IF return'[q] # NoReturn /\ return'[q].asked.sale = t
                                     THEN return'[q].total ELSE 0]
             old == [l \in Lines |-> GivenBack(l, returned[l])]
             all == [l \in Lines |-> GivenBack(l, returned[l])']
  <2>1. \A q \in Returns : f[q] \in Int
    BY Rows DEF BooksInv
  <2>2. f[r] = 0 /\ g[r] = IF t = s THEN sum ELSE 0
    BY <1>1, <1>7, <1>9 DEF r
  <2>3. \A q \in Returns : q # r => g[q] = f[q]
    BY <1>9
  <2>4. SumOver(f, Returns) = SumOver(old, LinesOf(t))
    BY DEF BooksInv, ReturnsInv, Allocated, ReturnedMoney, GivenBackSoFar
  <2>5. \A l \in Lines : all[l] = GivenBack(l, returned[l] + n[l]) /\ old[l] = GivenBack(l, returned[l])
    <3>1. \A l \in Lines : GivenBack(l, returned[l])' = GivenBack(l, returned'[l])
      BY <1>3 DEF GivenBack, LineTax, UpTo, NetOf, TaxShare, Rounded, saleVars
    <3> QED BY <1>9, <3>1
  <2>6. ReturnedMoney(t)' = SumOver(g, Returns)
    BY DEF ReturnedMoney
  <2>7. GivenBackSoFar(t)' = SumOver(all, LinesOf(t))
    BY DEF GivenBackSoFar, LinesOf
  <2> HIDE DEF f, g, old, all
  <2>8. \A l \in Lines : all[l] \in Int /\ old[l] \in Int /\ part[l] \in Int
                         /\ all[l] = old[l] + part[l]
    BY <1>5, <2>5
  <2>9. \A q \in Returns : f[q] \in Int /\ g[q] \in Int
    BY <1>6, <2>1, <2>2, <2>3 DEF sum
  <2>10. SumOver(g, Returns) = SumOver(f, Returns) + (g[r] - f[r])
    BY <1>1, <2>3, <2>9, BooksConstants, SumOverChange DEF r
  <2>11. SumOver(f, Returns) \in Int
    BY <2>9, BooksConstants, SumOverType
  <2>12. CASE t = s
    <3>1. SumOver(all, LinesOf(s)) = SumOver(old, LinesOf(s)) + SumOver(part, LinesOf(s))
      BY <2>8, LinesFinite, SumOverAdd
    <3> QED BY <1>6, <2>2, <2>4, <2>6, <2>7, <2>10, <2>11, <2>12, <3>1 DEF sum
  <2>13. CASE t # s
    <3>1. \A l \in LinesOf(t) : l \in Lines /\ n[l] = 0
      BY <1>2, <2>13 DEF LinesOf
    <3>2. \A l \in LinesOf(t) : all[l] = old[l]
      BY <1>2, <2>5, <3>1
    <3>3. SumOver(all, LinesOf(t)) = SumOver(old, LinesOf(t))
      BY <3>2, LinesFinite, SumOverEqual
    <3> QED BY <2>2, <2>4, <2>6, <2>7, <2>10, <2>11, <2>13, <3>3
  <2> QED BY <2>12, <2>13
<1>14. RefundsInv'
  <2>1. RefundedOncePerKey'
    BY <1>3 DEF BooksInv, RefundsInv, RefundedOncePerKey, refundVars
  <2>2. RefundsWithinBoth'
    <3>1. UNCHANGED <<paid, refunded, paidBack>>
      BY <1>3 DEF saleVars, refundVars
    <3>2. \A q \in Returns :
            SumOver(paidBack[q], Payments) <= IF return[q] = NoReturn THEN 0 ELSE return[q].total
      BY DEF BooksInv, RefundsInv, RefundsWithinBoth
    <3>3. \A q \in Returns :
            SumOver(paidBack[q], Payments) <= IF return'[q] = NoReturn THEN 0 ELSE return'[q].total
      <4>1. SumOver(paidBack[r], Payments) <= 0 /\ SumOver(paidBack[r], Payments) \in Nat
        BY <1>1, <3>2, Rows DEF r, BooksInv
      <4>2. SumOver(paidBack[r], Payments) <= sum
        BY <1>6, <4>1
      <4> QED BY <1>7, <1>9, <3>2, <4>2
    <3> QED BY <3>1, <3>3 DEF BooksInv, RefundsInv, RefundsWithinBoth
  <2> QED BY <2>1, <2>2 DEF RefundsInv
<1> QED BY <1>8, <1>10, <1>11, <1>12, <1>13, <1>14 DEF BooksInv, ReturnsInv

(* A refund: one row more of its return, its payment and its key. *)
LEMMA PayBackInv ==
  ASSUME BooksInv, NEW k \in Keys, NEW r \in Returns, NEW p \in Payments,
         NEW sum \in RefundAmounts, NEW reference \in References \cup {NoReference},
         PayBack(k, r, p, sum, reference)
  PROVE  BooksInv'
<1> DEFINE new == Request(r, p, sum, reference)
<1>1. /\ return[r] # NoReturn /\ refund[k] = NoRefund /\ sum <= Refundable(r, p)
      /\ refund' = [refund EXCEPT ![k] = new]
      /\ refunded' = [refunded EXCEPT ![p] = refunded[p] + sum]
      /\ paidBack' = [paidBack EXCEPT ![r][p] = paidBack[r][p] + sum]
      /\ UNCHANGED <<saleVars, returned, pending, return>>
  BY DEF PayBack
<1>2. BooksTypeOK /\ RefundsWithinBoth /\ RefundedOncePerKey
  BY DEF BooksInv, RefundsInv
<1>3. sum \in Nat /\ new \in Requests /\ new # NoRefund /\ new.amount = sum
  BY BooksConstants DEF Request, Requests
<1> HIDE DEF new
<1>4. /\ \A q \in Returns, m \in Payments : paidBack[q][m] \in Nat /\ refunded[m] \in Nat
      /\ \A q \in Returns : SumOver(paidBack[q], Payments) \in Nat
      /\ return[r].total \in Nat /\ paid[p] \in Nat
      /\ \A j \in Keys : refund[j] # NoRefund => refund[j].amount \in Nat
  BY <1>1, <1>2, Rows, BooksConstants DEF BooksTypeOK
<1>5. sum <= paid[p] - refunded[p] /\ sum <= return[r].total - SumOver(paidBack[r], Payments)
  <2> DEFINE a == paid[p] - refunded[p]
             b == return[r].total - SumOver(paidBack[r], Payments)
  <2>1. a \in Int /\ b \in Int /\ sum <= IF a < b THEN a ELSE b
    BY <1>1, <1>4 DEF Refundable
  <2> HIDE DEF a, b
  <2>2. sum <= a /\ sum <= b
    BY <1>3, <2>1
  <2> QED BY <2>2 DEF a, b
<1>6. /\ \A m \in Payments : refunded'[m] = IF m = p THEN refunded[p] + sum ELSE refunded[m]
      /\ \A q \in Returns, m \in Payments :
           paidBack'[q][m] = IF q = r /\ m = p THEN paidBack[r][p] + sum ELSE paidBack[q][m]
      /\ \A j \in Keys : refund'[j] = IF j = k THEN new ELSE refund[j]
      /\ \A q \in Returns : q # r => paidBack'[q] = paidBack[q]
  BY <1>1, <1>2 DEF BooksTypeOK
<1>7. BooksTypeOK'
  <2>1. refunded' \in [Payments -> Nat]
    BY <1>1, <1>2, <1>3 DEF BooksTypeOK
  <2>2. paidBack' \in [Returns -> [Payments -> Nat]]
    BY <1>1, <1>2, <1>3 DEF BooksTypeOK
  <2> QED BY <1>1, <1>2, <1>3, <2>1, <2>2 DEF BooksTypeOK, saleVars
<1>8. ReturnsInv'
  <2>1. Reserved'
    BY <1>1 DEF BooksInv, ReturnsInv, Reserved, saleVars
  <2> QED BY <1>1, <2>1, SameReturns DEF BooksInv
<1>9. RefundsWithinBoth'
  <2>1. SumOver(paidBack'[r], Payments) = SumOver(paidBack[r], Payments) + sum
    <3>1. SumOver(paidBack'[r], Payments)
            = SumOver(paidBack[r], Payments) + (paidBack'[r][p] - paidBack[r][p])
      <4> DEFINE f == paidBack[r]
                 g == paidBack'[r]
      <4>1. /\ \A m \in Payments : f[m] \in Int /\ g[m] \in Int
            /\ \A m \in Payments : m # p => g[m] = f[m]
        BY <1>3, <1>4, <1>6
      <4> HIDE DEF f, g
      <4>2. SumOver(g, Payments) = SumOver(f, Payments) + (g[p] - f[p])
        BY <4>1, BooksConstants, SumOverChange
      <4> QED BY <4>2 DEF f, g
    <3>2. paidBack'[r][p] - paidBack[r][p] = sum
      BY <1>3, <1>4, <1>6
    <3> QED BY <3>1, <3>2
  <2>2. \A q \in Returns :
          SumOver(paidBack'[q], Payments) <= IF return[q] = NoReturn THEN 0 ELSE return[q].total
    <3>1. SumOver(paidBack'[r], Payments) <= return[r].total
      BY <1>3, <1>4, <1>5, <2>1
    <3> QED BY <1>1, <1>2, <1>6, <3>1 DEF RefundsWithinBoth
  <2>3. \A m \in Payments : refunded'[m] <= paid[m]
    <3>1. refunded[p] \in Nat /\ refunded[p] + sum <= paid[p]
      BY <1>3, <1>4, <1>5
    <3>2. \A m \in Payments : refunded[m] <= paid[m]
      BY <1>2 DEF RefundsWithinBoth
    <3> QED BY <1>6, <3>1, <3>2
  <2>4. ASSUME NEW m \in Payments
        PROVE  refunded'[m] = SumOver([q \in Returns |-> paidBack'[q][m]], Returns)
    <3> DEFINE f == [q \in Returns |-> paidBack[q][m]]
               g == [q \in Returns |-> paidBack'[q][m]]
    <3>1. refunded[m] = SumOver(f, Returns)
      BY <1>2 DEF RefundsWithinBoth
    <3>2. \A q \in Returns : f[q] \in Int /\ g[q] \in Int
      BY <1>3, <1>4, <1>6
    <3>3. \A q \in Returns : q # r => g[q] = f[q]
      BY <1>6
    <3>4. g[r] - f[r] = IF m = p THEN sum ELSE 0
      BY <1>3, <1>4, <1>6
    <3> HIDE DEF f, g
    <3>5. SumOver(g, Returns) = SumOver(f, Returns) + (g[r] - f[r])
      BY <3>2, <3>3, BooksConstants, SumOverChange
    <3>6. refunded'[m] = SumOver(g, Returns)
      BY <1>4, <1>6, <3>1, <3>4, <3>5
    <3> QED BY <3>6 DEF g
  <2> QED BY <1>1, <2>2, <2>3, <2>4 DEF RefundsWithinBoth, saleVars
<1>10. RefundedOncePerKey'
  <2> DEFINE f == [j \in Keys |-> IF refund[j] = NoRefund THEN 0 ELSE refund[j].amount]
             g == [j \in Keys |-> IF refund'[j] = NoRefund THEN 0 ELSE refund'[j].amount]
  <2>1. SumOver(refunded, Payments) = SumOver(f, Keys)
    BY <1>2 DEF RefundedOncePerKey
  <2>2. \A j \in Keys : f[j] \in Int /\ g[j] \in Int
    BY <1>3, <1>4, <1>6
  <2>3. \A j \in Keys : j # k => g[j] = f[j]
    BY <1>6
  <2>4. f[k] = 0 /\ g[k] = sum
    BY <1>1, <1>3, <1>6
  <2> HIDE DEF f, g
  <2>5. SumOver(g, Keys) = SumOver(f, Keys) + (g[k] - f[k])
    BY <2>2, <2>3, BooksConstants, SumOverChange
  <2>6. SumOver(refunded', Payments) = SumOver(refunded, Payments) + (refunded'[p] - refunded[p])
    <3>1. \A m \in Payments : refunded[m] \in Int /\ refunded'[m] \in Int
      BY <1>3, <1>4, <1>6
    <3>2. \A m \in Payments : m # p => refunded'[m] = refunded[m]
      BY <1>6
    <3> QED BY <3>1, <3>2, BooksConstants, SumOverChange
  <2>7. refunded'[p] - refunded[p] = sum
    BY <1>3, <1>4, <1>6
  <2>8. SumOver(refunded', Payments) = SumOver(g, Keys)
    BY <1>3, <2>1, <2>4, <2>5, <2>6, <2>7
  <2> QED BY <2>8 DEF RefundedOncePerKey, g
<1> QED BY <1>7, <1>8, <1>9, <1>10 DEF BooksInv, RefundsInv

LEMMA BooksStep == BooksInv /\ [BooksNext]_booksVars => BooksInv'
<1> SUFFICES ASSUME BooksInv, [BooksNext]_booksVars PROVE BooksInv'
  OBVIOUS
<1>1. ASSUME NEW r \in Returns, NEW s \in Sales, NEW n \in Baskets,
             BeginReturn(r, s, n) \/ ReplayReturn(r, s, n)
      PROVE  BooksInv'
  <2>1. CASE BeginReturn(r, s, n)
    BY <2>1, BeginReturnInv
  <2>2. CASE ReplayReturn(r, s, n)
    BY <2>2, AnsweredInv DEF ReplayReturn, AnswerReturn
  <2> QED BY <1>1, <2>1, <2>2
<1>2. ASSUME NEW s \in Sales, CommitReturn(s) \/ RecoverReturn(s) \/ AbortReturn(s)
      PROVE  BooksInv'
  <2>1. CASE CommitReturn(s)
    BY <2>1, CommitReturnInv
  <2>2. CASE RecoverReturn(s)
    BY <2>2, EndReturnInv DEF RecoverReturn, AnswerReturn
  <2>3. CASE AbortReturn(s)
    BY <2>3, EndReturnInv DEF AbortReturn
  <2> QED BY <1>2, <2>1, <2>2, <2>3
<1>3. ASSUME NEW k \in Keys, NEW r \in Returns, NEW p \in Payments, NEW sum \in RefundAmounts,
             NEW reference \in References \cup {NoReference},
             PayBack(k, r, p, sum, reference) \/ Replay(k, r, p, sum, reference)
      PROVE  BooksInv'
  <2>1. CASE PayBack(k, r, p, sum, reference)
    BY <2>1, PayBackInv
  <2>2. CASE Replay(k, r, p, sum, reference)
    BY <2>2, AnsweredInv DEF Replay
  <2> QED BY <1>3, <2>1, <2>2
<1>4. CASE UNCHANGED booksVars
  BY <1>4, AnsweredInv DEF booksVars
<1> QED BY <1>1, <1>2, <1>3, <1>4 DEF BooksNext

LEMMA BooksInvariant == BooksSpec => []BooksInv
BY StartOfBooks, BooksStep, PTL DEF BooksSpec

(* The books stay well-formed: no amount that is given back is negative,   *)
(* whatever is rounded.                                                    *)
THEOREM BooksTypes == BooksSpec => []BooksTypeOK
<1>1. BooksInv => BooksTypeOK
  BY DEF BooksInv
<1> QED BY <1>1, BooksInvariant, PTL

(* The goods that came back are those of one return for each key           *)
(* (create of return.service.ts).                                          *)
THEOREM ReturnsTellTheGoods == BooksSpec => []ReturnedOncePerKey
<1>1. BooksInv => ReturnedOncePerKey
  BY DEF BooksInv, ReturnsInv
<1> QED BY <1>1, BooksInvariant, PTL

(* A sale returned in any number of returns, in any order, gives back what *)
(* it cost, tax included, and never more on the way there, for any prices, *)
(* quantities and taxes: the shares of the cumulated tax telescope.        *)
THEOREM NoCentIsLost == BooksSpec => []ReturnedMoneyAddsUp
<1>1. BooksInv => ReturnedMoneyAddsUp
  <2> SUFFICES ASSUME BooksInv, NEW s \in Sales
               PROVE  /\ ReturnedMoney(s) <= NetOf(s) + tax[s]
                      /\ (\A l \in LinesOf(s) : returned[l] = sold[l])
                           => ReturnedMoney(s) = NetOf(s) + tax[s]
    BY DEF ReturnedMoneyAddsUp
  <2> DEFINE sofar == [l \in Lines |-> GivenBack(l, returned[l])]
             all == [l \in Lines |-> GivenBack(l, sold[l])]
  <2>1. Books /\ ReturnedMoney(s) = SumOver(sofar, LinesOf(s))
    BY DEF BooksInv, ReturnsInv, Allocated, GivenBackSoFar
  <2>2. SumOver(all, LinesOf(s)) = NetOf(s) + tax[s]
    BY <2>1, AllIsGivenBack
  <2>3. ASSUME NEW l \in LinesOf(s)
        PROVE  /\ sofar[l] \in Int /\ all[l] \in Int /\ sofar[l] <= all[l]
               /\ returned[l] = sold[l] => sofar[l] = all[l]
    <3>1. l \in Lines
      BY LinesFinite
    <3>2. returned[l] \in Nat /\ sold[l] \in Nat /\ returned[l] <= sold[l]
      BY <2>1, <3>1 DEF BooksInv, BooksTypeOK, ReturnsInv, Reserved, Books
    <3> QED BY <2>1, <3>1, <3>2, GivenBackUpTo
  <2> HIDE DEF sofar, all
  <2>4. SumOver(sofar, LinesOf(s)) <= SumOver(all, LinesOf(s))
    BY <2>3, LinesFinite, SumOverMonotone
  <2>5. (\A l \in LinesOf(s) : returned[l] = sold[l])
          => SumOver(sofar, LinesOf(s)) = SumOver(all, LinesOf(s))
    BY <2>3, LinesFinite, SumOverEqual
  <2> QED BY <2>1, <2>2, <2>4, <2>5
<1> QED BY <1>1, BooksInvariant, PTL

(* The refunds of a return stay within it, those of a payment within that, *)
(* and the payment's column is the sum of its refunds rows (process of     *)
(* refund.service.ts).                                                     *)
THEOREM RefundsStayWithinBoth == BooksSpec => []RefundsWithinBoth
<1>1. BooksInv => RefundsWithinBoth
  BY DEF BooksInv, RefundsInv
<1> QED BY <1>1, BooksInvariant, PTL

(* A retry refunds nothing twice: all that was paid back is one refund for *)
(* each key.                                                               *)
THEOREM RefundsAreOnePerKey == BooksSpec => []RefundedOncePerKey
<1>1. BooksInv => RefundedOncePerKey
  BY DEF BooksInv, RefundsInv
<1> QED BY <1>1, BooksInvariant, PTL
=============================================================================
