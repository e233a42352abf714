--------------------------- MODULE DebtLoopProofs ---------------------------
(***************************************************************************)
(* Proofs about DebtLoop, for lists of any length and any amounts.         *)
(***************************************************************************)
EXTENDS DebtLoop, LedgerTheorems, TLAPS

-----------------------------------------------------------------------------
(* What the loop is given *)

\* One of the two lists, of members who owe or are owed f, with its running
\* totals.
IsListOf(net, f, list, end) ==
  /\ list \in Seq(Entry) /\ ListsNobodyTwice(list)
  /\ end \in [0 .. Len(list) -> Nat] /\ end[0] = 0
  /\ \A k \in 1 .. Len(list) :
       /\ list[k].user \in Havers(f) /\ list[k].amount = net[list[k].user]
       /\ end[k] = UpTo(f, list[k].user)
       /\ end[k] = end[k - 1] + f[list[k].user]
       /\ \A h \in 0 .. k - 1 : end[h] < end[k]
  /\ \A u \in Havers(f) : \E k \in 1 .. Len(list) : list[k].user = u
  /\ end[Len(list)] = SumFunctionOnSet(f, Users)

\* The lists the loop is given, and their running totals, are in that order.
LEMMA ListFacts ==
  ASSUME NEW net \in NetsOf(Users), NEW f \in [Users -> Nat],
         \A u \in Havers(f) : EndOf(net, Havers(f), u) = UpTo(f, u)
  PROVE  IsListOf(net, f, BalanceList(net, Havers(f)), RunningTotals(net, Havers(f)))
  <1> DEFINE S == Havers(f)
             list == BalanceList(net, S)
             end == RunningTotals(net, S)
             size == Cardinality(S)
             user == ById(S)
             totals == Stretches(f)
  <1>1. /\ Members(Users) /\ Members(S) /\ S \subseteq Users
        /\ \A u \in Users : net[u] \in Int /\ u \in Nat
    BY BalanceAssumption, FS_Subset DEF Members, NetsOf, Havers
  <1>2. Rises(totals, f, user, size) /\ totals[size] = SumFunctionOnSet(f, Users)
    BY <1>1, LineOfCents, EndOfLine
  <1>3. list = [k \in 1 .. size |-> [user |-> user[k], amount |-> net[user[k]]]]
    BY DEF BalanceList
  <1>4. end = [k \in 0 .. size |-> IF k = 0 THEN 0 ELSE EndOf(net, S, user[k])]
    BY DEF RunningTotals
  <1>5. totals = [k \in 0 .. size |-> IF k = 0 THEN 0 ELSE UpTo(f, user[k])]
    BY DEF Stretches
  <1>6. \A u \in S : EndOf(net, S, u) = UpTo(f, u)
    OBVIOUS
  <1> HIDE DEF S, list, end, totals
  <1>7. /\ size \in Nat
        /\ \A k \in 1 .. size : user[k] \in S
        /\ \A k, l \in 1 .. size : k < l => user[k] < user[l]
        /\ \A u \in S : \E k \in 1 .. size : user[k] = u
    BY <1>1, ByIdOrder
  <1> HIDE DEF size, user
  <1>8. end = totals
    <2>1. \A k \in 0 .. size : k # 0 => k \in 1 .. size
      BY <1>7
    <2>2. \A k \in 0 .. size :
            (IF k = 0 THEN 0 ELSE EndOf(net, S, user[k])) = IF k = 0 THEN 0 ELSE UpTo(f, user[k])
      BY <1>6, <1>7, <2>1
    <2> QED
      BY <1>4, <1>5, <2>2
  <1>9. \A k \in 1 .. size : list[k].user = user[k] /\ list[k].amount = net[user[k]]
    BY <1>3
  <1>10. list \in Seq(Entry) /\ Len(list) = size /\ DOMAIN list = 1 .. size
    <2>1. \A k \in 1 .. size : [user |-> user[k], amount |-> net[user[k]]] \in Entry
      BY <1>1, <1>7 DEF Entry
    <2> QED
      BY <1>3, <1>7, <2>1
  <1>11. ListsNobodyTwice(list)
    <2>1. ASSUME NEW k \in 1 .. size, NEW l \in 1 .. size, user[k] = user[l]
          PROVE  k = l
      <3>1. ~(k < l) /\ ~(l < k)
        BY <1>1, <1>7, <2>1
      <3> QED
        BY <1>7, <3>1
    <2> SUFFICES ASSUME NEW k \in 1 .. size, NEW l \in 1 .. size, list[k].user = list[l].user
                 PROVE  k = l
      BY <1>10, Zenon DEF ListsNobodyTwice
    <2> QED
      BY <1>9, <2>1
  <1>12. /\ end \in [0 .. size -> Nat] /\ end[0] = 0
         /\ \A k \in 1 .. size :
              /\ end[k] = UpTo(f, list[k].user)
              /\ end[k] = end[k - 1] + f[list[k].user]
              /\ \A h \in 0 .. k - 1 : end[h] < end[k]
    BY <1>2, <1>8, <1>9 DEF Rises
  <1>13. IsListOf(net, f, list, end)
    <2>1. /\ \A k \in 1 .. size : list[k].user \in S /\ list[k].amount = net[list[k].user]
          /\ \A u \in S : \E k \in 1 .. size : list[k].user = u
      BY <1>7, <1>9
    <2> QED
      BY <1>2, <1>8, <1>10, <1>11, <1>12, <2>1 DEF IsListOf, S
  <1> QED
    BY <1>13 DEF list, end, S

\* Both lists of an input, and where a member's stretch ends.
LEMMA InputFacts ==
  ASSUME NEW net \in Nets, NEW in, in = InputOf(net)
  PROVE  /\ Members(Users) /\ net \in NetsOf(Users) /\ in.net = net
         /\ GoodInput(in)
         /\ \A k \in 1 .. Len(in.debtors) :
              /\ in.debtors[k].user \in Debtors(net)
              /\ in.debtors[k].amount = -DebtIn(net)[in.debtors[k].user]
              /\ in.debtEnd[k] = UpTo(DebtIn(net), in.debtors[k].user)
         /\ \A l \in 1 .. Len(in.creditors) :
              /\ in.creditors[l].user \in Creditors(net)
              /\ in.creditors[l].amount = CreditIn(net)[in.creditors[l].user]
              /\ in.creditEnd[l] = UpTo(CreditIn(net), in.creditors[l].user)
         /\ \A u \in Debtors(net) : \E k \in 1 .. Len(in.debtors) : in.debtors[k].user = u
         /\ \A u \in Creditors(net) : \E l \in 1 .. Len(in.creditors) : in.creditors[l].user = u
         /\ in.debtEnd[Len(in.debtors)] = SumFunctionOnSet(DebtIn(net), Users)
         /\ in.creditEnd[Len(in.creditors)] = SumFunctionOnSet(CreditIn(net), Users)
  <1> DEFINE debt == DebtIn(net)
             credit == CreditIn(net)
             ds == in.debtors
             cs == in.creditors
             de == in.debtEnd
             ce == in.creditEnd
             D == Debtors(net)
             C == Creditors(net)
  <1>1. Members(Users) /\ net \in NetsOf(Users)
    BY BalanceAssumption DEF Members, NetsOf
  <1>2. debt \in [Users -> Nat] /\ credit \in [Users -> Nat]
    BY <1>1, DebtCreditType
  <1>3. DOMAIN net = Users /\ \A u \in Users : net[u] \in Int
    BY <1>1 DEF NetsOf
  <1>4. /\ D = Havers(debt) /\ \A u \in D : debt[u] = -net[u] /\ net[u] < 0
        /\ C = Havers(credit) /\ \A u \in C : credit[u] = net[u] /\ net[u] > 0
    <2>1. /\ \A u \in Users : debt[u] > 0 <=> net[u] < 0
          /\ \A u \in Users : credit[u] > 0 <=> net[u] > 0
      BY <1>3 DEF DebtIn, CreditIn
    <2>2. /\ Havers(debt) = {u \in Users : debt[u] > 0}
          /\ Havers(credit) = {u \in Users : credit[u] > 0}
          /\ D = {u \in Users : net[u] < 0} /\ C = {u \in Users : net[u] > 0}
      BY <1>2, <1>3 DEF Havers, Debtors, Creditors
    <2>3. /\ \A u \in D : debt[u] = -net[u] /\ net[u] < 0
          /\ \A u \in C : credit[u] = net[u] /\ net[u] > 0
      BY <1>3, <2>2 DEF DebtIn, CreditIn
    <2> QED
      BY <2>1, <2>2, <2>3
  <1>5. \A u \in Users : EndOf(net, D, u) = UpTo(debt, u) /\ EndOf(net, C, u) = UpTo(credit, u)
    BY <1>1, EndIsRunningTotal
  <1>6. /\ in.net = net
        /\ ds = BalanceList(net, D) /\ de = RunningTotals(net, D)
        /\ cs = BalanceList(net, C) /\ ce = RunningTotals(net, C)
    BY DEF InputOf
  <1>7. D \subseteq Users /\ C \subseteq Users
    BY <1>3 DEF Debtors, Creditors
  <1> HIDE DEF debt, credit, ds, cs, de, ce, D, C
  <1>8. IsListOf(net, debt, ds, de) /\ IsListOf(net, credit, cs, ce)
    <2>1. /\ \A u \in Havers(debt) : EndOf(net, Havers(debt), u) = UpTo(debt, u)
          /\ \A u \in Havers(credit) : EndOf(net, Havers(credit), u) = UpTo(credit, u)
      BY <1>4, <1>5, <1>7
    <2>2. /\ IsListOf(net, debt, BalanceList(net, Havers(debt)),
                      RunningTotals(net, Havers(debt)))
          /\ IsListOf(net, credit, BalanceList(net, Havers(credit)),
                      RunningTotals(net, Havers(credit)))
      BY <1>1, <1>2, <2>1, ListFacts
    <2> QED
      BY <1>4, <1>6, <2>2
  <1>9. ASSUME NEW k \in 1 .. Len(ds)
        PROVE  /\ ds[k].amount = -debt[ds[k].user] /\ ds[k].amount < 0
               /\ de[k] = de[k - 1] - ds[k].amount
    <2>1. /\ ds[k].user \in D /\ ds[k].amount = net[ds[k].user]
          /\ de[k] = de[k - 1] + debt[ds[k].user]
      BY <1>4, <1>8 DEF IsListOf
    <2>2. /\ debt[ds[k].user] = -net[ds[k].user] /\ net[ds[k].user] < 0
          /\ net[ds[k].user] \in Int
      BY <1>3, <1>4, <1>7, <2>1
    <2>3. de[k - 1] \in Nat
      <3>1. k - 1 \in 0 .. Len(ds) /\ de \in [0 .. Len(ds) -> Nat]
        BY <1>8 DEF IsListOf
      <3> QED
        BY <3>1
    <2> DEFINE a == ds[k].amount
               part == debt[ds[k].user]
               n == net[ds[k].user]
               e0 == de[k - 1]
               e1 == de[k]
    <2>4. /\ a = n /\ part = -n /\ n < 0 /\ n \in Int
          /\ e1 = e0 + part /\ e0 \in Nat
      BY <2>1, <2>2, <2>3
    <2> HIDE DEF a, part, n, e0, e1
    <2>5. a = -part /\ a < 0 /\ e1 = e0 - a
      BY <2>4
    <2> QED
      BY <2>5 DEF a, part, e0, e1
  <1>10. ASSUME NEW l \in 1 .. Len(cs)
         PROVE  /\ cs[l].amount = credit[cs[l].user] /\ cs[l].amount > 0
                /\ ce[l] = ce[l - 1] + cs[l].amount
    <2>1. /\ cs[l].user \in C /\ cs[l].amount = net[cs[l].user]
          /\ ce[l] = ce[l - 1] + credit[cs[l].user]
      BY <1>4, <1>8 DEF IsListOf
    <2>2. credit[cs[l].user] = net[cs[l].user] /\ net[cs[l].user] > 0
      BY <1>4, <2>1
    <2> QED
      BY <2>1, <2>2
  <1>11. GoodInput(in)
    BY <1>8, <1>9, <1>10 DEF GoodInput, IsListOf, ds, cs, de, ce
  <1>12. /\ \A k \in 1 .. Len(ds) : ds[k].user \in D /\ de[k] = UpTo(debt, ds[k].user)
         /\ \A l \in 1 .. Len(cs) : cs[l].user \in C /\ ce[l] = UpTo(credit, cs[l].user)
         /\ \A u \in D : \E k \in 1 .. Len(ds) : ds[k].user = u
         /\ \A u \in C : \E l \in 1 .. Len(cs) : cs[l].user = u
         /\ de[Len(ds)] = SumFunctionOnSet(debt, Users)
         /\ ce[Len(cs)] = SumFunctionOnSet(credit, Users)
    BY <1>4, <1>8 DEF IsListOf
  <1> QED
    BY <1>1, <1>6, <1>9, <1>10, <1>11, <1>12 DEF ds, cs, de, ce, D, C, debt, credit

-----------------------------------------------------------------------------
(* One iteration *)

\* Changing the amount of one entry of a list.
LEMMA SetAmount ==
  ASSUME NEW list \in Seq(Entry), NEW k \in 1 .. Len(list), NEW v \in Int
  PROVE  /\ [list EXCEPT ![k].amount = v] \in Seq(Entry)
         /\ Len([list EXCEPT ![k].amount = v]) = Len(list)
         /\ [list EXCEPT ![k].amount = v][k] = [user |-> list[k].user, amount |-> v]
         /\ \A q \in 1 .. Len(list) :
              q # k => [list EXCEPT ![k].amount = v][q] = list[q]
  <1> DEFINE new == [list EXCEPT ![k].amount = v]
  <1>1. list[k] \in Entry
    OBVIOUS
  <1>2. [list[k] EXCEPT !.amount = v] = [user |-> list[k].user, amount |-> v]
    BY <1>1 DEF Entry
  <1>3. new = [list EXCEPT ![k] = [user |-> list[k].user, amount |-> v]]
    BY <1>2
  <1>4. [user |-> list[k].user, amount |-> v] \in Entry
    BY <1>1 DEF Entry
  <1> QED
    BY <1>3, <1>4

\* The running totals, indexed by the lists the loop changes.
LEMMA Totals ==
  ASSUME TypeOK
  PROVE  /\ \A k \in 0 .. Len(debtors) : input.debtEnd[k] \in Nat
         /\ \A k \in 1 .. Len(debtors) :
              /\ input.debtors[k].amount = input.debtEnd[k - 1] - input.debtEnd[k]
              /\ \A h \in 0 .. k - 1 : input.debtEnd[h] < input.debtEnd[k]
         /\ \A l \in 0 .. Len(creditors) : input.creditEnd[l] \in Nat
         /\ \A l \in 1 .. Len(creditors) :
              /\ input.creditors[l].amount = input.creditEnd[l] - input.creditEnd[l - 1]
              /\ \A h \in 0 .. l - 1 : input.creditEnd[h] < input.creditEnd[l]
         /\ input.debtEnd[0] = 0 /\ input.creditEnd[0] = 0
  <1>1. /\ Len(debtors) = Len(input.debtors) /\ Len(creditors) = Len(input.creditors)
        /\ Len(debtors) \in Nat /\ Len(creditors) \in Nat
        /\ GoodInput(input)
    BY DEF TypeOK
  <1>2. \A k \in 0 .. Len(debtors) : input.debtEnd[k] \in Nat
    BY <1>1 DEF GoodInput
  <1>3. \A l \in 0 .. Len(creditors) : input.creditEnd[l] \in Nat
    BY <1>1 DEF GoodInput
  <1>4. ASSUME NEW k \in 1 .. Len(debtors)
        PROVE  /\ input.debtors[k].amount = input.debtEnd[k - 1] - input.debtEnd[k]
               /\ \A h \in 0 .. k - 1 : input.debtEnd[h] < input.debtEnd[k]
    <2>1. /\ input.debtEnd[k] = input.debtEnd[k - 1] - input.debtors[k].amount
          /\ \A h \in 0 .. k - 1 : input.debtEnd[h] < input.debtEnd[k]
      BY <1>1 DEF GoodInput
    <2>2. input.debtors[k].amount \in Int
      <3>1. input.debtors \in Seq(Entry) /\ k \in 1 .. Len(input.debtors)
        BY <1>1 DEF GoodInput
      <3>2. input.debtors[k] \in Entry
        BY <3>1
      <3> QED
        BY <3>2 DEF Entry
    <2>3. input.debtEnd[k - 1] \in Nat
      BY <1>1, <1>2
    <2> QED
      BY <2>1, <2>2, <2>3
  <1>5. ASSUME NEW l \in 1 .. Len(creditors)
        PROVE  /\ input.creditors[l].amount = input.creditEnd[l] - input.creditEnd[l - 1]
               /\ \A h \in 0 .. l - 1 : input.creditEnd[h] < input.creditEnd[l]
    <2>1. /\ input.creditEnd[l] = input.creditEnd[l - 1] + input.creditors[l].amount
          /\ \A h \in 0 .. l - 1 : input.creditEnd[h] < input.creditEnd[l]
      BY <1>1 DEF GoodInput
    <2>2. input.creditors[l].amount \in Int
      <3>1. input.creditors \in Seq(Entry) /\ l \in 1 .. Len(input.creditors)
        BY <1>1 DEF GoodInput
      <3>2. input.creditors[l] \in Entry
        BY <3>1
      <3> QED
        BY <3>2 DEF Entry
    <2>3. input.creditEnd[l - 1] \in Nat
      BY <1>1, <1>3
    <2> QED
      BY <2>1, <2>2, <2>3
  <1>6. input.debtEnd[0] = 0 /\ input.creditEnd[0] = 0
    BY <1>1 DEF GoodInput
  <1> QED
    BY <1>2, <1>3, <1>4, <1>5, <1>6

\* The arithmetic of one iteration, at frontier p.
LEMMA Settle ==
  ASSUME NEW d0 \in Nat, NEW d1 \in Nat, NEW c0 \in Nat, NEW c1 \in Nat, NEW p,
         p = LargerOf(d0, c0), p < d1, p < c1
  PROVE  /\ p \in Nat
         /\ SmallerOf(d1, c1) \in Nat /\ p < SmallerOf(d1, c1)
         /\ SmallerOf(-(p - d1), c1 - p) = SmallerOf(d1, c1) - p
         /\ LargerOf(SmallerOf(d1, c1) - LargerOf(d0, c0), 0) = SmallerOf(d1, c1) - p
         /\ p - d1 + (SmallerOf(d1, c1) - p) = SmallerOf(d1, c1) - d1
         /\ c1 - p - (SmallerOf(d1, c1) - p) = c1 - SmallerOf(d1, c1)
  BY DEF SmallerOf, LargerOf

\* The amounts in turn, seen from the frontier.
LEMMA InTurn ==
  ASSUME LoopInv, i <= Len(debtors), j <= Len(creditors)
  PROVE  /\ i \in 1 .. Len(debtors) /\ j \in 1 .. Len(creditors)
         /\ input.debtEnd[i - 1] \in Nat /\ input.debtEnd[i] \in Nat
         /\ input.creditEnd[j - 1] \in Nat /\ input.creditEnd[j] \in Nat
         /\ debtors[i].amount = Paired - input.debtEnd[i]
         /\ creditors[j].amount = input.creditEnd[j] - Paired
         /\ Paired < input.debtEnd[i] /\ Paired < input.creditEnd[j]
         /\ Paired = LargerOf(input.debtEnd[i - 1], input.creditEnd[j - 1])
  <1>1. i \in 1 .. Len(debtors) /\ j \in 1 .. Len(creditors)
    BY DEF LoopInv, TypeOK
  <1>2. /\ input.debtEnd[i - 1] \in Nat /\ input.debtEnd[i] \in Nat
        /\ input.creditEnd[j - 1] \in Nat /\ input.creditEnd[j] \in Nat
    <2>1. Len(debtors) \in Nat /\ Len(creditors) \in Nat
      <3>1. debtors \in Seq(Entry) /\ creditors \in Seq(Entry)
        BY DEF LoopInv, TypeOK
      <3> QED
        BY <3>1
    <2>2. /\ i - 1 \in 0 .. Len(debtors) /\ i \in 0 .. Len(debtors)
          /\ j - 1 \in 0 .. Len(creditors) /\ j \in 0 .. Len(creditors)
      BY <1>1, <2>1
    <2> QED
      BY <2>2, Totals DEF LoopInv
  <1>3. /\ debtors[i].amount = Paired - input.debtEnd[i]
        /\ creditors[j].amount = input.creditEnd[j] - Paired
        /\ Paired < input.debtEnd[i] /\ Paired < input.creditEnd[j]
        /\ Paired = LargerOf(input.debtEnd[i - 1], input.creditEnd[j - 1])
    BY DEF LoopInv, Frontier
  <1> QED
    BY <1>1, <1>2, <1>3

\* Where the frontier is after one iteration.
NextStop == SmallerOf(input.debtEnd[i], input.creditEnd[j])

\* What one iteration does.
LEMMA PairEffect ==
  ASSUME LoopInv, Pair
  PROVE  /\ i \in 1 .. Len(debtors) /\ j \in 1 .. Len(creditors)
         /\ Paired \in Nat /\ NextStop \in Nat /\ Paired < NextStop
         /\ Overlap(i, j) = NextStop - Paired
         /\ debts' = Append(debts, DebtOf(i, j))
         /\ debtors' \in Seq(Entry) /\ Len(debtors') = Len(debtors)
         /\ debtors'[i] = [user |-> debtors[i].user, amount |-> NextStop - input.debtEnd[i]]
         /\ \A k \in 1 .. Len(debtors) : k # i => debtors'[k] = debtors[k]
         /\ creditors' \in Seq(Entry) /\ Len(creditors') = Len(creditors)
         /\ creditors'[j] = [user |-> creditors[j].user,
                             amount |-> input.creditEnd[j] - NextStop]
         /\ \A l \in 1 .. Len(creditors) : l # j => creditors'[l] = creditors[l]
         /\ i' = IF NextStop = input.debtEnd[i] THEN i + 1 ELSE i
         /\ j' = IF NextStop = input.creditEnd[j] THEN j + 1 ELSE j
         /\ input' = input
  <1> DEFINE s == NextStop - Paired
  <1>1. i <= Len(debtors) /\ j <= Len(creditors)
    BY DEF Pair
  <1>2. /\ i \in 1 .. Len(debtors) /\ j \in 1 .. Len(creditors)
        /\ input.debtEnd[i] \in Nat /\ input.creditEnd[j] \in Nat
        /\ debtors[i].amount = Paired - input.debtEnd[i]
        /\ creditors[j].amount = input.creditEnd[j] - Paired
    BY <1>1, InTurn
  <1>3. /\ Paired \in Nat /\ NextStop \in Nat /\ Paired < NextStop
        /\ SmallerOf(-debtors[i].amount, creditors[j].amount) = s
        /\ Overlap(i, j) = s
        /\ debtors[i].amount + s = NextStop - input.debtEnd[i]
        /\ creditors[j].amount - s = input.creditEnd[j] - NextStop
    <2> DEFINE d0 == input.debtEnd[i - 1]
               d1 == input.debtEnd[i]
               c0 == input.creditEnd[j - 1]
               c1 == input.creditEnd[j]
               p == Paired
    <2>1. /\ d0 \in Nat /\ d1 \in Nat /\ c0 \in Nat /\ c1 \in Nat
          /\ p = LargerOf(d0, c0) /\ p < d1 /\ p < c1
          /\ debtors[i].amount = p - d1 /\ creditors[j].amount = c1 - p
      BY <1>1, InTurn
    <2>2. /\ NextStop = SmallerOf(d1, c1)
          /\ Overlap(i, j) = LargerOf(SmallerOf(d1, c1) - LargerOf(d0, c0), 0)
      BY DEF NextStop, Overlap
    <2> HIDE DEF d0, d1, c0, c1, p
    <2>3. /\ p \in Nat
          /\ SmallerOf(d1, c1) \in Nat /\ p < SmallerOf(d1, c1)
          /\ SmallerOf(-(p - d1), c1 - p) = SmallerOf(d1, c1) - p
          /\ LargerOf(SmallerOf(d1, c1) - LargerOf(d0, c0), 0) = SmallerOf(d1, c1) - p
          /\ p - d1 + (SmallerOf(d1, c1) - p) = SmallerOf(d1, c1) - d1
          /\ c1 - p - (SmallerOf(d1, c1) - p) = c1 - SmallerOf(d1, c1)
      BY <2>1, Settle
    <2> QED
      BY <2>1, <2>2, <2>3 DEF d1, c1, p
  <1>4. debtors \in Seq(Entry) /\ creditors \in Seq(Entry)
    BY DEF LoopInv, TypeOK
  <1>5. /\ debts' = Append(debts, [from |-> debtors[i].user, to |-> creditors[j].user,
                                   amount |-> s])
        /\ debtors' = [debtors EXCEPT ![i].amount = NextStop - input.debtEnd[i]]
        /\ creditors' = [creditors EXCEPT ![j].amount = input.creditEnd[j] - NextStop]
        /\ i' = IF debtors'[i].amount = 0 THEN i + 1 ELSE i
        /\ j' = IF creditors'[j].amount = 0 THEN j + 1 ELSE j
        /\ input' = input
    BY <1>3 DEF Pair
  <1>6. debts' = Append(debts, DebtOf(i, j))
    <2>1. debtors[i].user = input.debtors[i].user /\ creditors[j].user = input.creditors[j].user
      BY <1>2, <1>4 DEF LoopInv, Ahead
    <2> QED
      BY <1>3, <1>5, <2>1 DEF DebtOf
  <1> HIDE DEF s, NextStop, Paired
  <1>7. /\ debtors' \in Seq(Entry) /\ Len(debtors') = Len(debtors)
        /\ debtors'[i] = [user |-> debtors[i].user, amount |-> NextStop - input.debtEnd[i]]
        /\ \A k \in 1 .. Len(debtors) : k # i => debtors'[k] = debtors[k]
    <2> DEFINE v == NextStop - input.debtEnd[i]
    <2>1. v \in Int /\ debtors' = [debtors EXCEPT ![i].amount = v]
      BY <1>2, <1>3, <1>5
    <2> HIDE DEF v
    <2>2. /\ debtors' \in Seq(Entry) /\ Len(debtors') = Len(debtors)
          /\ debtors'[i] = [user |-> debtors[i].user, amount |-> v]
          /\ \A k \in 1 .. Len(debtors) : k # i => debtors'[k] = debtors[k]
      BY <1>2, <1>4, <2>1, SetAmount
    <2> QED
      BY <2>2 DEF v
  <1>8. /\ creditors' \in Seq(Entry) /\ Len(creditors') = Len(creditors)
        /\ creditors'[j] = [user |-> creditors[j].user,
                            amount |-> input.creditEnd[j] - NextStop]
        /\ \A l \in 1 .. Len(creditors) : l # j => creditors'[l] = creditors[l]
    <2> DEFINE v == input.creditEnd[j] - NextStop
    <2>1. v \in Int /\ creditors' = [creditors EXCEPT ![j].amount = v]
      BY <1>2, <1>3, <1>5
    <2> HIDE DEF v
    <2>2. /\ creditors' \in Seq(Entry) /\ Len(creditors') = Len(creditors)
          /\ creditors'[j] = [user |-> creditors[j].user, amount |-> v]
          /\ \A l \in 1 .. Len(creditors) : l # j => creditors'[l] = creditors[l]
      BY <1>2, <1>4, <2>1, SetAmount
    <2> QED
      BY <2>2 DEF v
  <1>9. /\ i' = IF NextStop = input.debtEnd[i] THEN i + 1 ELSE i
        /\ j' = IF NextStop = input.creditEnd[j] THEN j + 1 ELSE j
    <2>1. /\ debtors'[i].amount = NextStop - input.debtEnd[i]
          /\ creditors'[j].amount = input.creditEnd[j] - NextStop
      BY <1>7, <1>8
    <2>2. \A a, b \in Nat : (a - b = 0) <=> (a = b)
      OBVIOUS
    <2>3. /\ (NextStop - input.debtEnd[i] = 0) <=> (NextStop = input.debtEnd[i])
          /\ (input.creditEnd[j] - NextStop = 0) <=> (NextStop = input.creditEnd[j])
      BY <1>2, <1>3, <2>2
    <2>4. /\ i' = IF debtors'[i].amount = 0 THEN i + 1 ELSE i
          /\ j' = IF creditors'[j].amount = 0 THEN j + 1 ELSE j
      BY <1>5
    <2> QED
      BY <2>1, <2>3, <2>4
  <1> QED
    BY <1>2, <1>3, <1>5, <1>6, <1>7, <1>8, <1>9 DEF s

\* The positions in the lists, before and after an iteration.
LEMMA Positions ==
  ASSUME LoopInv
  PROVE  /\ DOMAIN debtors = 1 .. Len(debtors) /\ Len(debtors) \in Nat
         /\ DOMAIN creditors = 1 .. Len(creditors) /\ Len(creditors) \in Nat
         /\ Pair => DOMAIN debtors' = DOMAIN debtors /\ DOMAIN creditors' = DOMAIN creditors
         /\ Pair => i \in DOMAIN debtors /\ j \in DOMAIN creditors
  <1>1. /\ DOMAIN debtors = 1 .. Len(debtors) /\ Len(debtors) \in Nat
        /\ DOMAIN creditors = 1 .. Len(creditors) /\ Len(creditors) \in Nat
    <2>1. debtors \in Seq(Entry) /\ creditors \in Seq(Entry)
      BY DEF LoopInv, TypeOK
    <2> QED
      BY <2>1
  <1>2. ASSUME Pair
        PROVE  /\ DOMAIN debtors' = DOMAIN debtors /\ DOMAIN creditors' = DOMAIN creditors
               /\ i \in DOMAIN debtors /\ j \in DOMAIN creditors
    <2>1. /\ debtors' \in Seq(Entry) /\ Len(debtors') = Len(debtors)
          /\ creditors' \in Seq(Entry) /\ Len(creditors') = Len(creditors)
          /\ i \in 1 .. Len(debtors) /\ j \in 1 .. Len(creditors)
      BY <1>2, PairEffect
    <2>2. DOMAIN debtors' = 1 .. Len(debtors') /\ DOMAIN creditors' = 1 .. Len(creditors')
      BY <2>1
    <2> QED
      BY <1>1, <2>1, <2>2
  <1> QED
    BY <1>1, <1>2

\* The stop is where one of the two in turn is done, and not beyond either.
LEMMA StopShape ==
  ASSUME LoopInv, Pair
  PROVE  /\ NextStop <= input.debtEnd[i] /\ NextStop <= input.creditEnd[j]
         /\ NextStop = input.debtEnd[i] \/ NextStop = input.creditEnd[j]
         /\ input.debtEnd[i - 1] <= Paired /\ input.creditEnd[j - 1] <= Paired
         /\ input.debtEnd[i] \in Nat /\ input.creditEnd[j] \in Nat
         /\ input.debtEnd[i - 1] \in Nat /\ input.creditEnd[j - 1] \in Nat
  <1>1. i <= Len(debtors) /\ j <= Len(creditors)
    BY DEF Pair
  <1>2. /\ input.debtEnd[i - 1] \in Nat /\ input.debtEnd[i] \in Nat
        /\ input.creditEnd[j - 1] \in Nat /\ input.creditEnd[j] \in Nat
        /\ Paired = LargerOf(input.debtEnd[i - 1], input.creditEnd[j - 1])
    BY <1>1, InTurn
  <1>3. \A a, b \in Nat : /\ a <= LargerOf(a, b) /\ b <= LargerOf(a, b)
                          /\ SmallerOf(a, b) <= a /\ SmallerOf(a, b) <= b
                          /\ SmallerOf(a, b) = a \/ SmallerOf(a, b) = b
    BY DEF LargerOf, SmallerOf
  <1> QED
    BY <1>2, <1>3 DEF NextStop

\* Where an iteration leaves the debtor in turn.
LEMMA DebtorSide ==
  ASSUME LoopInv, Pair
  PROVE  /\ i' <= Len(debtors) =>
              /\ input.debtEnd[i' - 1] <= NextStop /\ NextStop < input.debtEnd[i']
              /\ debtors'[i'].amount = NextStop - input.debtEnd[i']
         /\ i' > Len(debtors) => NextStop = input.debtEnd[Len(debtors)]
         /\ i' \in 1 .. Len(debtors) + 1
  <1>1. /\ i \in 1 .. Len(debtors) /\ Paired \in Nat /\ NextStop \in Nat /\ Paired < NextStop
        /\ i' = IF NextStop = input.debtEnd[i] THEN i + 1 ELSE i
        /\ debtors'[i] = [user |-> debtors[i].user, amount |-> NextStop - input.debtEnd[i]]
        /\ \A k \in 1 .. Len(debtors) : k # i => debtors'[k] = debtors[k]
        /\ Len(debtors) \in Nat
    BY Positions, PairEffect
  <1>2. /\ NextStop <= input.debtEnd[i] /\ input.debtEnd[i - 1] <= Paired
        /\ input.debtEnd[i] \in Nat /\ input.debtEnd[i - 1] \in Nat
    BY StopShape
  <1>3. CASE NextStop # input.debtEnd[i]
    <2>1. i' = i /\ NextStop < input.debtEnd[i] /\ input.debtEnd[i - 1] <= NextStop
      BY <1>1, <1>2, <1>3
    <2>2. debtors'[i].amount = NextStop - input.debtEnd[i]
      BY <1>1
    <2> QED
      BY <1>1, <2>1, <2>2
  <1>4. CASE NextStop = input.debtEnd[i] /\ i < Len(debtors)
    <2>1. i' = i + 1 /\ i + 1 \in 1 .. Len(debtors) /\ i \in 0 .. (i + 1) - 1
          /\ (i + 1) - 1 = i
      BY <1>1, <1>4
    <2>2. debtors'[i + 1] = input.debtors[i + 1]
      <3>1. i + 1 \in DOMAIN debtors /\ i + 1 > i /\ i + 1 # i
        BY <2>1 DEF LoopInv, TypeOK
      <3>2. debtors[i + 1] = input.debtors[i + 1]
        BY <3>1 DEF LoopInv, Ahead
      <3>3. debtors'[i + 1] = debtors[i + 1]
        BY <1>1, <2>1, <3>1
      <3> QED
        BY <3>2, <3>3
    <2>3. /\ input.debtors[i + 1].amount = input.debtEnd[i] - input.debtEnd[i + 1]
          /\ input.debtEnd[i] < input.debtEnd[i + 1]
      BY <2>1, Totals DEF LoopInv
    <2>4. /\ input.debtEnd[i' - 1] = NextStop
          /\ debtors'[i'].amount = NextStop - input.debtEnd[i']
          /\ NextStop < input.debtEnd[i']
      BY <1>4, <2>1, <2>2, <2>3
    <2> QED
      BY <1>1, <2>1, <2>4
  <1>5. CASE NextStop = input.debtEnd[i] /\ i = Len(debtors)
    BY <1>1, <1>5
  <1> QED
    BY <1>1, <1>3, <1>4, <1>5

\* Where an iteration leaves the creditor in turn.
LEMMA CreditorSide ==
  ASSUME LoopInv, Pair
  PROVE  /\ j' <= Len(creditors) =>
              /\ input.creditEnd[j' - 1] <= NextStop /\ NextStop < input.creditEnd[j']
              /\ creditors'[j'].amount = input.creditEnd[j'] - NextStop
         /\ j' > Len(creditors) => NextStop = input.creditEnd[Len(creditors)]
         /\ j' \in 1 .. Len(creditors) + 1
  <1>1. /\ j \in 1 .. Len(creditors) /\ Paired \in Nat /\ NextStop \in Nat /\ Paired < NextStop
        /\ j' = IF NextStop = input.creditEnd[j] THEN j + 1 ELSE j
        /\ creditors'[j] = [user |-> creditors[j].user,
                            amount |-> input.creditEnd[j] - NextStop]
        /\ \A l \in 1 .. Len(creditors) : l # j => creditors'[l] = creditors[l]
        /\ Len(creditors) \in Nat
    BY Positions, PairEffect
  <1>2. /\ NextStop <= input.creditEnd[j] /\ input.creditEnd[j - 1] <= Paired
        /\ input.creditEnd[j] \in Nat /\ input.creditEnd[j - 1] \in Nat
    BY StopShape
  <1>3. CASE NextStop # input.creditEnd[j]
    <2>1. j' = j /\ NextStop < input.creditEnd[j] /\ input.creditEnd[j - 1] <= NextStop
      BY <1>1, <1>2, <1>3
    <2>2. creditors'[j].amount = input.creditEnd[j] - NextStop
      BY <1>1
    <2> QED
      BY <1>1, <2>1, <2>2
  <1>4. CASE NextStop = input.creditEnd[j] /\ j < Len(creditors)
    <2>1. j' = j + 1 /\ j + 1 \in 1 .. Len(creditors) /\ j \in 0 .. (j + 1) - 1
          /\ (j + 1) - 1 = j
      BY <1>1, <1>4
    <2>2. creditors'[j + 1] = input.creditors[j + 1]
      <3>1. j + 1 \in DOMAIN creditors /\ j + 1 > j /\ j + 1 # j
        BY <2>1 DEF LoopInv, TypeOK
      <3>2. creditors[j + 1] = input.creditors[j + 1]
        BY <3>1 DEF LoopInv, Ahead
      <3>3. creditors'[j + 1] = creditors[j + 1]
        BY <1>1, <2>1, <3>1
      <3> QED
        BY <3>2, <3>3
    <2>3. /\ input.creditors[j + 1].amount = input.creditEnd[j + 1] - input.creditEnd[j]
          /\ input.creditEnd[j] < input.creditEnd[j + 1]
      BY <2>1, Totals DEF LoopInv
    <2>4. /\ input.creditEnd[j' - 1] = NextStop
          /\ creditors'[j'].amount = input.creditEnd[j'] - NextStop
          /\ NextStop < input.creditEnd[j']
      BY <1>4, <2>1, <2>2, <2>3
    <2> QED
      BY <1>1, <2>1, <2>4
  <1>5. CASE NextStop = input.creditEnd[j] /\ j = Len(creditors)
    BY <1>1, <1>5
  <1> QED
    BY <1>1, <1>3, <1>4, <1>5

\* Both sides have come as far as the next stop.
LEMMA FrontierNext == LoopInv /\ Pair => Paired' = NextStop /\ Frontier'
  <1> SUFFICES ASSUME LoopInv, Pair PROVE Paired' = NextStop /\ Frontier'
    OBVIOUS
  <1>1. /\ Len(debtors') = Len(debtors) /\ Len(creditors') = Len(creditors)
        /\ input' = input /\ NextStop \in Nat
        /\ Len(debtors) \in Nat /\ Len(creditors) \in Nat
        /\ i \in 1 .. Len(debtors) /\ j \in 1 .. Len(creditors)
    BY Positions, PairEffect
  <1>2. Paired' = NextStop
    <2>1. CASE i' <= Len(debtors)
      <3>1. i' \in 0 .. Len(debtors) /\ debtors'[i'].amount = NextStop - input.debtEnd[i']
        BY <1>1, <2>1, DebtorSide
      <3>2. input.debtEnd[i'] \in Nat
        BY <3>1, Totals DEF LoopInv
      <3>3. input.debtEnd[i'] + (NextStop - input.debtEnd[i']) = NextStop
        BY <1>1, <3>2
      <3> QED
        BY <1>1, <2>1, <3>1, <3>3 DEF Paired
    <2>2. CASE ~(i' <= Len(debtors))
      <3>1. i' > Len(debtors)
        BY <1>1, <2>2, DebtorSide
      <3> QED
        BY <1>1, <2>2, <3>1, DebtorSide DEF Paired
    <2> QED
      BY <2>1, <2>2
  <1>3. ASSUME i' <= Len(debtors), j' <= Len(creditors)
        PROVE  NextStop = LargerOf(input.debtEnd[i' - 1], input.creditEnd[j' - 1])
    <2>1. /\ input.debtEnd[i' - 1] \in Nat /\ input.creditEnd[j' - 1] \in Nat
          /\ input.debtEnd[i' - 1] <= NextStop /\ input.creditEnd[j' - 1] <= NextStop
      <3>1. i' - 1 \in 0 .. Len(debtors) /\ j' - 1 \in 0 .. Len(creditors)
        BY <1>1, <1>3, DebtorSide, CreditorSide
      <3> QED
        BY <1>3, <3>1, Totals, DebtorSide, CreditorSide DEF LoopInv
    <2>2. input.debtEnd[i' - 1] = NextStop \/ input.creditEnd[j' - 1] = NextStop
      <3>1. CASE NextStop = input.debtEnd[i]
        <4>1. i' = i + 1 /\ i' - 1 = i
          BY <1>1, <3>1, PairEffect
        <4> QED
          BY <3>1, <4>1
      <3>2. CASE NextStop = input.creditEnd[j]
        <4>1. j' = j + 1 /\ j' - 1 = j
          BY <1>1, <3>2, PairEffect
        <4> QED
          BY <3>2, <4>1
      <3> QED
        BY <3>1, <3>2, StopShape
    <2>3. \A a, b \in Nat, x \in Nat :
            a <= x /\ b <= x /\ (a = x \/ b = x) => x = LargerOf(a, b)
      BY DEF LargerOf
    <2> QED
      BY <1>1, <2>1, <2>2, <2>3
  <1>4. Frontier'
    BY <1>1, <1>2, <1>3, DebtorSide, CreditorSide DEF Frontier
  <1> QED
    BY <1>2, <1>4

\* The pair in turn is the only one whose stretches meet between the frontier
\* and the next stop.
LEMMA OnlyThePairInTurn ==
  ASSUME LoopInv, Pair,
         NEW k \in DOMAIN debtors, NEW l \in DOMAIN creditors,
         Overlap(k, l) > 0,
         SmallerOf(input.debtEnd[k], input.creditEnd[l]) <= NextStop,
         ~(SmallerOf(input.debtEnd[k], input.creditEnd[l]) <= Paired)
  PROVE  k = i /\ l = j
  <1> DEFINE D == input.debtEnd
             C == input.creditEnd
  <1>1. /\ k \in 1 .. Len(debtors) /\ l \in 1 .. Len(creditors)
        /\ i \in 1 .. Len(debtors) /\ j \in 1 .. Len(creditors)
        /\ Paired \in Nat /\ NextStop \in Nat
        /\ NextStop <= D[i] /\ NextStop <= C[j]
        /\ D[i - 1] <= Paired /\ C[j - 1] <= Paired
    BY Positions, PairEffect, StopShape
  <1>2. /\ \A x \in 0 .. Len(debtors) : D[x] \in Nat
        /\ \A x \in 0 .. Len(creditors) : C[x] \in Nat
        /\ \A x \in 1 .. Len(debtors) : \A h \in 0 .. x - 1 : D[h] < D[x]
        /\ \A x \in 1 .. Len(creditors) : \A h \in 0 .. x - 1 : C[h] < C[x]
    BY Totals DEF LoopInv
  <1>3. /\ D[k] \in Nat /\ C[l] \in Nat /\ D[k - 1] \in Nat /\ C[l - 1] \in Nat
        /\ D[i] \in Nat /\ C[j] \in Nat /\ D[i - 1] \in Nat /\ C[j - 1] \in Nat
    <2>1. /\ k \in 0 .. Len(debtors) /\ k - 1 \in 0 .. Len(debtors)
          /\ i \in 0 .. Len(debtors) /\ i - 1 \in 0 .. Len(debtors)
          /\ l \in 0 .. Len(creditors) /\ l - 1 \in 0 .. Len(creditors)
          /\ j \in 0 .. Len(creditors) /\ j - 1 \in 0 .. Len(creditors)
      BY <1>1, Positions
    <2> QED
      BY <1>2, <2>1
  <1>4. /\ Paired < D[k] /\ Paired < C[l]
        /\ D[k - 1] < NextStop /\ C[l - 1] < NextStop
    <2>1. \A a, b, x \in Nat : ~(SmallerOf(a, b) <= x) => x < a /\ x < b
      BY DEF SmallerOf
    <2>2. \A a, b, c, d, y \in Nat :
            LargerOf(SmallerOf(a, b) - LargerOf(c, d), 0) > 0 /\ SmallerOf(a, b) <= y
            => c < y /\ d < y
      BY DEF SmallerOf, LargerOf
    <2>3. /\ LargerOf(SmallerOf(D[k], C[l]) - LargerOf(D[k - 1], C[l - 1]), 0) > 0
          /\ SmallerOf(D[k], C[l]) <= NextStop
          /\ ~(SmallerOf(D[k], C[l]) <= Paired)
      BY DEF Overlap
    <2> HIDE DEF D, C, NextStop, Paired
    <2>4. Paired < D[k] /\ Paired < C[l]
      BY <1>1, <1>3, <2>1, <2>3
    <2>5. D[k - 1] < NextStop /\ C[l - 1] < NextStop
      BY <1>1, <1>3, <2>2, <2>3
    <2> QED
      BY <2>4, <2>5
  <1> HIDE DEF D, C
  <1>5. /\ \A x, y \in 0 .. Len(debtors) : x <= y => D[x] <= D[y]
        /\ \A x, y \in 0 .. Len(creditors) : x <= y => C[x] <= C[y]
    <2>1. Len(debtors) \in Nat /\ Len(creditors) \in Nat
      BY Positions
    <2>2. ASSUME NEW x \in 0 .. Len(debtors), NEW y \in 0 .. Len(debtors), x <= y
          PROVE  D[x] <= D[y]
      <3>1. CASE x = y
        BY <1>2, <3>1
      <3>2. CASE x # y
        <4>1. y \in 1 .. Len(debtors) /\ x \in 0 .. y - 1
          BY <2>1, <2>2, <3>2
        <4>2. D[x] < D[y] /\ D[x] \in Nat /\ D[y] \in Nat
          BY <1>2, <4>1
        <4> QED
          BY <4>2
      <3> QED
        BY <3>1, <3>2
    <2>3. ASSUME NEW x \in 0 .. Len(creditors), NEW y \in 0 .. Len(creditors), x <= y
          PROVE  C[x] <= C[y]
      <3>1. CASE x = y
        BY <1>2, <3>1
      <3>2. CASE x # y
        <4>1. y \in 1 .. Len(creditors) /\ x \in 0 .. y - 1
          BY <2>1, <2>3, <3>2
        <4>2. C[x] < C[y] /\ C[x] \in Nat /\ C[y] \in Nat
          BY <1>2, <4>1
        <4> QED
          BY <4>2
      <3> QED
        BY <3>1, <3>2
    <2> QED
      BY <2>2, <2>3
  <1>6. ~(k < i) /\ ~(l < j)
    <2>1. k < i => D[k] <= D[i - 1]
      <3>1. k < i => /\ k \in 0 .. Len(debtors) /\ i - 1 \in 0 .. Len(debtors)
                     /\ k <= i - 1
        BY <1>1, Positions
      <3> QED
        BY <1>5, <3>1
    <2>2. l < j => C[l] <= C[j - 1]
      <3>1. l < j => /\ l \in 0 .. Len(creditors) /\ j - 1 \in 0 .. Len(creditors)
                     /\ l <= j - 1
        BY <1>1, Positions
      <3> QED
        BY <1>5, <3>1
    <2>3. \A a, b, c \in Nat : a <= b /\ b < c => ~(c <= a)
      OBVIOUS
    <2>4. ~(D[k] <= D[i - 1])
      BY <1>1, <1>3, <1>4, <2>3
    <2>5. ~(C[l] <= C[j - 1])
      BY <1>1, <1>3, <1>4, <2>3
    <2> QED
      BY <2>1, <2>2, <2>4, <2>5
  <1>7. ~(k > i) /\ ~(l > j)
    <2>1. k > i => D[i] <= D[k - 1]
      <3>1. k > i => /\ i \in 0 .. Len(debtors) /\ k - 1 \in 0 .. Len(debtors)
                     /\ i <= k - 1
        BY <1>1, Positions
      <3> QED
        BY <1>5, <3>1
    <2>2. l > j => C[j] <= C[l - 1]
      <3>1. l > j => /\ j \in 0 .. Len(creditors) /\ l - 1 \in 0 .. Len(creditors)
                     /\ j <= l - 1
        BY <1>1, Positions
      <3> QED
        BY <1>5, <3>1
    <2>3. \A a, b, c \in Nat : a < b /\ b <= c => ~(c <= a)
      OBVIOUS
    <2>4. ~(D[i] <= D[k - 1])
      BY <1>1, <1>3, <1>4, <2>3
    <2>5. ~(C[j] <= C[l - 1])
      BY <1>1, <1>3, <1>4, <2>3
    <2> QED
      BY <2>1, <2>2, <2>4, <2>5
  <1> QED
    BY <1>1, <1>6, <1>7

\* What is listed after an iteration: what was listed, and the pair in turn.
LEMMA ListedNext == LoopInv /\ Pair => ListedSoFar'
  <1> SUFFICES ASSUME LoopInv, Pair PROVE ListedSoFar'
    OBVIOUS
  <1> DEFINE End(k, l) == SmallerOf(input.debtEnd[k], input.creditEnd[l])
  <1>1. /\ i \in DOMAIN debtors /\ j \in DOMAIN creditors
        /\ DOMAIN debtors' = DOMAIN debtors /\ DOMAIN creditors' = DOMAIN creditors
        /\ input' = input /\ Paired' = NextStop
        /\ Paired \in Nat /\ NextStop \in Nat /\ Paired < NextStop
        /\ Overlap(i, j) = NextStop - Paired
    BY Positions, PairEffect, FrontierNext
  <1>2. /\ debts \in Seq([from : Users, to : Users, amount : Int])
        /\ debts' = Append(debts, DebtOf(i, j))
    <2>1. debts \in Seq([from : Users, to : Users, amount : Int])
      BY DEF LoopInv, TypeOK
    <2> QED
      BY <2>1, PairEffect
  <1>3. /\ DOMAIN debts' = DOMAIN debts \cup {Len(debts) + 1}
        /\ debts'[Len(debts) + 1] = DebtOf(i, j)
        /\ \A t \in DOMAIN debts : debts'[t] = debts[t]
    BY <1>2
  <1>4. \A k \in DOMAIN debtors, l \in DOMAIN creditors : End(k, l) \in Nat
    <2>1. /\ \A k \in DOMAIN debtors : input.debtEnd[k] \in Nat
          /\ \A l \in DOMAIN creditors : input.creditEnd[l] \in Nat
      <3>1. /\ DOMAIN debtors \subseteq 0 .. Len(debtors)
            /\ DOMAIN creditors \subseteq 0 .. Len(creditors)
        BY Positions
      <3>2. /\ \A k \in 0 .. Len(debtors) : input.debtEnd[k] \in Nat
            /\ \A l \in 0 .. Len(creditors) : input.creditEnd[l] \in Nat
        BY Totals DEF LoopInv
      <3> QED
        BY <3>1, <3>2
    <2> QED
      BY <2>1 DEF SmallerOf
  <1>5. ASSUME NEW k \in DOMAIN debtors, NEW l \in DOMAIN creditors,
               Overlap(k, l) > 0, End(k, l) <= NextStop
        PROVE  \E t \in DOMAIN debts' : debts'[t] = DebtOf(k, l)
    <2>1. CASE End(k, l) <= Paired
      <3>1. PICK t \in DOMAIN debts : debts[t] = DebtOf(k, l)
        BY <1>5, <2>1 DEF LoopInv, ListedSoFar
      <3> QED
        BY <1>3, <3>1
    <2>2. CASE ~(End(k, l) <= Paired)
      <3>1. k = i /\ l = j
        BY <1>5, <2>2, OnlyThePairInTurn
      <3> QED
        BY <1>3, <3>1
    <2> QED
      BY <2>1, <2>2
  <1>6. ASSUME NEW t \in DOMAIN debts'
        PROVE  \E k \in DOMAIN debtors, l \in DOMAIN creditors :
                 /\ Overlap(k, l) > 0
                 /\ End(k, l) <= NextStop
                 /\ debts'[t] = DebtOf(k, l)
    <2>1. CASE t \in DOMAIN debts
      <3>1. PICK k \in DOMAIN debtors, l \in DOMAIN creditors :
              /\ Overlap(k, l) > 0
              /\ End(k, l) <= Paired
              /\ debts[t] = DebtOf(k, l)
        BY <2>1 DEF LoopInv, ListedSoFar
      <3>2. End(k, l) <= NextStop
        BY <1>1, <1>4, <3>1
      <3> QED
        BY <1>3, <2>1, <3>1, <3>2
    <2>2. CASE t = Len(debts) + 1
      <3>1. End(i, j) = NextStop /\ Overlap(i, j) > 0
        BY <1>1 DEF NextStop
      <3>2. End(i, j) <= NextStop
        BY <1>1, <3>1
      <3> QED
        BY <1>1, <1>3, <2>2, <3>1, <3>2
    <2> QED
      BY <1>3, <2>1, <2>2
  <1>7. \A k, l : Overlap(k, l)' = Overlap(k, l) /\ DebtOf(k, l)' = DebtOf(k, l)
    BY <1>1 DEF Overlap, DebtOf
  <1>8. ASSUME NEW k \in DOMAIN debtors', NEW l \in DOMAIN creditors',
               Overlap(k, l)' > 0,
               SmallerOf(input'.debtEnd[k], input'.creditEnd[l]) <= Paired'
        PROVE  \E t \in DOMAIN debts' : debts'[t] = DebtOf(k, l)'
    BY <1>1, <1>5, <1>7, <1>8
  <1>9. ASSUME NEW t \in DOMAIN debts'
        PROVE  \E k \in DOMAIN debtors', l \in DOMAIN creditors' :
                 /\ Overlap(k, l)' > 0
                 /\ SmallerOf(input'.debtEnd[k], input'.creditEnd[l]) <= Paired'
                 /\ debts'[t] = DebtOf(k, l)'
    BY <1>1, <1>6, <1>7
  <1> QED
    BY <1>8, <1>9 DEF ListedSoFar

\* The pair in turn has not been listed yet.
LEMMA NoPairTwiceNext == LoopInv /\ Pair => NoPairTwice'
  <1> SUFFICES ASSUME LoopInv, Pair PROVE NoPairTwice'
    OBVIOUS
  <1>1. /\ i \in DOMAIN debtors /\ j \in DOMAIN creditors
        /\ Paired \in Nat /\ NextStop \in Nat /\ Paired < NextStop
        /\ debts \in Seq([from : Users, to : Users, amount : Int])
        /\ debts' = Append(debts, DebtOf(i, j))
    <2>1. debts \in Seq([from : Users, to : Users, amount : Int])
      BY DEF LoopInv, TypeOK
    <2> QED
      BY <2>1, Positions, PairEffect
  <1>2. /\ DOMAIN debts' = DOMAIN debts \cup {Len(debts) + 1}
        /\ debts'[Len(debts) + 1] = DebtOf(i, j)
        /\ \A t \in DOMAIN debts : debts'[t] = debts[t]
    BY <1>1
  <1>3. ASSUME NEW t \in DOMAIN debts,
               debts[t].from = DebtOf(i, j).from, debts[t].to = DebtOf(i, j).to
        PROVE  FALSE
    <2>1. PICK k \in DOMAIN debtors, l \in DOMAIN creditors :
            /\ SmallerOf(input.debtEnd[k], input.creditEnd[l]) <= Paired
            /\ debts[t] = DebtOf(k, l)
      BY DEF LoopInv, ListedSoFar
    <2>2. /\ input.debtors[k].user = input.debtors[i].user
          /\ input.creditors[l].user = input.creditors[j].user
      BY <1>3, <2>1 DEF DebtOf
    <2>3. /\ DOMAIN input.debtors = DOMAIN debtors /\ ListsNobodyTwice(input.debtors)
          /\ DOMAIN input.creditors = DOMAIN creditors /\ ListsNobodyTwice(input.creditors)
      BY DEF LoopInv, TypeOK, GoodInput
    <2>4. k = i /\ l = j
      BY <1>1, <2>2, <2>3 DEF ListsNobodyTwice
    <2> QED
      BY <1>1, <2>1, <2>4 DEF NextStop
  <1>4. NoPairTwice
    BY DEF LoopInv
  <1> QED
    BY <1>2, <1>3, <1>4 DEF NoPairTwice

\* Members whose turn has not come stay as they were given.
LEMMA AheadNext == LoopInv /\ Pair => Ahead'
  <1> SUFFICES ASSUME LoopInv, Pair PROVE Ahead'
    OBVIOUS
  <1>1. /\ i \in DOMAIN debtors /\ j \in DOMAIN creditors /\ i \in Nat /\ j \in Nat
        /\ DOMAIN debtors \subseteq Nat /\ DOMAIN creditors \subseteq Nat
        /\ DOMAIN debtors' = DOMAIN debtors /\ DOMAIN creditors' = DOMAIN creditors
        /\ input' = input
        /\ i' = i \/ i' = i + 1
        /\ j' = j \/ j' = j + 1
    BY Positions, PairEffect
  <1>2. /\ debtors'[i].user = debtors[i].user
        /\ \A k \in DOMAIN debtors : k # i => debtors'[k] = debtors[k]
        /\ creditors'[j].user = creditors[j].user
        /\ \A l \in DOMAIN creditors : l # j => creditors'[l] = creditors[l]
    <2>1. debtors'[i] = [user |-> debtors[i].user, amount |-> NextStop - input.debtEnd[i]]
      BY PairEffect
    <2>2. creditors'[j] = [user |-> creditors[j].user,
                           amount |-> input.creditEnd[j] - NextStop]
      BY PairEffect
    <2> QED
      BY <2>1, <2>2, Positions, PairEffect
  <1>3. ASSUME NEW k \in DOMAIN debtors
        PROVE  /\ debtors'[k].user = input.debtors[k].user
               /\ k > i' => debtors'[k] = input.debtors[k]
    <2>1. /\ debtors[k].user = input.debtors[k].user
          /\ k > i => debtors[k] = input.debtors[k]
      BY DEF LoopInv, Ahead
    <2>2. k > i' => k > i /\ k # i
      BY <1>1
    <2> QED
      BY <1>1, <1>2, <2>1, <2>2
  <1>4. ASSUME NEW l \in DOMAIN creditors
        PROVE  /\ creditors'[l].user = input.creditors[l].user
               /\ l > j' => creditors'[l] = input.creditors[l]
    <2>1. /\ creditors[l].user = input.creditors[l].user
          /\ l > j => creditors[l] = input.creditors[l]
      BY DEF LoopInv, Ahead
    <2>2. l > j' => l > j /\ l # j
      BY <1>1
    <2> QED
      BY <1>1, <1>2, <2>1, <2>2
  <1> QED
    BY <1>1, <1>3, <1>4 DEF Ahead

\* Each iteration lists one debt and ends at least one member's turn.
LEMMA CountNext ==
  LoopInv /\ Pair => TypeOK' /\ Len(debts') <= i' + j' - 2 /\ FewDebts'
  <1> SUFFICES ASSUME LoopInv, Pair
               PROVE  TypeOK' /\ Len(debts') <= i' + j' - 2 /\ FewDebts'
    OBVIOUS
  <1>1. /\ i \in 1 .. Len(debtors) /\ j \in 1 .. Len(creditors)
        /\ Len(debtors) \in Nat /\ Len(creditors) \in Nat /\ Len(debts) \in Nat
        /\ debts \in Seq([from : Users, to : Users, amount : Int])
        /\ Len(debts) <= i + j - 2
        /\ Len(debtors) = Len(input.debtors) /\ Len(creditors) = Len(input.creditors)
        /\ input \in Inputs /\ GoodInput(input)
    <2>1. /\ debts \in Seq([from : Users, to : Users, amount : Int])
          /\ Len(debts) <= i + j - 2
          /\ Len(debtors) = Len(input.debtors) /\ Len(creditors) = Len(input.creditors)
          /\ input \in Inputs /\ GoodInput(input)
      BY DEF LoopInv, TypeOK
    <2> QED
      BY <2>1, Positions, PairEffect
  <1>2. DebtOf(i, j) \in [from : Users, to : Users, amount : Int]
    <2>1. input.debtors[i] \in Entry /\ input.creditors[j] \in Entry
      <3>1. input.debtors \in Seq(Entry) /\ input.creditors \in Seq(Entry)
        BY <1>1 DEF GoodInput
      <3>2. i \in 1 .. Len(input.debtors) /\ j \in 1 .. Len(input.creditors)
        BY <1>1
      <3> QED
        BY <3>1, <3>2
    <2>2. Overlap(i, j) \in Int
      BY PairEffect
    <2> QED
      BY <2>1, <2>2 DEF DebtOf, Entry
  <1>3. debts' = Append(debts, DebtOf(i, j))
    BY PairEffect
  <1>4. /\ Len(debts') = Len(debts) + 1
        /\ debts' \in Seq([from : Users, to : Users, amount : Int])
    BY <1>1, <1>2, <1>3
  <1>5. i' + j' >= i + j + 1
    <2>1. /\ i' = IF NextStop = input.debtEnd[i] THEN i + 1 ELSE i
          /\ j' = IF NextStop = input.creditEnd[j] THEN j + 1 ELSE j
          /\ NextStop = input.debtEnd[i] \/ NextStop = input.creditEnd[j]
      BY PairEffect, StopShape
    <2>2. (i' = i \/ i' = i + 1) /\ (j' = j \/ j' = j + 1) /\ (i' = i + 1 \/ j' = j + 1)
      BY <2>1
    <2> QED
      BY <1>1, <2>2
  <1>6. Len(debts') <= i' + j' - 2
    BY <1>1, <1>4, <1>5, DebtorSide, CreditorSide
  <1>7. /\ input' = input
        /\ debtors' \in Seq(Entry) /\ Len(debtors') = Len(debtors)
        /\ creditors' \in Seq(Entry) /\ Len(creditors') = Len(creditors)
        /\ i' \in 1 .. Len(debtors) + 1 /\ j' \in 1 .. Len(creditors) + 1
    BY PairEffect, DebtorSide, CreditorSide
  <1>8. TypeOK'
    BY <1>1, <1>4, <1>7 DEF TypeOK, GoodInput, ListsNobodyTwice
  <1>9. FewDebts'
    <2>1. Len(debts') < Len(debtors') + Len(creditors')
      <3>1. \A n, m, x, y, d \in Nat :
              x <= n /\ y <= m /\ d <= x + y - 2 => d + 1 < n + m
        OBVIOUS
      <3>2. i \in Nat /\ j \in Nat /\ i <= Len(debtors) /\ j <= Len(creditors)
        BY <1>1
      <3>3. Len(debts) + 1 < Len(debtors) + Len(creditors)
        BY <1>1, <3>1, <3>2
      <3> QED
        BY <1>4, <1>7, <3>3
    <2> QED
      BY <2>1 DEF FewDebts
  <1> QED
    BY <1>6, <1>8, <1>9

-----------------------------------------------------------------------------
(* What the listed debts make a member pay *)

\* One more listed debt is paid by its debtor and paid to its creditor.
LEMMA AppendPays ==
  ASSUME NEW d \in [from : Users, to : Users, amount : Int],
         NEW list \in Seq([from : Users, to : Users, amount : Int]), NEW u
  PROVE  /\ PaidBy(list, u) \in Int /\ PaidTo(list, u) \in Int
         /\ PaidBy(Append(list, d), u) = PaidBy(list, u) + (IF d.from = u THEN d.amount ELSE 0)
         /\ PaidTo(Append(list, d), u) = PaidTo(list, u) + (IF d.to = u THEN d.amount ELSE 0)
  <1> DEFINE n == Len(list) + 1
             longer == Append(list, d)
             Debt == [from : Users, to : Users, amount : Int]
  <1>1. /\ Len(list) \in Nat /\ DOMAIN list = 1 .. Len(list)
        /\ DOMAIN longer = DOMAIN list \cup {n} /\ n \notin DOMAIN list
        /\ longer[n] = d /\ \A t \in DOMAIN list : longer[t] = list[t]
        /\ \A t \in DOMAIN list : list[t].amount \in Int
        /\ d.amount \in Int
    <2>1. \A x \in Debt : x.amount \in Int
      OBVIOUS
    <2>2. d \in Debt /\ list \in Seq(Debt)
      OBVIOUS
    <2> HIDE DEF Debt
    <2>3. /\ Len(list) \in Nat /\ DOMAIN list = 1 .. Len(list)
          /\ DOMAIN longer = DOMAIN list \cup {n} /\ n \notin DOMAIN list
          /\ longer[n] = d /\ \A t \in DOMAIN list : longer[t] = list[t]
          /\ \A t \in DOMAIN list : list[t] \in Debt
      BY <2>2
    <2> QED
      BY <2>1, <2>2, <2>3
  <1>2. IsFiniteSet(DOMAIN list)
    BY <1>1, FirstNumbers
  <1> HIDE DEF n, Debt, longer
  <1>3. /\ PaidBy(list, u) \in Int
        /\ PaidBy(longer, u) = PaidBy(list, u) + (IF d.from = u THEN d.amount ELSE 0)
    <2> DEFINE S == {t \in DOMAIN list : list[t].from = u}
               T == {t \in DOMAIN longer : longer[t].from = u}
               f == [t \in S |-> list[t].amount]
               g == [t \in T |-> longer[t].amount]
    <2>1. IsFiniteSet(S) /\ n \notin S
      BY <1>1, <1>2, FS_Subset
    <2>2. (T = S \/ T = S \cup {n}) /\ (n \in T <=> d.from = u)
      BY <1>1
    <2>3. /\ DOMAIN f = S /\ DOMAIN g = T
          /\ \A t \in S : f[t] \in Int /\ g[t] = f[t]
          /\ \A t \in T : g[t] \in Int
          /\ n \in T => g[n] = d.amount
      BY <1>1, <2>2
    <2>4. PaidBy(list, u) = SumFunction(f) /\ PaidBy(longer, u) = SumFunction(g)
      BY DEF PaidBy, Sum
    <2> HIDE DEF S, T, f, g
    <2>5. MayAdd(f, n, g)
      BY <2>1, <2>2, <2>3 DEF MayAdd
    <2>6. /\ SumFunction(f) \in Int
          /\ n \in T => SumFunction(g) = SumFunction(f) + g[n]
          /\ n \notin T => SumFunction(g) = SumFunction(f)
      BY <2>3, <2>5, MayAddSum
    <2> QED
      BY <2>2, <2>3, <2>4, <2>6
  <1>4. /\ PaidTo(list, u) \in Int
        /\ PaidTo(longer, u) = PaidTo(list, u) + (IF d.to = u THEN d.amount ELSE 0)
    <2> DEFINE S == {t \in DOMAIN list : list[t].to = u}
               T == {t \in DOMAIN longer : longer[t].to = u}
               f == [t \in S |-> list[t].amount]
               g == [t \in T |-> longer[t].amount]
    <2>1. IsFiniteSet(S) /\ n \notin S
      BY <1>1, <1>2, FS_Subset
    <2>2. (T = S \/ T = S \cup {n}) /\ (n \in T <=> d.to = u)
      BY <1>1
    <2>3. /\ DOMAIN f = S /\ DOMAIN g = T
          /\ \A t \in S : f[t] \in Int /\ g[t] = f[t]
          /\ \A t \in T : g[t] \in Int
          /\ n \in T => g[n] = d.amount
      BY <1>1, <2>2
    <2>4. PaidTo(list, u) = SumFunction(f) /\ PaidTo(longer, u) = SumFunction(g)
      BY DEF PaidTo, Sum
    <2> HIDE DEF S, T, f, g
    <2>5. MayAdd(f, n, g)
      BY <2>1, <2>2, <2>3 DEF MayAdd
    <2>6. /\ SumFunction(f) \in Int
          /\ n \in T => SumFunction(g) = SumFunction(f) + g[n]
          /\ n \notin T => SumFunction(g) = SumFunction(f)
      BY <2>3, <2>5, MayAddSum
    <2> QED
      BY <2>2, <2>3, <2>4, <2>6
  <1> QED
    BY <1>3, <1>4 DEF longer

\* What a member pays, and is paid, is an amount.
LEMMA PaidIsAmount ==
  ASSUME NEW list \in Seq([from : Users, to : Users, amount : Int]), NEW u
  PROVE  PaidBy(list, u) \in Int /\ PaidTo(list, u) \in Int
  <1> DEFINE by == {t \in DOMAIN list : list[t].from = u}
             to == {t \in DOMAIN list : list[t].to = u}
             f == [t \in by |-> list[t].amount]
             g == [t \in to |-> list[t].amount]
  <1>1. IsFiniteSet(DOMAIN list) /\ \A t \in DOMAIN list : list[t].amount \in Int
    <2> DEFINE Debt == [from : Users, to : Users, amount : Int]
    <2>1. list \in Seq(Debt) /\ \A x \in Debt : x.amount \in Int
      OBVIOUS
    <2> HIDE DEF Debt
    <2>2. Len(list) \in Nat /\ DOMAIN list = 1 .. Len(list) /\ \A t \in DOMAIN list : list[t] \in Debt
      BY <2>1
    <2> QED
      BY <2>1, <2>2, FirstNumbers
  <1>2. IsFiniteSet(by) /\ IsFiniteSet(to)
    BY <1>1, FS_Subset
  <1>3. /\ DOMAIN f = by /\ \A t \in by : f[t] \in Int
        /\ DOMAIN g = to /\ \A t \in to : g[t] \in Int
    BY <1>1
  <1>4. PaidBy(list, u) = SumFunction(f) /\ PaidTo(list, u) = SumFunction(g)
    BY DEF PaidBy, PaidTo, Sum
  <1> HIDE DEF by, to, f, g
  <1> QED
    BY <1>2, <1>3, <1>4, SumOfFunction, SumType

\* What the debt of an iteration takes from its two members is what it lists.
LEMMA SettledNext == LoopInv /\ Pair => Settled'
  <1> SUFFICES ASSUME LoopInv, Pair PROVE Settled'
    OBVIOUS
  <1>1. /\ i \in DOMAIN debtors /\ j \in DOMAIN creditors
        /\ DOMAIN debtors' = DOMAIN debtors /\ DOMAIN creditors' = DOMAIN creditors
        /\ DOMAIN debtors = 1 .. Len(debtors) /\ DOMAIN creditors = 1 .. Len(creditors)
        /\ i \in Int /\ j \in Int
    BY Positions
  <1>2. /\ Paired \in Nat /\ NextStop \in Nat /\ Overlap(i, j) = NextStop - Paired
        /\ debts' = Append(debts, DebtOf(i, j)) /\ input' = input
        /\ debtors'[i].amount = NextStop - input.debtEnd[i]
        /\ creditors'[j].amount = input.creditEnd[j] - NextStop
        /\ \A k \in DOMAIN debtors : k # i => debtors'[k] = debtors[k]
        /\ \A l \in DOMAIN creditors : l # j => creditors'[l] = creditors[l]
        /\ i' = IF NextStop = input.debtEnd[i] THEN i + 1 ELSE i
        /\ j' = IF NextStop = input.creditEnd[j] THEN j + 1 ELSE j
    <2>1. debtors'[i] = [user |-> debtors[i].user, amount |-> NextStop - input.debtEnd[i]]
      BY PairEffect
    <2>2. creditors'[j] = [user |-> creditors[j].user,
                           amount |-> input.creditEnd[j] - NextStop]
      BY PairEffect
    <2> QED
      BY <1>1, <2>1, <2>2, PairEffect
  <1>3. /\ input.debtEnd[i] \in Nat /\ input.creditEnd[j] \in Nat
        /\ debtors[i].amount = Paired - input.debtEnd[i]
        /\ creditors[j].amount = input.creditEnd[j] - Paired
    BY InTurn DEF Pair
  <1>4. /\ debts \in Seq([from : Users, to : Users, amount : Int])
        /\ input.debtors \in Seq(Entry) /\ ListsNobodyTwice(input.debtors)
        /\ input.creditors \in Seq(Entry) /\ ListsNobodyTwice(input.creditors)
        /\ DOMAIN input.debtors = DOMAIN debtors /\ DOMAIN input.creditors = DOMAIN creditors
    <2>1. /\ debts \in Seq([from : Users, to : Users, amount : Int]) /\ GoodInput(input)
          /\ Len(debtors) = Len(input.debtors) /\ Len(creditors) = Len(input.creditors)
      BY DEF LoopInv, TypeOK
    <2> QED
      BY <1>1, <2>1 DEF GoodInput
  <1>5. /\ \A k \in DOMAIN debtors : input.debtors[k].user \in Users /\ input.debtors[k].amount \in Int
        /\ \A l \in DOMAIN creditors : input.creditors[l].user \in Users /\ input.creditors[l].amount \in Int
    <2>1. /\ \A k \in DOMAIN debtors : input.debtors[k] \in Entry
          /\ \A l \in DOMAIN creditors : input.creditors[l] \in Entry
      BY <1>4
    <2> QED
      BY <2>1 DEF Entry
  <1> DEFINE d == DebtOf(i, j)
             s == NextStop - Paired
  <1>6. /\ d \in [from : Users, to : Users, amount : Int]
        /\ d.from = input.debtors[i].user /\ d.to = input.creditors[j].user /\ d.amount = s
    BY <1>1, <1>2, <1>5 DEF DebtOf
  <1>7. ASSUME NEW u
        PROVE  /\ PaidBy(debts, u) \in Int /\ PaidTo(debts, u) \in Int
               /\ PaidBy(debts', u) = PaidBy(debts, u) + (IF d.from = u THEN s ELSE 0)
               /\ PaidTo(debts', u) = PaidTo(debts, u) + (IF d.to = u THEN s ELSE 0)
    <2> HIDE DEF d, s
    <2>1. debts' = Append(debts, d)
      BY <1>2 DEF d
    <2>2. /\ PaidBy(debts, u) \in Int /\ PaidTo(debts, u) \in Int
          /\ PaidBy(Append(debts, d), u) = PaidBy(debts, u) + (IF d.from = u THEN d.amount ELSE 0)
          /\ PaidTo(Append(debts, d), u) = PaidTo(debts, u) + (IF d.to = u THEN d.amount ELSE 0)
      BY <1>4, <1>6, AppendPays, Zenon
    <2> QED
      BY <1>6, <2>1, <2>2, Zenon
  <1> HIDE DEF d
  <1>8. ASSUME NEW k \in DOMAIN debtors
        PROVE  /\ k < i' => debtors'[k].amount = 0
               /\ debtors'[k].amount = input.debtors[k].amount + PaidBy(debts', input.debtors[k].user)
    <2> DEFINE u == input.debtors[k].user
    <2>1. /\ k < i => debtors[k].amount = 0
          /\ debtors[k].amount = input.debtors[k].amount + PaidBy(debts, u)
          /\ input.debtors[k].amount \in Int
      BY <1>5 DEF LoopInv, Settled
    <2>2. /\ PaidBy(debts, u) \in Int
          /\ PaidBy(debts', u) = PaidBy(debts, u) + (IF d.from = u THEN s ELSE 0)
      BY <1>7
    <2>3. k \in Int
      BY <1>1
    <2>4. CASE k = i
      <3>1. d.from = u
        BY <1>6, <2>4
      <3>2. i' # i => NextStop - input.debtEnd[i] = 0
        BY <1>2, <1>3
      <3>3. k < i' => debtors'[k].amount = 0
        BY <1>1, <1>2, <2>4, <3>2
      <3>4. PaidBy(debts', u) = PaidBy(debts, u) + s
        BY <2>2, <3>1
      <3>5. Paired - input.debtEnd[i] = input.debtors[k].amount + PaidBy(debts, u)
        BY <1>3, <2>1, <2>4
      <3>6. NextStop - input.debtEnd[i] = input.debtors[k].amount + PaidBy(debts', u)
        <4> DEFINE p == Paired
                   q == NextStop
                   e == input.debtEnd[i]
                   a == input.debtors[k].amount
                   x == PaidBy(debts, u)
                   y == PaidBy(debts', u)
        <4>1. /\ p \in Nat /\ q \in Nat /\ e \in Nat /\ a \in Int /\ x \in Int
              /\ y = x + (q - p) /\ p - e = a + x
          BY <1>2, <1>3, <2>1, <2>2, <3>4, <3>5
        <4> HIDE DEF p, q, e, a, x, y
        <4>2. q - e = a + y
          BY <4>1
        <4> QED
          BY <4>2 DEF q, e, a, y
      <3> QED
        BY <1>2, <2>4, <3>3, <3>6 DEF u
    <2>5. CASE k # i
      <3>1. d.from # u
        BY <1>1, <1>4, <1>6, <2>5 DEF ListsNobodyTwice
      <3>2. k < i' => k < i
        BY <1>1, <1>2, <2>3, <2>5
      <3>3. PaidBy(debts', u) = PaidBy(debts, u)
        BY <2>2, <3>1
      <3> HIDE DEF u
      <3>4. debtors'[k].amount = input.debtors[k].amount + PaidBy(debts', u)
        BY <1>2, <2>1, <2>5, <3>3
      <3> QED
        BY <1>2, <2>1, <2>5, <3>2, <3>4 DEF u
    <2> QED
      BY <2>4, <2>5
  <1>9. ASSUME NEW l \in DOMAIN creditors
        PROVE  /\ l < j' => creditors'[l].amount = 0
               /\ creditors'[l].amount
                    = input.creditors[l].amount - PaidTo(debts', input.creditors[l].user)
    <2> DEFINE u == input.creditors[l].user
    <2>1. /\ l < j => creditors[l].amount = 0
          /\ creditors[l].amount = input.creditors[l].amount - PaidTo(debts, u)
          /\ input.creditors[l].amount \in Int
      BY <1>5 DEF LoopInv, Settled
    <2>2. /\ PaidTo(debts, u) \in Int
          /\ PaidTo(debts', u) = PaidTo(debts, u) + (IF d.to = u THEN s ELSE 0)
      BY <1>7
    <2>3. l \in Int
      BY <1>1
    <2>4. CASE l = j
      <3>1. d.to = u
        BY <1>6, <2>4
      <3>2. j' # j => input.creditEnd[j] - NextStop = 0
        BY <1>2, <1>3
      <3>3. l < j' => creditors'[l].amount = 0
        BY <1>1, <1>2, <2>4, <3>2
      <3>4. PaidTo(debts', u) = PaidTo(debts, u) + s
        BY <2>2, <3>1
      <3>5. input.creditEnd[j] - Paired = input.creditors[l].amount - PaidTo(debts, u)
        BY <1>3, <2>1, <2>4
      <3>6. input.creditEnd[j] - NextStop = input.creditors[l].amount - PaidTo(debts', u)
        <4> DEFINE p == Paired
                   q == NextStop
                   e == input.creditEnd[j]
                   a == input.creditors[l].amount
                   x == PaidTo(debts, u)
                   y == PaidTo(debts', u)
        <4>1. /\ p \in Nat /\ q \in Nat /\ e \in Nat /\ a \in Int /\ x \in Int
              /\ y = x + (q - p) /\ e - p = a - x
          BY <1>2, <1>3, <2>1, <2>2, <3>4, <3>5
        <4> HIDE DEF p, q, e, a, x, y
        <4>2. e - q = a - y
          BY <4>1
        <4> QED
          BY <4>2 DEF q, e, a, y
      <3> QED
        BY <1>2, <2>4, <3>3, <3>6 DEF u
    <2>5. CASE l # j
      <3>1. d.to # u
        BY <1>1, <1>4, <1>6, <2>5 DEF ListsNobodyTwice
      <3>2. l < j' => l < j
        BY <1>1, <1>2, <2>3, <2>5
      <3>3. PaidTo(debts', u) = PaidTo(debts, u)
        BY <2>2, <3>1
      <3> HIDE DEF u
      <3>4. creditors'[l].amount = input.creditors[l].amount - PaidTo(debts', u)
        BY <1>2, <2>1, <2>5, <3>3
      <3> QED
        BY <1>2, <2>1, <2>5, <3>2, <3>4 DEF u
    <2> QED
      BY <2>4, <2>5
  <1>10. /\ \A k \in DOMAIN debtors :
              input'.debtors[k] = input.debtors[k]
         /\ \A l \in DOMAIN creditors : input'.creditors[l] = input.creditors[l]
    BY <1>2
  <1> QED
    BY <1>1, <1>2, <1>8, <1>9, <1>10 DEF Settled

\* Nothing is paid before anything is listed.
LEMMA NothingPaid ==
  ASSUME debts = << >>, NEW u
  PROVE  PaidBy(debts, u) = 0 /\ PaidTo(debts, u) = 0
  <1>1. DOMAIN debts = {}
    OBVIOUS
  <1>2. ASSUME NEW f, DOMAIN f = {}
        PROVE  SumFunction(f) = 0
    BY <1>2, SumOfFunction, SumEmpty
  <1>3. /\ DOMAIN [t \in {t \in DOMAIN debts : debts[t].from = u} |-> debts[t].amount] = {}
        /\ DOMAIN [t \in {t \in DOMAIN debts : debts[t].to = u} |-> debts[t].amount] = {}
    BY <1>1
  <1> QED
    BY <1>2, <1>3 DEF PaidBy, PaidTo, Sum

-----------------------------------------------------------------------------
\* Whatever order the map gave its entries, the list sorted by user id is the
\* one of the input: no two of them are of the same member.
LEMMA SortedList ==
  ASSUME NEW S, Members(S), NEW net, NEW list \in MapOrders(net, S)
  PROVE  sortByUser(list) = BalanceList(net, S)
  <1> DEFINE entry == [u \in S |-> [user |-> u, amount |-> net[u]]]
             R == {[user |-> u, amount |-> net[u]] : u \in S}
             n == Cardinality(S)
  <1>1. /\ IsFiniteSet(S) /\ n \in Nat
        /\ \A k \in 1 .. n : ById(S)[k] \in S
    BY ByIdOrder DEF Members
  <1>2. /\ entry \in [S -> R]
        /\ \A u \in S : entry[u] = [user |-> u, amount |-> net[u]]
        /\ \A u \in S : entry[u].user = u
        /\ \A e \in R : \E u \in S : entry[u] = e
    OBVIOUS
  <1>3. list \in SetToSeqs(R)
    BY DEF MapOrders
  <1> HIDE DEF entry, R
  <1>4. IsFiniteSet(R) /\ Cardinality(R) = n
    <2>1. \A u, v \in S : entry[u] = entry[v] => u = v
      BY <1>2
    <2>2. entry \in Bijection(S, R)
      BY <1>2, <2>1 DEF Bijection, Injection, Surjection, IsInjective
    <2>3. ExistsBijection(S, R)
      BY <2>2 DEF ExistsBijection
    <2> QED
      BY <1>1, <2>3, FS_Bijection
  <1> HIDE DEF n
  <1>5. list \in [1 .. n -> R] /\ \A k, l \in 1 .. n : k # l => list[k] # list[l]
    BY <1>3, <1>4 DEF SetToSeqs
  <1>6. \A e \in R : \E k \in 1 .. n : list[k] = e
    <2>1. list \in Injection(1 .. n, R)
      BY <1>5 DEF Injection, IsInjective
    <2>2. Cardinality(1 .. n) = n
      BY <1>1, FS_Interval
    <2>3. list \in Surjection(1 .. n, R)
      BY <1>4, <2>1, <2>2, FS_Injection
    <2> QED
      BY <2>3 DEF Surjection
  <1>7. {list[k].user : k \in DOMAIN list} = S
    <2>1. \A k \in 1 .. n : list[k].user \in S
      BY <1>2, <1>5
    <2>2. \A u \in S : \E k \in 1 .. n : list[k].user = u
      BY <1>2, <1>6
    <2>3. DOMAIN list = 1 .. n
      BY <1>5
    <2> QED
      BY <2>1, <2>2, <2>3
  <1>8. Range(list) = R
    BY <1>5, <1>6 DEF Range
  <1>9. \A u \in S : (CHOOSE e \in R : e.user = u) = [user |-> u, amount |-> net[u]]
    <2>1. SUFFICES ASSUME NEW u \in S
                   PROVE  (CHOOSE e \in R : e.user = u) = entry[u]
      BY <1>2
    <2>2. entry[u] \in R /\ entry[u].user = u
      BY <1>2
    <2>3. \A e \in R : e.user = u => e = entry[u]
      BY <1>2
    <2> QED
      BY <2>2, <2>3
  <1>10. sortByUser(list) = [k \in 1 .. n |-> CHOOSE e \in R : e.user = ById(S)[k]]
    <2>1. DOMAIN list = 1 .. n
      BY <1>5
    <2>2. sortByUser(list)
            = [k \in DOMAIN list |->
                 CHOOSE e \in Range(list) :
                   e.user = ById({list[h].user : h \in DOMAIN list})[k]]
      BY Zenon DEF sortByUser
    <2> QED
      BY <1>7, <1>8, <2>1, <2>2, Zenon
  <1> QED
    BY <1>1, <1>9, <1>10 DEF BalanceList, n

\* However the map was run through, the loop starts on its input's two lists.
LEMMA InitLists ==
  Init => debtors = input.debtors /\ creditors = input.creditors
  <1> SUFFICES ASSUME Init PROVE debtors = input.debtors /\ creditors = input.creditors
    OBVIOUS
  <1>1. PICK net \in Nets : input = InputOf(net)
    BY DEF Init, Inputs
  <1>2. /\ input.net = net
        /\ input.debtors = BalanceList(net, Debtors(net))
        /\ input.creditors = BalanceList(net, Creditors(net))
    BY <1>1 DEF InputOf
  <1>3. Members(Debtors(net)) /\ Members(Creditors(net))
    <2>1. Debtors(net) \subseteq Users /\ Creditors(net) \subseteq Users
      BY BalanceAssumption DEF Debtors, Creditors
    <2> QED
      BY <2>1, BalanceAssumption, FS_Subset DEF Members
  <1>4. /\ \E list \in MapOrders(net, Debtors(net)) : debtors = sortByUser(list)
        /\ \E list \in MapOrders(net, Creditors(net)) : creditors = sortByUser(list)
    BY <1>2 DEF Init
  <1> QED
    BY <1>2, <1>3, <1>4, SortedList

\* The loop starts with nothing paired off and nothing listed.
LEMMA InitLoopInv == Init => LoopInv
  <1> SUFFICES ASSUME Init PROVE LoopInv
    OBVIOUS
  <1>1. /\ GoodInput(input)
        /\ debtors = input.debtors /\ creditors = input.creditors
        /\ i = 1 /\ j = 1 /\ debts = << >>
    BY InputFacts, InitLists DEF Init, Inputs
  <1>2. /\ debtors \in Seq(Entry) /\ creditors \in Seq(Entry)
        /\ Len(debtors) \in Nat /\ Len(creditors) \in Nat
    BY <1>1 DEF GoodInput
  <1>3. TypeOK
    <2>1. input \in Inputs
      BY DEF Init
    <2> QED
      BY <1>1, <1>2, <2>1 DEF TypeOK
  <1>4. Ahead
    BY <1>1 DEF Ahead
  <1>5. /\ 1 <= Len(debtors) => /\ debtors[1].amount = 0 - input.debtEnd[1]
                                /\ input.debtEnd[0] = 0 /\ input.debtEnd[1] \in Nat
                                /\ 0 < input.debtEnd[1]
        /\ 1 <= Len(creditors) => /\ creditors[1].amount = input.creditEnd[1] - 0
                                  /\ input.creditEnd[0] = 0 /\ input.creditEnd[1] \in Nat
                                  /\ 0 < input.creditEnd[1]
        /\ ~(1 <= Len(debtors)) => Len(debtors) = 0
        /\ ~(1 <= Len(creditors)) => Len(creditors) = 0
        /\ input.debtEnd[0] = 0 /\ input.creditEnd[0] = 0
    <2>1. 1 <= Len(debtors) => /\ debtors[1].amount = input.debtEnd[0] - input.debtEnd[1]
                               /\ input.debtEnd[1] \in Nat
                               /\ input.debtEnd[0] < input.debtEnd[1]
      <3>1. 1 <= Len(debtors) => /\ 1 \in 1 .. Len(debtors) /\ 1 \in 0 .. Len(debtors)
                                 /\ 0 \in 0 .. 1 - 1 /\ 1 - 1 = 0
        BY <1>2
      <3> QED
        BY <1>1, <1>3, <3>1, Totals
    <2>2. 1 <= Len(creditors) =>
            /\ creditors[1].amount = input.creditEnd[1] - input.creditEnd[0]
            /\ input.creditEnd[1] \in Nat
            /\ input.creditEnd[0] < input.creditEnd[1]
      <3>1. 1 <= Len(creditors) => /\ 1 \in 1 .. Len(creditors) /\ 1 \in 0 .. Len(creditors)
                                   /\ 0 \in 0 .. 1 - 1 /\ 1 - 1 = 0
        BY <1>2
      <3> QED
        BY <1>1, <1>3, <3>1, Totals
    <2>3. input.debtEnd[0] = 0 /\ input.creditEnd[0] = 0
      BY <1>3, Totals
    <2> QED
      BY <1>2, <2>1, <2>2, <2>3
  <1>6. Paired = 0
    <2>1. CASE 1 <= Len(debtors)
      <3>1. input.debtEnd[1] + debtors[1].amount = 0
        BY <1>5, <2>1
      <3> QED
        BY <1>1, <2>1, <3>1 DEF Paired
    <2>2. CASE ~(1 <= Len(debtors))
      BY <1>1, <1>5, <2>2 DEF Paired
    <2> QED
      BY <2>1, <2>2
  <1>7. Frontier
    <2>1. LargerOf(0, 0) = 0
      BY DEF LargerOf
    <2>2. i - 1 = 0 /\ j - 1 = 0
      BY <1>1
    <2>3. /\ i > Len(debtors) => Len(debtors) = 0
          /\ j > Len(creditors) => Len(creditors) = 0
      BY <1>1, <1>2, <1>5
    <2> QED
      BY <1>1, <1>5, <1>6, <2>1, <2>2, <2>3 DEF Frontier
  <1>8. ListedSoFar
    <2>1. ASSUME NEW k \in DOMAIN debtors, NEW l \in DOMAIN creditors
          PROVE  ~(SmallerOf(input.debtEnd[k], input.creditEnd[l]) <= Paired)
      <3>1. /\ input.debtEnd[k] \in Nat /\ input.debtEnd[0] < input.debtEnd[k]
            /\ input.creditEnd[l] \in Nat /\ input.creditEnd[0] < input.creditEnd[l]
        <4>1. k \in 1 .. Len(debtors) /\ l \in 1 .. Len(creditors)
          BY <1>2
        <4>2. k \in 0 .. Len(debtors) /\ 0 \in 0 .. k - 1
              /\ l \in 0 .. Len(creditors) /\ 0 \in 0 .. l - 1
          BY <1>2, <4>1
        <4> QED
          BY <1>3, <4>1, <4>2, Totals
      <3> QED
        BY <1>5, <1>6, <3>1 DEF SmallerOf
    <2>2. DOMAIN debts = {}
      BY <1>1
    <2> QED
      BY <2>1, <2>2 DEF ListedSoFar
  <1>9. Settled
    <2>1. /\ \A k \in DOMAIN debtors : ~(k < i) /\ input.debtors[k].amount \in Int
          /\ \A l \in DOMAIN creditors : ~(l < j) /\ input.creditors[l].amount \in Int
      <3>1. /\ DOMAIN debtors = 1 .. Len(debtors) /\ DOMAIN creditors = 1 .. Len(creditors)
            /\ \A k \in DOMAIN debtors : debtors[k] \in Entry
            /\ \A l \in DOMAIN creditors : creditors[l] \in Entry
        BY <1>2
      <3> QED
        BY <1>1, <3>1 DEF Entry
    <2> QED
      BY <1>1, <2>1, NothingPaid DEF Settled
  <1>10. NoPairTwice /\ Len(debts) <= i + j - 2 /\ FewDebts
    BY <1>1 DEF NoPairTwice, FewDebts
  <1> QED
    BY <1>3, <1>4, <1>7, <1>8, <1>9, <1>10 DEF LoopInv

\* When the loop ends, every stretch lies before the frontier.
LEMMA DoneListsAll == LoopInv => ListsTheOverlaps
  <1> SUFFICES ASSUME LoopInv, Done PROVE
        /\ \A k \in DOMAIN debtors, l \in DOMAIN creditors :
             Overlap(k, l) > 0 => \E t \in DOMAIN debts : debts[t] = DebtOf(k, l)
        /\ \A t \in DOMAIN debts :
             \E k \in DOMAIN debtors, l \in DOMAIN creditors :
               Overlap(k, l) > 0 /\ debts[t] = DebtOf(k, l)
    BY DEF ListsTheOverlaps
  <1>1. \/ Paired = input.debtEnd[Len(debtors)]
        \/ Paired = input.creditEnd[Len(creditors)]
    BY DEF LoopInv, Frontier, Done
  <1>2. ASSUME NEW k \in DOMAIN debtors, NEW l \in DOMAIN creditors
        PROVE  SmallerOf(input.debtEnd[k], input.creditEnd[l]) <= Paired
    <2>1. k \in 1 .. Len(debtors) /\ l \in 1 .. Len(creditors)
          /\ Len(debtors) \in Nat /\ Len(creditors) \in Nat
      BY Positions
    <2>2. /\ input.debtEnd[k] \in Nat /\ input.debtEnd[Len(debtors)] \in Nat
          /\ input.creditEnd[l] \in Nat /\ input.creditEnd[Len(creditors)] \in Nat
      BY <2>1, Totals DEF LoopInv
    <2>3. input.debtEnd[k] <= input.debtEnd[Len(debtors)]
      <3>1. CASE k = Len(debtors)
        BY <2>2, <3>1
      <3>2. CASE k # Len(debtors)
        <4>1. Len(debtors) \in 1 .. Len(debtors) /\ k \in 0 .. Len(debtors) - 1
          BY <2>1, <3>2
        <4>2. input.debtEnd[k] < input.debtEnd[Len(debtors)]
          BY <4>1, Totals DEF LoopInv
        <4> QED
          BY <2>2, <4>2
      <3> QED
        BY <3>1, <3>2
    <2>4. input.creditEnd[l] <= input.creditEnd[Len(creditors)]
      <3>1. CASE l = Len(creditors)
        BY <2>2, <3>1
      <3>2. CASE l # Len(creditors)
        <4>1. Len(creditors) \in 1 .. Len(creditors) /\ l \in 0 .. Len(creditors) - 1
          BY <2>1, <3>2
        <4>2. input.creditEnd[l] < input.creditEnd[Len(creditors)]
          BY <4>1, Totals DEF LoopInv
        <4> QED
          BY <2>2, <4>2
      <3> QED
        BY <3>1, <3>2
    <2> QED
      BY <1>1, <2>2, <2>3, <2>4 DEF SmallerOf
  <1> QED
    BY <1>2 DEF LoopInv, ListedSoFar

\* The loop's invariant is inductive, for lists of any length: what has been
\* listed is what lies before the frontier the two members in turn share.
THEOREM LoopInvariance == Spec => []LoopInv
  <1>1. Init => LoopInv
    BY InitLoopInv
  <1>2. LoopInv /\ [Next]_vars => LoopInv'
    <2> SUFFICES ASSUME LoopInv, [Next]_vars PROVE LoopInv'
      OBVIOUS
    <2>1. CASE Pair
      BY <2>1, FrontierNext, ListedNext, SettledNext, NoPairTwiceNext, AheadNext, CountNext DEF LoopInv
    <2>2. CASE UNCHANGED vars
      <3> USE <2>2 DEF vars
      <3>1. TypeOK'
        BY DEF LoopInv, TypeOK, GoodInput, ListsNobodyTwice
      <3>2. Ahead'
        BY DEF LoopInv, Ahead
      <3>3. Paired' = Paired
        BY DEF Paired
      <3>4. Frontier'
        BY <3>3 DEF LoopInv, Frontier
      <3>5. ListedSoFar'
        BY <3>3 DEF LoopInv, ListedSoFar, Overlap, DebtOf
      <3>6. Settled'
        BY DEF LoopInv, Settled, PaidBy, PaidTo
      <3>7. NoPairTwice' /\ Len(debts') <= i' + j' - 2 /\ FewDebts'
        BY DEF LoopInv, NoPairTwice, FewDebts
      <3> QED
        BY <3>1, <3>2, <3>4, <3>5, <3>6, <3>7 DEF LoopInv
    <2> QED
      BY <2>1, <2>2 DEF Next, Return
  <1> QED
    BY <1>1, <1>2, PTL DEF Spec

\* The type invariant of the loop.
THEOREM LoopTypeCorrect == Spec => []TypeOK
  <1>1. LoopInv => TypeOK
    BY DEF LoopInv
  <1> QED
    BY <1>1, LoopInvariance, PTL

\* For any balances, the loop lists exactly the overlaps of the two lines.
THEOREM OverlapsListed == Spec => []ListsTheOverlaps
  BY DoneListsAll, LoopInvariance, PTL

\* For any balances, no pair of members is listed twice.
THEOREM PairsListedOnce == Spec => []NoPairTwice
  <1>1. LoopInv => NoPairTwice
    BY DEF LoopInv
  <1> QED
    BY <1>1, LoopInvariance, PTL

\* For any balances, fewer payments are listed than there are members with a
\* balance.
THEOREM FewPayments == Spec => []FewDebts
  <1>1. LoopInv => FewDebts
    BY DEF LoopInv
  <1> QED
    BY <1>1, LoopInvariance, PTL

-----------------------------------------------------------------------------
(* What is listed, and what is owed *)

\* Debtor k and creditor l have in common what the one owes the other.
LEMMA OverlapIsOwed ==
  ASSUME TypeOK, NEW k \in DOMAIN debtors, NEW l \in DOMAIN creditors
  PROVE  /\ input.net \in NetsOf(Users) /\ Members(Users)
         /\ input.debtors[k].user \in Debtors(input.net)
         /\ input.creditors[l].user \in Creditors(input.net)
         /\ Overlap(k, l)
              = Owed(input.net, input.debtors[k].user, input.creditors[l].user)
  <1> DEFINE a == input.debtors[k].user
             b == input.creditors[l].user
             net == input.net
             debt == DebtIn(net)[a]
             credit == CreditIn(net)[b]
             aEnd == UpTo(DebtIn(net), a)
             bEnd == UpTo(CreditIn(net), b)
  <1>1. /\ k \in 1 .. Len(debtors) /\ k \in 0 .. Len(debtors) /\ k - 1 \in 0 .. Len(debtors)
        /\ l \in 1 .. Len(creditors) /\ l \in 0 .. Len(creditors)
        /\ l - 1 \in 0 .. Len(creditors)
        /\ Len(debtors) = Len(input.debtors) /\ Len(creditors) = Len(input.creditors)
    <2>1. /\ debtors \in Seq(Entry) /\ Len(debtors) = Len(input.debtors)
          /\ creditors \in Seq(Entry) /\ Len(creditors) = Len(input.creditors)
      BY DEF TypeOK
    <2> QED
      BY <2>1
  <1>2. /\ Members(Users) /\ net \in NetsOf(Users)
        /\ a \in Debtors(net) /\ b \in Creditors(net)
        /\ input.debtors[k].amount = -debt /\ input.debtEnd[k] = aEnd
        /\ input.creditors[l].amount = credit /\ input.creditEnd[l] = bEnd
    <2>1. PICK given \in Nets : input = InputOf(given)
      BY DEF TypeOK, Inputs
    <2>2. input.net = given
      BY <2>1, InputFacts
    <2> QED
      BY <1>1, <2>1, <2>2, InputFacts
  <1>3. a \in Users /\ b \in Users
    BY <1>2 DEF Debtors, Creditors, NetsOf
  <1>4. /\ aEnd \in Nat /\ bEnd \in Nat /\ debt \in Nat /\ credit \in Nat
        /\ Owed(net, a, b) = Common(aEnd - debt, aEnd, bEnd - credit, bEnd)
    BY <1>2, <1>3, OwedIsCommon
  <1>5. /\ input.debtors[k].amount = input.debtEnd[k - 1] - input.debtEnd[k]
        /\ input.creditors[l].amount = input.creditEnd[l] - input.creditEnd[l - 1]
        /\ input.debtEnd[k - 1] \in Nat /\ input.creditEnd[l - 1] \in Nat
    BY <1>1, Totals
  <1>6. Overlap(k, l) = LargerOf(SmallerOf(input.debtEnd[k], input.creditEnd[l])
                          - LargerOf(input.debtEnd[k - 1], input.creditEnd[l - 1]), 0)
    BY DEF Overlap
  <1> HIDE DEF a, b, net, debt, credit, aEnd, bEnd
  <1>7. /\ input.debtEnd[k] = aEnd /\ input.creditEnd[l] = bEnd
        /\ input.debtEnd[k - 1] = aEnd - debt /\ input.creditEnd[l - 1] = bEnd - credit
    <2> DEFINE d0 == input.debtEnd[k - 1]
               c0 == input.creditEnd[l - 1]
    <2>1. d0 \in Nat /\ -debt = d0 - aEnd /\ c0 \in Nat /\ credit = bEnd - c0
      BY <1>2, <1>5
    <2> HIDE DEF d0, c0
    <2>2. d0 = aEnd - debt /\ c0 = bEnd - credit
      BY <1>4, <2>1
    <2> QED
      BY <1>2, <2>2 DEF d0, c0
  <1>8. Overlap(k, l) = LargerOf(SmallerOf(aEnd, bEnd) - LargerOf(aEnd - debt, bEnd - credit), 0)
    BY <1>6, <1>7
  <1>9. Overlap(k, l) = Owed(net, a, b)
    BY <1>4, <1>8 DEF LargerOf, SmallerOf, Common
  <1> QED
    BY <1>2, <1>9 DEF a, b, net

\* Whatever is listed is owed, and it is not nothing.
LEMMA ListedIsOwed ==
  ASSUME LoopInv, Done, NEW t \in DOMAIN debts
  PROVE  /\ debts[t].from \in Users /\ debts[t].to \in Users
         /\ debts[t].from \in Debtors(input.net) /\ debts[t].to \in Creditors(input.net)
         /\ debts[t].amount = Owed(input.net, debts[t].from, debts[t].to)
         /\ debts[t].amount > 0
         /\ input.net \in NetsOf(Users) /\ Members(Users)
  <1>1. PICK k \in DOMAIN debtors, l \in DOMAIN creditors :
          Overlap(k, l) > 0 /\ debts[t] = DebtOf(k, l)
    BY DoneListsAll DEF ListsTheOverlaps
  <1>2. /\ debts[t].from = input.debtors[k].user /\ debts[t].to = input.creditors[l].user
        /\ debts[t].amount = Overlap(k, l)
    BY <1>1 DEF DebtOf
  <1>3. /\ input.net \in NetsOf(Users) /\ Members(Users)
        /\ input.debtors[k].user \in Debtors(input.net)
        /\ input.creditors[l].user \in Creditors(input.net)
        /\ Overlap(k, l) = Owed(input.net, input.debtors[k].user, input.creditors[l].user)
    BY OverlapIsOwed DEF LoopInv
  <1>4. debts[t].from \in Users /\ debts[t].to \in Users
    BY <1>2, <1>3 DEF Debtors, Creditors, NetsOf
  <1> QED
    BY <1>1, <1>2, <1>3, <1>4

\* Nothing is owed but by a debtor, to a creditor.
LEMMA OwedBetween ==
  ASSUME NEW net, NEW a, NEW b, Owed(net, a, b) # 0
  PROVE  a \in Debtors(net) /\ b \in Creditors(net)
  BY DEF Owed

\* Whatever is owed is listed.
LEMMA OwedListed ==
  ASSUME LoopInv, Done, NEW a \in Users, NEW b \in Users, Owed(input.net, a, b) # 0
  PROVE  \E t \in DOMAIN debts :
           /\ debts[t].from = a /\ debts[t].to = b
           /\ debts[t].amount = Owed(input.net, a, b)
  <1>1. a \in Debtors(input.net) /\ b \in Creditors(input.net)
    BY OwedBetween
  <1>2. PICK given \in Nets : input = InputOf(given)
    BY DEF LoopInv, TypeOK, Inputs
  <1>3. input.net = given /\ Members(Users) /\ input.net \in NetsOf(Users)
    BY <1>2, InputFacts
  <1>4. /\ \E k \in 1 .. Len(input.debtors) : input.debtors[k].user = a
        /\ \E l \in 1 .. Len(input.creditors) : input.creditors[l].user = b
    BY <1>1, <1>2, <1>3, InputFacts
  <1>5. /\ Len(debtors) = Len(input.debtors) /\ DOMAIN debtors = 1 .. Len(debtors)
        /\ Len(creditors) = Len(input.creditors) /\ DOMAIN creditors = 1 .. Len(creditors)
    BY Positions DEF LoopInv, TypeOK
  <1>6. PICK k \in DOMAIN debtors, l \in DOMAIN creditors :
          input.debtors[k].user = a /\ input.creditors[l].user = b
    BY <1>4, <1>5
  <1>7. Overlap(k, l) = Owed(input.net, a, b)
    BY <1>6, OverlapIsOwed DEF LoopInv
  <1>8. Overlap(k, l) > 0
    <2>1. Overlap(k, l) \in Nat
      <3>1. Owed(input.net, a, b) \in Nat
        BY <1>3, OwedIsCommon DEF Common
      <3> QED
        BY <1>7, <3>1
    <2> QED
      BY <1>7, <2>1
  <1>9. PICK t \in DOMAIN debts : debts[t] = DebtOf(k, l)
    BY <1>8, DoneListsAll DEF ListsTheOverlaps
  <1> QED
    BY <1>6, <1>7, <1>9 DEF DebtOf

\* The smallest of one.
LEMMA MinOfOne == ASSUME NEW t \in Int PROVE Min({t}) = t
  BY DEF Min

\* At the end the list and what is owed agree.
LEMMA DoneOwedListed == LoopInv => OwedIsListed
  <1> SUFFICES ASSUME LoopInv, Done, NEW a \in Users, NEW b \in Users
               PROVE  Owed(input.net, a, b) =
                        IF Listed(a, b) = {} THEN 0 ELSE debts[Min(Listed(a, b))].amount
    BY DEF OwedIsListed
  <1>1. CASE Owed(input.net, a, b) = 0
    <2>1. ASSUME NEW t \in Listed(a, b)
          PROVE  FALSE
      <3>1. t \in DOMAIN debts /\ debts[t].from = a /\ debts[t].to = b
        BY DEF Listed
      <3>2. debts[t].amount = Owed(input.net, a, b) /\ debts[t].amount > 0
        BY <3>1, ListedIsOwed
      <3> QED
        BY <1>1, <3>2
    <2> QED
      BY <1>1, <2>1
  <1>2. CASE Owed(input.net, a, b) # 0
    <2>1. PICK t \in DOMAIN debts :
            /\ debts[t].from = a /\ debts[t].to = b
            /\ debts[t].amount = Owed(input.net, a, b)
      BY <1>2, OwedListed
    <2>2. Listed(a, b) = {t}
      <3>1. NoPairTwice
        BY DEF LoopInv
      <3> QED
        BY <2>1, <3>1 DEF Listed, NoPairTwice
    <2>3. t \in Int
      <3>1. debts \in Seq([from : Users, to : Users, amount : Int])
        BY DEF LoopInv, TypeOK
      <3> QED
        BY <3>1
    <2>4. Min(Listed(a, b)) = t
      BY <2>2, <2>3, MinOfOne
    <2> QED
      BY <2>1, <2>2, <2>4
  <1> QED
    BY <1>1, <1>2

\* At the end a payment moves one debt.
LEMMA DonePayingMovesOne == LoopInv => PayingMovesOnlyThatDebt
  <1> SUFFICES ASSUME LoopInv, Done,
                      NEW t \in DOMAIN debts, NEW paid \in 1 .. debts[t].amount,
                      NEW a \in Users, NEW b \in Users
               PROVE  LET net == [input.net EXCEPT ![debts[t].from] = @ + paid,
                                                   ![debts[t].to] = @ - paid]
                      IN  Owed(net, a, b)
                            = Owed(input.net, a, b)
                                - (IF a = debts[t].from /\ b = debts[t].to THEN paid ELSE 0)
    BY DEF PayingMovesOnlyThatDebt
  <1> DEFINE before == input.net
             from == debts[t].from
             to == debts[t].to
             net == [before EXCEPT ![from] = @ + paid, ![to] = @ - paid]
  <1>1. /\ from \in Users /\ to \in Users
        /\ from \in Debtors(before) /\ to \in Creditors(before)
        /\ debts[t].amount = Owed(before, from, to) /\ debts[t].amount > 0
        /\ before \in NetsOf(Users) /\ Members(Users)
    BY ListedIsOwed
  <1>2. DOMAIN before = Users /\ (\A u \in Users : before[u] \in Int)
        /\ before = [u \in Users |-> before[u]]
    BY <1>1 DEF NetsOf
  <1>3. paid \in Int /\ 0 < paid /\ paid <= Owed(before, from, to)
    <2>1. Owed(before, from, to) \in Int
      BY <1>1, OwedIsCommon DEF Common
    <2> QED
      BY <1>1, <2>1
  <1>4. from # to
    BY <1>1, <1>2 DEF Debtors, Creditors
  <1> HIDE DEF before, from, to
  <1>5. \A u \in Users : net[u] = before[u] + (IF u = from THEN paid ELSE 0)
                                            - (IF u = to THEN paid ELSE 0)
    BY <1>1, <1>2, <1>3, <1>4
  <1>6. net \in NetsOf(Users)
    BY <1>1, <1>2, <1>3, <1>4 DEF NetsOf
  <1> HIDE DEF net
  <1>7. Owed(net, a, b) = Owed(before, a, b) - (IF a = from /\ b = to THEN paid ELSE 0)
    BY <1>1, <1>3, <1>5, <1>6, PayingMovesOneDebt
  <1> QED
    BY <1>7 DEF net, before, from, to

\* When the balances add up to zero, nobody has anything left at the end.
LEMMA NothingLeft ==
  ASSUME LoopInv, Done, Sum(input.net) = 0
  PROVE  /\ \A k \in DOMAIN debtors : debtors[k].amount = 0
         /\ \A l \in DOMAIN creditors : creditors[l].amount = 0
  <1> DEFINE n == Len(debtors)
             m == Len(creditors)
  <1>1. PICK given \in Nets : input = InputOf(given)
    BY DEF LoopInv, TypeOK, Inputs
  <1>2. /\ n \in Nat /\ m \in Nat /\ DOMAIN debtors = 1 .. n /\ DOMAIN creditors = 1 .. m
        /\ n = Len(input.debtors) /\ m = Len(input.creditors)
        /\ i \in 1 .. n + 1 /\ j \in 1 .. m + 1
    BY Positions DEF LoopInv, TypeOK
  <1>3. input.debtEnd[n] = input.creditEnd[m]
    <2>1. /\ Members(Users) /\ given \in NetsOf(Users) /\ input.net = given
          /\ input.debtEnd[n] = SumFunctionOnSet(DebtIn(given), Users)
          /\ input.creditEnd[m] = SumFunctionOnSet(CreditIn(given), Users)
      BY <1>1, <1>2, InputFacts
    <2>2. SumFunction(given) = 0
      BY <2>1 DEF Sum
    <2> QED
      BY <2>1, <2>2, ZeroTotal
  <1>4. /\ \A k \in 0 .. n : input.debtEnd[k] \in Nat
        /\ \A l \in 0 .. m : input.creditEnd[l] \in Nat
        /\ \A k \in 1 .. n : \A h \in 0 .. k - 1 : input.debtEnd[h] < input.debtEnd[k]
        /\ \A l \in 1 .. m : \A h \in 0 .. l - 1 : input.creditEnd[h] < input.creditEnd[l]
    BY Totals DEF LoopInv
  <1>5. /\ i <= n => Paired < input.debtEnd[i]
        /\ j <= m => Paired < input.creditEnd[j]
        /\ i > n => Paired = input.debtEnd[n]
        /\ j > m => Paired = input.creditEnd[m]
        /\ i > n \/ j > m
    BY DEF LoopInv, Frontier, Done
  <1> HIDE DEF n, m
  <1>6. i > n
    <2> SUFFICES ASSUME i <= n PROVE FALSE
      BY <1>2
    <2>1. i \in 1 .. n /\ n \in 1 .. n /\ n \in 0 .. n /\ i \in 0 .. n
      BY <1>2
    <2>2. Paired = input.debtEnd[n] /\ Paired < input.debtEnd[i]
      BY <1>3, <1>5
    <2>3. input.debtEnd[i] <= input.debtEnd[n]
      <3>1. CASE i = n
        BY <1>4, <2>1, <3>1
      <3>2. CASE i # n
        <4>1. i \in 0 .. n - 1
          BY <1>2, <2>1, <3>2
        <4> QED
          BY <1>4, <2>1, <4>1
      <3> QED
        BY <3>1, <3>2
    <2> QED
      BY <1>4, <2>1, <2>2, <2>3
  <1>7. j > m
    <2> SUFFICES ASSUME j <= m PROVE FALSE
      BY <1>2
    <2>1. j \in 1 .. m /\ m \in 1 .. m /\ m \in 0 .. m /\ j \in 0 .. m
      BY <1>2
    <2>2. Paired = input.creditEnd[m] /\ Paired < input.creditEnd[j]
      BY <1>3, <1>5, <1>6
    <2>3. input.creditEnd[j] <= input.creditEnd[m]
      <3>1. CASE j = m
        BY <1>4, <2>1, <3>1
      <3>2. CASE j # m
        <4>1. j \in 0 .. m - 1
          BY <1>2, <2>1, <3>2
        <4> QED
          BY <1>4, <2>1, <4>1
      <3> QED
        BY <3>1, <3>2
    <2> QED
      BY <1>4, <2>1, <2>2, <2>3
  <1>8. /\ \A k \in DOMAIN debtors : k < i
        /\ \A l \in DOMAIN creditors : l < j
    BY <1>2, <1>6, <1>7
  <1> QED
    BY <1>8 DEF LoopInv, Settled

\* A member no listed debt names pays, or is paid, nothing.
LEMMA NotNamed ==
  ASSUME NEW list, NEW u
  PROVE  /\ (\A t \in DOMAIN list : list[t].from # u) => PaidBy(list, u) = 0
         /\ (\A t \in DOMAIN list : list[t].to # u) => PaidTo(list, u) = 0
  <1>1. ASSUME NEW f, DOMAIN f = {}
        PROVE  SumFunction(f) = 0
    BY <1>1, SumOfFunction, SumEmpty
  <1>2. ASSUME \A t \in DOMAIN list : list[t].from # u
        PROVE  PaidBy(list, u) = 0
    <2>1. DOMAIN [t \in {t \in DOMAIN list : list[t].from = u} |-> list[t].amount] = {}
      BY <1>2
    <2> QED
      BY <1>1, <2>1 DEF PaidBy, Sum
  <1>3. ASSUME \A t \in DOMAIN list : list[t].to # u
        PROVE  PaidTo(list, u) = 0
    <2>1. DOMAIN [t \in {t \in DOMAIN list : list[t].to = u} |-> list[t].amount] = {}
      BY <1>3
    <2> QED
      BY <1>1, <2>1 DEF PaidTo, Sum
  <1> QED
    BY <1>2, <1>3

\* At the end everybody has paid what they owed, and been paid what they
\* were owed.
LEMMA DonePayingAllClears == LoopInv => PayingAllClears
  <1> SUFFICES ASSUME LoopInv, Done, Sum(input.net) = 0, NEW u \in Users
               PROVE  input.net[u] = PaidTo(debts, u) - PaidBy(debts, u)
    BY DEF PayingAllClears
  <1> DEFINE net == input.net
  <1>1. PICK given \in Nets : input = InputOf(given)
    BY DEF LoopInv, TypeOK, Inputs
  <1>2. /\ net = given /\ net \in NetsOf(Users) /\ DOMAIN net = Users /\ net[u] \in Int
    BY <1>1, InputFacts DEF NetsOf
  <1>3. /\ DOMAIN debtors = 1 .. Len(input.debtors)
        /\ DOMAIN creditors = 1 .. Len(input.creditors)
    BY Positions DEF LoopInv, TypeOK
  <1>4. /\ u \notin Debtors(net) => PaidBy(debts, u) = 0
        /\ u \notin Creditors(net) => PaidTo(debts, u) = 0
    <2>1. \A t \in DOMAIN debts :
            debts[t].from \in Debtors(net) /\ debts[t].to \in Creditors(net)
      BY ListedIsOwed
    <2> QED
      BY <2>1, NotNamed
  <1>5. u \in Debtors(net) => PaidBy(debts, u) = -net[u]
    <2> SUFFICES ASSUME u \in Debtors(net) PROVE PaidBy(debts, u) = -net[u]
      OBVIOUS
    <2>1. PICK k \in DOMAIN debtors : input.debtors[k].user = u
      BY <1>1, <1>2, <1>3, InputFacts
    <2>2. input.debtors[k].amount = -DebtIn(net)[u] /\ DebtIn(net)[u] = -net[u]
      <3>1. input.debtors[k].amount = -DebtIn(net)[u]
        BY <1>1, <1>2, <1>3, <2>1, InputFacts
      <3> QED
        BY <1>2, <3>1 DEF DebtIn, Debtors
    <2>3. debtors[k].amount = 0 /\ debtors[k].amount = input.debtors[k].amount + PaidBy(debts, u)
      BY <2>1, NothingLeft DEF LoopInv, Settled
    <2>4. PaidBy(debts, u) \in Int
      BY PaidIsAmount DEF LoopInv, TypeOK
    <2> DEFINE x == PaidBy(debts, u)
               y == net[u]
    <2>5. 0 = y + x /\ x \in Int /\ y \in Int
      BY <1>2, <2>2, <2>3, <2>4
    <2> HIDE DEF x, y
    <2>6. x = -y
      BY <2>5
    <2> QED
      BY <2>6 DEF x, y
  <1>6. u \in Creditors(net) => PaidTo(debts, u) = net[u]
    <2> SUFFICES ASSUME u \in Creditors(net) PROVE PaidTo(debts, u) = net[u]
      OBVIOUS
    <2>1. PICK l \in DOMAIN creditors : input.creditors[l].user = u
      BY <1>1, <1>2, <1>3, InputFacts
    <2>2. input.creditors[l].amount = CreditIn(net)[u] /\ CreditIn(net)[u] = net[u]
      <3>1. input.creditors[l].amount = CreditIn(net)[u]
        BY <1>1, <1>2, <1>3, <2>1, InputFacts
      <3> QED
        BY <1>2, <3>1 DEF CreditIn, Creditors
    <2>3. creditors[l].amount = 0 /\ creditors[l].amount = input.creditors[l].amount - PaidTo(debts, u)
      BY <2>1, NothingLeft DEF LoopInv, Settled
    <2>4. PaidTo(debts, u) \in Int
      BY PaidIsAmount DEF LoopInv, TypeOK
    <2> DEFINE x == PaidTo(debts, u)
               y == net[u]
    <2>5. 0 = y - x /\ x \in Int /\ y \in Int
      BY <1>2, <2>2, <2>3, <2>4
    <2> HIDE DEF x, y
    <2>6. x = y
      BY <2>5
    <2> QED
      BY <2>6 DEF x, y
  <1>7. /\ u \in Debtors(net) <=> net[u] < 0
        /\ u \in Creditors(net) <=> net[u] > 0
    BY <1>2 DEF Debtors, Creditors
  <1> HIDE DEF net
  <1>8. net[u] = PaidTo(debts, u) - PaidBy(debts, u)
    <2>1. net[u] \in Int
      BY <1>2
    <2> DEFINE x == net[u]
               p == PaidTo(debts, u)
               q == PaidBy(debts, u)
    <2>2. /\ x < 0 => q = -x /\ p = 0
          /\ x > 0 => p = x /\ q = 0
          /\ x = 0 => p = 0 /\ q = 0
          /\ x \in Int
      BY <1>4, <1>5, <1>6, <1>7, <2>1
    <2> HIDE DEF x, p, q
    <2>3. x = p - q
      BY <2>2
    <2> QED
      BY <2>3 DEF x, p, q
  <1> QED
    BY <1>8 DEF net

\* For any balances, what the loop lists for a pair of members is what the
\* one owes the other by the line of cents.
THEOREM OwedAsListed == Spec => []OwedIsListed
  BY DoneOwedListed, LoopInvariance, PTL

\* For any balances, paying a listed debt, or part of it, moves that debt and
\* no other.
THEOREM PaymentMovesOneDebt == Spec => []PayingMovesOnlyThatDebt
  BY DonePayingMovesOne, LoopInvariance, PTL

\* For any balances that add up to zero, paying every listed debt leaves
\* nobody owing or owed anything.
THEOREM PaymentsClear == Spec => []PayingAllClears
  BY DonePayingAllClears, LoopInvariance, PTL

=============================================================================
