---------------------------- MODULE ImportCalls ----------------------------
(***************************************************************************)
(* One caller of the import and export arithmetic, next to that of the     *)
(* split: it asks for the splits of an imported row, for the workbooks of  *)
(* some expenses, or writes a ledger to a file and reads it back.          *)
(***************************************************************************)
EXTENDS SplitCalls, ImportMath, Balances

CONSTANTS Columns,      \* headings of a file that may name a member
          Rows,         \* rows that may be read from a file
          MonthStart,   \* the tick at which each month starts, and the last ends
          Workbooks,    \* lists of expenses a workbook may be asked of
          Ledgers       \* groups to export, with their expenses and settlements

\* Expenses are by and for members, payments between members.
LedgerOK(ledger) ==
  LET members == ledger.group.members
      ids == {m.id : m \in Range(members)}
  IN  /\ members \in Seq([id : Nat, name : Columns])
      /\ \A k, l \in DOMAIN members : k # l => members[k].id # members[l].id
      /\ ledger.group.currency # NoText
      /\ ledger.expenses \in Seq(Range(ledger.expenses))
      /\ \A e \in Range(ledger.expenses) :
           /\ e.date # NoDate /\ e.amount \in Nat \ {0}
           /\ e.category \in DOMAIN splitwiseCategoryNameBySlug
           /\ e.payer \in ids /\ DOMAIN e.shares \subseteq ids
           /\ \A u \in DOMAIN e.shares : e.shares[u] \in Nat
      /\ ledger.settlements \in Seq(Range(ledger.settlements))
      /\ \A s \in Range(ledger.settlements) :
           /\ s.date # NoDate /\ s.amount \in Nat \ {0}
           /\ s.from \in ids /\ s.to \in ids

\* A row has a net for some of the columns only; its amount may be negative.
ASSUME ImportAssumption ==
  /\ IsFiniteSet(Columns)
  /\ \A row \in Rows : /\ row.amount \in Int
                       /\ DOMAIN row.nets \subseteq Columns
                       /\ \A col \in DOMAIN row.nets : row.nets[col] \in Int

ASSUME MonthAssumption ==
  /\ MonthStart \in Seq(Int) /\ MonthStart # << >>
  /\ \A m \in 1 .. Len(MonthStart) - 1 : MonthStart[m] < MonthStart[m + 1]
  /\ \A list \in Workbooks : list \in Seq([date : Int, amount : Int, category : STRING])

ASSUME FileAssumption ==
  /\ NoText \notin [sign : {"", "-"}, whole : Nat, frac : Seq(0 .. 9)]
  /\ \A ledger \in Ledgers : LedgerOK(ledger)

Mappings == UNION {[cols -> SplitUsers] : cols \in SUBSET Columns}

RowCalls ==
  {c \in [method : {"resolve"}, row : Rows, mapping : Mappings, payerCol : Columns] :
     c.payerCol \in PayerColumns(c.row) \cap DOMAIN c.mapping}

WorkbookCalls == [method : {"workbook"}, expenses : Workbooks]

LedgerCalls ==
  {[method |-> "round trip", group |-> l.group, expenses |-> l.expenses,
    settlements |-> l.settlements] : l \in Ledgers}

\* The answer is left to the properties to compute.
AskImport ==
  /\ call = Idle
  /\ call' \in RowCalls \cup WorkbookCalls \cup LedgerCalls
  /\ UNCHANGED result

ImportNext == SplitNext \/ AskImport
ImportSpec == SplitInit /\ [][ImportNext]_splitVars

-----------------------------------------------------------------------------
\* What the splits of an imported row add up to, whatever columns are mapped
\* and to whom: its amount, and what they owe too much.  That is first what a
\* column paid beyond the amount (the payer's) or at all (another's): it has
\* no share, and the others' shares cover it.  It is then the drift of the
\* nets, if that is negative and the payer keeps no share to take it off.
Paid(row, payerCol, mapped) ==
  [c \in mapped |-> row.nets[c] - (IF c = payerCol THEN row.amount ELSE 0)]

PayerKeepsShare(paid, mapping, payerCol) ==
  \E c \in DOMAIN paid : mapping[c] = mapping[payerCol] /\ paid[c] < 0

OwedTooMuch(row, mapping, payerCol) ==
  LET mapped == DOMAIN row.nets \cap DOMAIN mapping
      paid == Paid(row, payerCol, mapped)
      drift == SumFunction([c \in mapped |-> row.nets[c]])
  IN  SumFunction([c \in mapped |-> IF paid[c] > 0 THEN paid[c] ELSE 0])
        + (IF drift >= 0 \/ PayerKeepsShare(paid, mapping, payerCol) THEN 0 ELSE -drift)

ImportedSplitsAddUp ==
  call.method = "resolve" =>
    SumFunction(resolveSplits(call.row, call.mapping, call.payerCol))
      = call.row.amount + OwedTooMuch(call.row, call.mapping, call.payerCol)

\* The workbooks of consecutive months count every expense once: what a
\* category adds up to over the months is its total over all of them.
EachInOneMonth ==
  call.method = "workbook" =>
    LET last == Len(MonthStart) - 1
        always == [from |-> MonthStart[1], to |-> MonthStart[last + 1] - 1]
    IN  \A c \in {call.expenses[i].category : i \in DOMAIN call.expenses} :
          SumFunction([month \in 1 .. last |->
                         CategoryTotal(call.expenses, monthFilter(month, MonthStart), c)])
            = CategoryTotal(call.expenses, always, c)

\* Nothing in the code gives the members different names, or makes every
\* split add up: a body may name a user twice, an imported row have several
\* payers (ImportedSplitsAddUp).
Faithful(ledger) ==
  LET members == ledger.group.members
  IN  /\ \A k, l \in DOMAIN members : k # l => members[k].name # members[l].name
      /\ \A e \in Range(ledger.expenses) : SumFunction(e.shares) = e.amount

\* A ledger written to a CSV is read back whole, a row for each expense and
\* payment (the first line of the file is the summary, and gives no row), and
\* each expense keeps its category, but for coffee.  If the members' names
\* differ and the splits add up, importing the rows into an empty group of the
\* same currency gives every member the balance it had, although the import
\* knows neither payers nor payments, only nets, and whichever of equal nets
\* it takes for the payer.
RoundTripKeepsBalances ==
  call.method = "round trip" =>
    LET members == Range(call.group.members)
        ids == {m.id : m \in members}
        names == {m.name : m \in members}
        userOf == [n \in names |-> (CHOOSE m \in members : m.name = n).id]
        was == call.expenses
        rows == ParsePreview(call.group.currency,
                             ExportGroupCSV(call.group, was, call.settlements)).rows
        choices == {f \in [DOMAIN rows -> names] :
                      \A i \in DOMAIN rows : f[i] \in PayerColumns(rows[i])}
        asRow(i, e) == [id |-> i, payer |-> e.payer, amount |-> e.amount, shares |-> e.shares]
        asPayment(i, s) == [id |-> i, from |-> s.from, to |-> s.to, amount |-> s.amount]
    IN  /\ Faithful(call) => \A choice \in choices :
             NetBalances(ids, {asRow(i, ImportedExpense(rows[i], userOf, choice[i]))
                                 : i \in DOMAIN rows}, {})
               = NetBalances(ids, {asRow(i, was[i]) : i \in DOMAIN was},
                             {asPayment(i, call.settlements[i])
                                : i \in DOMAIN call.settlements})
        /\ Cardinality(DOMAIN rows) = Len(was) + Len(call.settlements)
        /\ \A i \in DOMAIN was :
             rows[i + 1].category = IF was[i].category = "coffee" THEN "food" ELSE was[i].category

=============================================================================
