----------------------------- MODULE ImportMath -----------------------------
(***************************************************************************)
(* The arithmetic of moving a group's history in and out                   *)
(* (internal/service/import_service.go): the CSV written by ExportGroupCSV *)
(* and read by ParsePreview, the payer and splits that resolveSplits makes *)
(* of a row, and the totals of the spending workbook.                      *)
(*                                                                         *)
(* An amount in a file is its sign, whole part and decimal digits.  Names  *)
(* stand for themselves: trimming, quoting and the repair of mis-decoded   *)
(* text are left out, and category names are written in lower case, which  *)
(* is how mapSplitwiseCategory compares them.  The order of lines is left  *)
(* out too.                                                                *)
(***************************************************************************)
EXTENDS Integers, Sequences, FiniteSets, SequencesExt

CONSTANTS NoText,       \* an empty cell
          NoDate        \* a date cell that is no date

-----------------------------------------------------------------------------
(* Slips, none of them the code's: the sign is read off the whole part, so  *)
(* that -0.05 becomes 5 cents; the difference is dropped even when the     *)
(* payer has a share; a month ends where the next one starts.              *)

parseSignOfWhole(text) ==
  LET cents == text.frac[1] * 10 + text.frac[2]
  IN  IF text.sign = "-" /\ text.whole > 0
      THEN -(text.whole * 100 + cents)
      ELSE text.whole * 100 + cents

reconcileNothing(split, payer, diff) == split

monthToNextStart(month, monthStart) ==
  [from |-> monthStart[month], to |-> monthStart[month + 1]]

-----------------------------------------------------------------------------
(* Amounts and categories *)

formatCents(cents) ==
  LET size == IF cents < 0 THEN -cents ELSE cents
  IN  [sign |-> IF cents < 0 THEN "-" ELSE "",
       whole |-> size \div 100,
       frac |-> <<(size % 100) \div 10, size % 10>>]

\* Up to two decimals; further ones are cut off.
parseCents(text) ==
  LET digit(k) == IF k \in DOMAIN text.frac THEN text.frac[k] ELSE 0
      size == text.whole * 100 + digit(1) * 10 + digit(2)
  IN  IF text.sign = "-" THEN -size ELSE size

splitwiseCategoryNameBySlug ==
  [food |-> "dining out", groceries |-> "groceries", coffee |-> "food and drink - other",
   drinks |-> "liquor", transport |-> "other transportation", fuel |-> "gas/fuel",
   travel |-> "plane", accommodation |-> "hotel", housing |-> "rent",
   utilities |-> "other utilities", internet |-> "tv/phone/internet",
   entertainment |-> "other entertainment", sports |-> "sports",
   shopping |-> "clothing", health |-> "medical expenses", education |-> "education",
   gifts |-> "gifts", pets |-> "pets", household |-> "household supplies",
   other |-> "general"]

splitwiseCategoryName(slug) ==
  IF slug \in DOMAIN splitwiseCategoryNameBySlug
  THEN splitwiseCategoryNameBySlug[slug]
  ELSE "general"

\* splitwiseCategoryMap, turned around; its Spanish names are left out.
EnglishNames ==
  [groceries |-> {"groceries"},
   food |-> {"dining out", "food and drink - other", "food and drink"},
   drinks |-> {"liquor"},
   shopping |-> {"electronics", "clothing"},
   household |-> {"furniture", "household supplies", "maintenance", "other home",
                  "home", "cleaning"},
   housing |-> {"mortgage", "rent"},
   pets |-> {"pets"},
   utilities |-> {"services", "electricity", "heat/gas", "trash", "water",
                  "other utilities"},
   education |-> {"education"},
   gifts |-> {"gifts"},
   health |-> {"medical expenses"},
   transport |-> {"bicycle", "bus/train", "car", "parking", "taxi",
                  "other transportation", "transportation"},
   fuel |-> {"gas/fuel"},
   accommodation |-> {"hotel"},
   travel |-> {"plane"},
   internet |-> {"tv/phone/internet"},
   entertainment |-> {"games", "movies", "music", "other entertainment",
                      "entertainment"},
   sports |-> {"sports"},
   other |-> {"childcare", "insurance", "taxes", "other life", "life", "general",
              "uncategorized"}]

mapSplitwiseCategory(name) ==
  IF \E slug \in DOMAIN EnglishNames : name \in EnglishNames[slug]
  THEN CHOOSE slug \in DOMAIN EnglishNames : name \in EnglishNames[slug]
  ELSE "other"

-----------------------------------------------------------------------------
(* Writing the file *)

\* What an expense, or a payment, does to the balance of each member.
expenseNets(members, e) ==
  [k \in DOMAIN members |->
     (IF members[k].id = e.payer THEN e.amount ELSE 0)
       - (IF members[k].id \in DOMAIN e.shares THEN e.shares[members[k].id] ELSE 0)]

settlementNets(members, s) ==
  [k \in DOMAIN members |->
     (IF members[k].id = s.from THEN s.amount ELSE 0)
       - (IF members[k].id = s.to THEN s.amount ELSE 0)]

CellsOf(nets) == [k \in DOMAIN nets |-> formatCents(nets[k])]

\* The summary line comes first; it has neither date nor cost.
ExportGroupCSV(group, expenses, settlements) ==
  LET line(date, category, amount, nets) ==
        [date |-> date, category |-> category, cost |-> formatCents(amount),
         currency |-> group.currency, cells |-> CellsOf(nets)]
      paid == [i \in DOMAIN expenses |->
                 line(expenses[i].date, splitwiseCategoryName(expenses[i].category),
                      expenses[i].amount, expenseNets(group.members, expenses[i]))]
      settled == [i \in DOMAIN settlements |->
                    line(settlements[i].date, "payment", settlements[i].amount,
                         settlementNets(group.members, settlements[i]))]
      nets == [i \in DOMAIN expenses |-> expenseNets(group.members, expenses[i])]
                \o [i \in DOMAIN settlements |-> settlementNets(group.members, settlements[i])]
      totals == [k \in DOMAIN group.members |->
                   SumFunction([i \in DOMAIN nets |-> nets[i][k]])]
      summary == [date |-> NoDate, category |-> "", cost |-> NoText,
                  currency |-> NoText, cells |-> CellsOf(totals)]
  IN  [header |-> [k \in DOMAIN group.members |-> group.members[k].name],
       lines |-> <<summary>> \o paid \o settled]

-----------------------------------------------------------------------------
(* Reading it back *)

\* The columns of a ragged line that hold an amount; of two columns with the
\* same heading the later one counts.
ColumnsAt(header, line, name) ==
  {k \in DOMAIN header : /\ header[k] = name
                         /\ k <= Len(line.cells)
                         /\ line.cells[k] # NoText}

RowOf(header, line) ==
  [date |-> line.date,
   category |-> mapSplitwiseCategory(line.category),
   amount |-> parseCents(line.cost),
   nets |-> [name \in {name \in Range(header) : ColumnsAt(header, line, name) # {}} |->
               parseCents(line.cells[Max(ColumnsAt(header, line, name))])]]

\* The rows are numbered by the lines they were read from.
ParsePreview(currency, file) ==
  LET dated == {i \in DOMAIN file.lines : file.lines[i].date # NoDate}
      readable(line) == /\ line.currency = currency
                        /\ line.cost # NoText
                        /\ parseCents(line.cost) # 0
      good == {i \in dated : readable(file.lines[i])}
  IN  [rows |-> [i \in good |-> RowOf(file.header, file.lines[i])],
       skipped |-> Len(file.lines) - Cardinality(good),
       mismatch |-> good = {} /\ \E i \in dated : file.lines[i].currency # currency]

\* The column of the largest net paid; the loop runs over a Go map, so which
\* of several largest it keeps is left to chance.
PayerColumns(row) ==
  {col \in DOMAIN row.nets : \A c \in DOMAIN row.nets : row.nets[c] <= row.nets[col]}

\* Rounding drift goes onto the payer's split, or makes one if it is positive.
reconcile(split, payer, diff) ==
  IF payer \in DOMAIN split
  THEN [split EXCEPT ![payer] = @ + diff]
  ELSE IF diff > 0
       THEN [u \in DOMAIN split \cup {payer} |-> IF u = payer THEN diff ELSE split[u]]
       ELSE split

\* Everybody else's share is the negation of their net, and only positive
\* shares are kept.  Several columns may be mapped to one user: the splits of
\* a user are added up here.
resolveSplits(row, mapping, payerCol) ==
  LET mapped == DOMAIN row.nets \cap DOMAIN mapping
      share == [col \in mapped |-> IF col = payerCol THEN row.amount - row.nets[col]
                                                     ELSE -row.nets[col]]
      kept(u) == {col \in mapped : mapping[col] = u /\ share[col] > 0}
      split == [u \in {u \in Range(mapping) : kept(u) # {}} |->
                  SumFunction([col \in kept(u) |-> share[col]])]
  IN  reconcile(split, mapping[payerCol], row.amount - SumFunction(share))

\* A row whose payer is not mapped cannot be imported.
ImportedExpense(row, mapping, payerCol) ==
  [payer |-> mapping[payerCol], amount |-> row.amount, category |-> row.category,
   shares |-> resolveSplits(row, mapping, payerCol)]

-----------------------------------------------------------------------------
(* The spending workbook.  Time is counted in ticks of the clock. *)

\* "year" and "month": up to the last tick before the next month.
monthFilter(month, monthStart) ==
  [from |-> monthStart[month], to |-> monthStart[month + 1] - 1]

InRange(e, filter) == filter.from <= e.date /\ e.date <= filter.to

\* The total of a category among the expenses of the range.
CategoryTotal(expenses, filter, category) ==
  SumFunction([i \in {i \in DOMAIN expenses : /\ InRange(expenses[i], filter)
                                              /\ expenses[i].category = category} |->
                 expenses[i].amount])

=============================================================================
