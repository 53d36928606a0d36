------------------------------ MODULE SalaryLedger ------------------------------
(***************************************************************************)
(* The money of one employee: salary slips (salarySlip.controller.js), the *)
(* expense history mirrored from them (expenseHistorySync.service.js) and  *)
(* added to by hand (expense.controller.js), and the two running totals on *)
(* the Employee document, which the dashboard's pages also overwrite       *)
(* through updateEmployee.                                                 *)
(*                                                                         *)
(* A slip's list of deductions is modelled by its total, and the records   *)
(* it mirrors by one record of that amount. Every handler is cut at its    *)
(* database calls.                                                         *)
(***************************************************************************)
EXTENDS Integers, FiniteSets, FiniteSetsExt

CONSTANTS
    Slips,      \* payroll months of the employee: one slip each at most
    NoSlip,     \* the source of a record that was added by hand
    Requests,   \* concurrent handlers of the API
    Pages,      \* dashboard pages open on the employee
    Amounts,    \* amounts of money a client sends
    Kinds,      \* kinds of deduction entries a new slip comes with
    Absent,     \* no deductionEntries in the body
    Failures,   \* whether an await may throw or the API process die
    MaxCalls    \* bound: calls made

ASSUME AmountsNat == Amounts \subseteq Nat
ASSUME KindsKnown == Kinds \subseteq {"advance", "deduction"}
ASSUME NoSlipIsNone == NoSlip \notin Slips
ASSUME FailuresBoolean == Failures \in BOOLEAN
ASSUME MaxCallsNat == MaxCalls \in Nat
ASSUME SlipsFinite == IsFiniteSet(Slips)
ASSUME RequestsFinite == IsFiniteSet(Requests)

VARIABLES
    slips,      \* the salaryslips collection
    counter,    \* InvoiceCounter of the scope salary-slip:<ownerId>
    earned,     \* Employee.totalEarnedAmount
    records,    \* Employee.expenses.records
    categories, \* the sum of the category fields of Employee.expenses
    investment, \* Employee.totalInvestmentAmount
    request,    \* what each handler holds
    page,       \* what each dashboard page has loaded
    calls       \* calls made; also the clock that names records

slipVars     == <<slips, counter>>
employeeVars == <<earned, records, categories, investment>>
vars == <<slips, counter, earned, records, categories, investment, request, page, calls>>

-----------------------------------------------------------------------------
\* A document that is not there has number 0.
Slip == [number : Nat, base : Int, allowances : Int, deductions : Int,
         net : Int, details : Int]
NoDocument == [number |-> 0, base |-> 0, allowances |-> 0, deductions |-> 0,
               net |-> 0, details |-> 0]

\* What a slip's creation or edit carries. The dashboard's grossSalary, sent
\* as base, already contains the allowances.
Figures == {f \in [base : Amounts, allowances : Amounts, deductions : Amounts] :
              f.allowances <= f.base}

Entry == [kind : {"advance", "deduction"}, amount : Int]
Record == [slip : Slips \cup {NoSlip}, id : Nat, kind : {"advance", "deduction"},
           amount : Int]

Idle == [pc |-> "idle"]
SlipCall == [pc : {"number", "insert", "save", "earn", "sync", "merge"},
             op : {"create", "update", "deduct"}, slip : Slips,
             read : Slip, new : Slip, entry : Entry \cup {Absent},
             held : SUBSET Record]
ExpenseCall == [pc : {"push"}, record : Record]

Closed == [open |-> FALSE]
Loaded == [open : {TRUE}, records : SUBSET Record, categories : Int]

Of(kind, history) == {x \in history : x.kind = kind}
Total(history) == MapThenSumSet(LAMBDA x : x.amount, history)

\* computeRemainingBalance
RemainingBalance(history) ==
    Max({0, Total(Of("advance", history)) - Total(Of("deduction", history))})

-----------------------------------------------------------------------------
Init ==
    /\ slips = [s \in Slips |-> NoDocument]
    /\ counter = 0
    /\ earned = 0
    /\ records = {}
    /\ categories = 0
    /\ investment = 0
    /\ request = [r \in Requests |-> Idle]
    /\ page = [p \in Pages |-> Closed]
    /\ calls = 0

Exists(s) == slips[s].number # 0

\* A handler starts.
Call == calls < MaxCalls /\ calls' = calls + 1

Started(op, s, read, new, entry, pc) ==
    [pc |-> pc, op |-> op, slip |-> s, read |-> read, new |-> new,
     entry |-> entry, held |-> {}]

\* Where a handler goes once its slip is written: createSalarySlip mirrors the
\* entries and then adds to the total, the other two add and then mirror.
AfterWrite(q) ==
    IF q.op = "create" /\ q.entry # Absent THEN [q EXCEPT !.pc = "sync"]
                                           ELSE [q EXCEPT !.pc = "earn"]
AfterEarn(q) ==
    IF q.op # "create" /\ q.entry # Absent THEN [q EXCEPT !.pc = "sync"] ELSE Idle
AfterSync(q) ==
    IF q.op = "create" THEN [q EXCEPT !.pc = "earn", !.held = {}] ELSE Idle

-----------------------------------------------------------------------------
(* POST /salary-slips                                                      *)

\* The net amount is the dashboard's: gross less deductions, plus an advance
\* that is given with this slip.
CreateRead(r, s, f, entry) ==
    LET advance == IF entry # Absent /\ entry.kind = "advance" THEN entry.amount ELSE 0
        new == [number |-> 0, base |-> f.base, allowances |-> f.allowances,
                deductions |-> f.deductions, net |-> f.base - f.deductions + advance,
                details |-> 0]
    IN
    /\ request[r] = Idle
    /\ Call
    /\ ~Exists(s)
    /\ request' = [request EXCEPT ![r] =
                     Started("create", s, NoDocument, new, entry, "number")]
    /\ UNCHANGED <<slipVars, employeeVars, page>>

\* What the number would be if it were counted from the collection.
CreateNumberCounted(r) ==
    LET q == request[r]
        n == Cardinality({s \in Slips : Exists(s)}) + 1
    IN
    /\ q.pc = "number"
    /\ request' = [request EXCEPT ![r] = [q EXCEPT !.pc = "insert", !.new.number = n]]
    /\ UNCHANGED <<slipVars, employeeVars, page, calls>>

\* The figures are validated once the number is taken: a refusal loses it.
CreateNumber(r) ==
    LET q == request[r]
        valid == /\ q.new.net >= 0
                 /\ q.new.deductions <= q.new.base + q.new.allowances
    IN
    /\ q.pc = "number"
    /\ counter' = counter + 1
    /\ request' = [request EXCEPT ![r] =
                     IF valid THEN [q EXCEPT !.pc = "insert", !.new.number = counter + 1]
                              ELSE Idle]
    /\ UNCHANGED <<slips, employeeVars, page, calls>>

\* What the insert would be without the unique index.
CreateInsertUnindexed(r) ==
    LET q == request[r] IN
    /\ q.pc = "insert"
    /\ slips' = [slips EXCEPT ![q.slip] = q.new]
    /\ request' = [request EXCEPT ![r] = AfterWrite(q)]
    /\ UNCHANGED <<counter, employeeVars, page, calls>>

CreateInsert(r) ==
    LET q == request[r] IN
    /\ q.pc = "insert"
    /\ IF ~Exists(q.slip)
       THEN /\ slips' = [slips EXCEPT ![q.slip] = q.new]
            /\ request' = [request EXCEPT ![r] = AfterWrite(q)]
       ELSE /\ request' = [request EXCEPT ![r] = Idle]
            /\ UNCHANGED slips
    /\ UNCHANGED <<counter, employeeVars, page, calls>>

-----------------------------------------------------------------------------
(* PUT /salary-slips/:id and POST /salary-slips/:id/deductions             *)

UpdateRead(r, s, f, entry) ==
    /\ request[r] = Idle
    /\ Call
    /\ Exists(s)
    /\ f.deductions <= f.base + f.allowances
    /\ request' = [request EXCEPT ![r] =
         Started("update", s, slips[s],
                 [slips[s] EXCEPT !.base = f.base, !.allowances = f.allowances,
                                  !.deductions = f.deductions,
                                  !.net = f.base + f.allowances - f.deductions],
                 entry, "save")]
    /\ UNCHANGED <<slipVars, employeeVars, page>>

\* The deductions are summed from deductionsDetails, which only this handler
\* fills, and the history is mirrored from it.
DeductRead(r, s, amount) ==
    LET read == slips[s]
        total == read.details + amount
    IN
    /\ request[r] = Idle
    /\ Call
    /\ Exists(s)
    /\ total <= read.base + read.allowances
    /\ request' = [request EXCEPT ![r] =
         Started("deduct", s, read,
                 [read EXCEPT !.deductions = total, !.details = total,
                              !.net = read.base + read.allowances - total],
                 [kind |-> "deduction", amount |-> total], "save")]
    /\ UNCHANGED <<slipVars, employeeVars, page>>

\* document.save() sets the paths that differ from the document read and
\* pushes onto the array.
Changed(current, read, new) == IF new # read THEN new ELSE current

Saved(current, read, new) ==
    [number     |-> current.number,
     base       |-> Changed(current.base, read.base, new.base),
     allowances |-> Changed(current.allowances, read.allowances, new.allowances),
     deductions |-> Changed(current.deductions, read.deductions, new.deductions),
     net        |-> Changed(current.net, read.net, new.net),
     details    |-> current.details + new.details - read.details]

Save(r) ==
    LET q == request[r] IN
    /\ q.pc = "save"
    /\ slips' = [slips EXCEPT ![q.slip] = Saved(@, q.read, q.new)]
    /\ request' = [request EXCEPT ![r] = AfterWrite(q)]
    /\ UNCHANGED <<counter, employeeVars, page, calls>>

\* What the total would be if an edit counted the slip again.
EarnWhole(r) ==
    LET q == request[r] IN
    /\ q.pc = "earn"
    /\ earned' = earned + q.new.net
    /\ request' = [request EXCEPT ![r] = AfterEarn(q)]
    /\ UNCHANGED <<slipVars, records, categories, investment, page, calls>>

\* $inc by the difference to the document read; a creation read none.
Earn(r) ==
    LET q == request[r] IN
    /\ q.pc = "earn"
    /\ earned' = earned + q.new.net - q.read.net
    /\ request' = [request EXCEPT ![r] = AfterEarn(q)]
    /\ UNCHANGED <<slipVars, records, categories, investment, page, calls>>

-----------------------------------------------------------------------------
(* syncSalarySlipExpenseRecords                                            *)

SyncRead(r) ==
    LET q == request[r] IN
    /\ q.pc = "sync"
    /\ request' = [request EXCEPT ![r] = [q EXCEPT !.pc = "merge", !.held = records]]
    /\ UNCHANGED <<slipVars, employeeVars, page, calls>>

\* What a mirrored record would be if it lost its sourceSlipId.
FreshUnlinked(q) ==
    IF q.entry.amount > 0
    THEN {[slip |-> Absent, id |-> 0, kind |-> q.entry.kind, amount |-> q.entry.amount]}
    ELSE {}

Fresh(q) ==
    IF q.entry.amount > 0
    THEN {[slip |-> q.slip, id |-> 0, kind |-> q.entry.kind, amount |-> q.entry.amount]}
    ELSE {}

\* What the mirror would be if it appended.
SyncAppend(r) ==
    LET q == request[r] IN
    /\ q.pc = "merge"
    /\ records' = q.held \cup Fresh(q)
    /\ request' = [request EXCEPT ![r] = AfterSync(q)]
    /\ UNCHANGED <<slipVars, earned, categories, investment, page, calls>>

SyncWrite(r) ==
    LET q == request[r] IN
    /\ q.pc = "merge"
    /\ records' = {x \in q.held : x.slip # q.slip} \cup Fresh(q)
    /\ request' = [request EXCEPT ![r] = AfterSync(q)]
    /\ UNCHANGED <<slipVars, earned, categories, investment, page, calls>>

\* The callers log an error of the mirror and go on.
SyncFails(r) ==
    /\ Failures
    /\ request[r].pc \in {"sync", "merge"}
    /\ request' = [request EXCEPT ![r] = AfterSync(request[r])]
    /\ UNCHANGED <<slipVars, employeeVars, page, calls>>

-----------------------------------------------------------------------------
(* POST /expenses                                                          *)

\* The balance is checked on the employee read; the record is named by the
\* clock.
ExpenseRead(r, kind, amount) ==
    /\ request[r] = Idle
    /\ Call
    /\ kind = "deduction" => amount <= RemainingBalance(records)
    /\ request' = [request EXCEPT ![r] =
         [pc |-> "push", record |-> [slip |-> NoSlip, id |-> calls + 1,
                                     kind |-> kind, amount |-> amount]]]
    /\ UNCHANGED <<slipVars, employeeVars, page>>

ExpensePush(r) ==
    /\ request[r].pc = "push"
    /\ records' = records \cup {request[r].record}
    /\ request' = [request EXCEPT ![r] = Idle]
    /\ UNCHANGED <<slipVars, earned, categories, investment, page, calls>>

\* An await throws where nothing is undone, or the API process dies.
RequestDies(r) ==
    /\ Failures
    /\ request[r] # Idle
    /\ request' = [request EXCEPT ![r] = Idle]
    /\ UNCHANGED <<slipVars, employeeVars, page, calls>>

-----------------------------------------------------------------------------
(* PUT /employees/:id with an expenses object, from two dashboard pages    *)

PageLoad(p) ==
    /\ page[p] = Closed
    /\ page' = [page EXCEPT ![p] = [open |-> TRUE, records |-> records,
                                    categories |-> categories]]
    /\ UNCHANGED <<slipVars, employeeVars, request, calls>>

\* updateEmployee sets the whole expenses object and recomputes the investment
\* from its category fields.
ReplaceExpenses(p, history, sum) ==
    /\ page[p] # Closed
    /\ Call
    /\ records' = history
    /\ categories' = sum
    /\ investment' = sum
    /\ page' = [page EXCEPT ![p] = Closed]
    /\ UNCHANGED <<slipVars, earned, request>>

\* The Expenses page sends {records} and nothing else.
DeleteExpense(p, x) ==
    /\ page[p] # Closed /\ x \in page[p].records
    /\ ReplaceExpenses(p, page[p].records \ {x}, 0)

EditExpense(p, x, kind, amount) ==
    /\ page[p] # Closed /\ x \in page[p].records
    /\ ReplaceExpenses(p, (page[p].records \ {x})
                            \cup {[x EXCEPT !.kind = kind, !.amount = amount]}, 0)

\* The profile's expenses tab sends back the object it loaded, records
\* included, with the categories edited.
SaveCategories(p, sum) ==
    /\ page[p] # Closed
    /\ ReplaceExpenses(p, page[p].records, sum)

-----------------------------------------------------------------------------
Entries == [kind : Kinds, amount : Amounts] \cup {Absent}

RequestNext(r) ==
    \/ \E s \in Slips, f \in Figures, e \in Entries :
         CreateRead(r, s, f, e) \/ UpdateRead(r, s, f, e)
    \/ \E s \in Slips, a \in Amounts : DeductRead(r, s, a)
    \/ \E k \in {"advance", "deduction"}, a \in Amounts : ExpenseRead(r, k, a)
    \/ CreateNumber(r) \/ CreateInsert(r) \/ Save(r) \/ Earn(r)
    \/ SyncRead(r) \/ SyncWrite(r) \/ SyncFails(r)
    \/ ExpensePush(r) \/ RequestDies(r)

PageNext(p) ==
    \/ PageLoad(p)
    \/ \E x \in records \cup (IF page[p] = Closed THEN {} ELSE page[p].records) :
         \/ DeleteExpense(p, x)
         \/ \E k \in {"advance", "deduction"}, a \in Amounts : EditExpense(p, x, k, a)
    \/ \E a \in Amounts : SaveCategories(p, a)

Next == (\E r \in Requests : RequestNext(r)) \/ (\E p \in Pages : PageNext(p))

Spec == Init /\ [][Next]_vars

-----------------------------------------------------------------------------
(* Properties                                                              *)

\* Every variable holds a value of the documents and records above.
TypeOK ==
    /\ slips \in [Slips -> Slip]
    /\ counter \in Nat
    /\ earned \in Int
    /\ records \subseteq Record
    /\ categories \in Int /\ investment \in Int
    /\ request \in [Requests -> SlipCall \cup ExpenseCall \cup {Idle}]
    /\ page \in [Pages -> Loaded \cup {Closed}]
    /\ calls \in Nat

\* Two slips never share a number, and a slip that is there is not replaced by
\* a second creation for its month, whichever handlers race.
SlipNumbersUnique ==
    \A s, t \in Slips : Exists(s) /\ slips[s].number = slips[t].number => s = t

SlipsNotReplaced ==
    [][\A s \in Slips : Exists(s) => slips'[s].number = slips[s].number]_vars

\* However creations, edits, added deductions, additions by hand and stale
\* pages interleave, the history never holds two copies of a record ("never
\* creates a second copy", expenseHistorySync).
NoDuplicateHistory ==
    \A x, y \in records : x.slip = y.slip /\ x.id = y.id => x = y

SumOf(w) == MapThenSumSet(LAMBDA x : w[x], DOMAIN w)

\* With nobody in the middle of a call the running total is the sum of the
\* slips' net amounts.
EarnedMatchesSlips ==
    (\A r \in Requests : request[r] = Idle) =>
      earned = SumOf([s \in Slips |-> slips[s].net])

=============================================================================
