--------------------------- MODULE SalaryLedgerProofs ---------------------------
(***************************************************************************)
(* Proofs about SalaryLedger: its types, the numbers of slips, that the    *)
(* expense history never holds two copies of a record, and when the        *)
(* running total is the sum of the slips.                                  *)
(***************************************************************************)
EXTENDS SalaryLedger, TLAPS, FiniteSetTheorems, WellFoundedInduction

AnyCall == SlipCall \cup ExpenseCall \cup {Idle}

\* A handler that mirrors has entries to mirror.
EntriesInv ==
    \A r \in Requests : request[r].pc \in {"sync", "merge"} => request[r].entry # Absent

TypeInv == TypeOK /\ EntriesInv

-----------------------------------------------------------------------------
(* The records of the handlers                                             *)

LEMMA SlipCallPc ==
  ASSUME NEW q \in AnyCall
  PROVE  /\ q.pc \in {"number", "insert", "save", "earn", "sync", "merge"} => q \in SlipCall
         /\ q.pc = "push" => q \in ExpenseCall
BY DEF AnyCall, SlipCall, ExpenseCall, Idle

LEMMA NoDocumentType == NoDocument \in Slip
BY DEF NoDocument, Slip

LEMMA FiguresType ==
  ASSUME NEW f \in Figures
  PROVE  f.base \in Int /\ f.allowances \in Int /\ f.deductions \in Int
<1>1. \A a \in Amounts : a \in Int
  BY AmountsNat
<1>2. f \in [base : Amounts, allowances : Amounts, deductions : Amounts]
  BY DEF Figures
<1>3. f.base \in Amounts /\ f.allowances \in Amounts /\ f.deductions \in Amounts
  BY <1>2
<1> QED
  BY <1>1, <1>3

LEMMA SlipUpdated ==
  ASSUME NEW c \in Slip, NEW b \in Int, NEW a \in Int, NEW d \in Int, NEW n \in Int
  PROVE  [c EXCEPT !.base = b, !.allowances = a, !.deductions = d, !.net = n] \in Slip
BY DEF Slip

LEMMA SlipDeducted ==
  ASSUME NEW c \in Slip, NEW d \in Int, NEW n \in Int
  PROVE  [c EXCEPT !.deductions = d, !.details = d, !.net = n] \in Slip
BY DEF Slip

LEMMA EntriesType ==
  ASSUME NEW e \in Entries
  PROVE  e \in Entry \cup {Absent}
<1>1. \A a \in Amounts : a \in Int
  BY AmountsNat
<1>2. CASE e \in [kind : Kinds, amount : Amounts]
  BY <1>1, <1>2, KindsKnown DEF Entry
<1> QED
  BY <1>2 DEF Entries

LEMMA StartedType ==
  ASSUME NEW op \in {"create", "update", "deduct"}, NEW s \in Slips,
         NEW read \in Slip, NEW new \in Slip, NEW entry \in Entry \cup {Absent},
         NEW pc \in {"number", "save"}
  PROVE  /\ Started(op, s, read, new, entry, pc) \in AnyCall
         /\ Started(op, s, read, new, entry, pc).pc = pc
<1>1. {} \in SUBSET Record
  OBVIOUS
<1> QED
  BY <1>1 DEF Started, AnyCall, SlipCall

\* The three ways a handler goes on are handlers again, and those that mirror
\* have entries.
Follows(n) == n \in AnyCall /\ (n.pc \in {"sync", "merge"} => n.entry # Absent)

LEMMA IdleFollows == Follows(Idle)
BY DEF Follows, Idle, AnyCall

LEMMA AfterFollows ==
  ASSUME NEW q \in SlipCall
  PROVE  Follows(AfterWrite(q)) /\ Follows(AfterEarn(q)) /\ Follows(AfterSync(q))
<1>1. Follows(AfterWrite(q))
  BY DEF AfterWrite, Follows, AnyCall, SlipCall
<1>2. Follows(AfterEarn(q))
  BY IdleFollows DEF AfterEarn, Follows, AnyCall, SlipCall
<1>3. Follows(AfterSync(q))
  <2>1. {} \in SUBSET Record
    OBVIOUS
  <2>2. [q EXCEPT !.pc = "earn", !.held = {}] \in SlipCall
    BY <2>1 DEF SlipCall
  <2>3. [q EXCEPT !.pc = "earn", !.held = {}].pc = "earn"
    BY DEF SlipCall
  <2> QED
    BY <2>2, <2>3, IdleFollows DEF AfterSync, Follows, AnyCall
<1> QED
  BY <1>1, <1>2, <1>3

LEMMA RequestFollows ==
  ASSUME TypeInv, NEW r \in Requests, NEW n, Follows(n),
         request' = [request EXCEPT ![r] = n]
  PROVE  /\ request' \in [Requests -> AnyCall]
         /\ EntriesInv'
BY DEF TypeInv, TypeOK, EntriesInv, Follows, AnyCall

LEMMA SavedType ==
  ASSUME NEW c \in Slip, NEW r \in Slip, NEW n \in Slip
  PROVE  Saved(c, r, n) \in Slip
BY DEF Saved, Changed, Slip

LEMMA FreshType ==
  ASSUME NEW q \in SlipCall, q.entry # Absent
  PROVE  Fresh(q) \subseteq Record
<1>1. q.entry \in Entry /\ q.slip \in Slips
  BY DEF SlipCall
<1> QED
  BY <1>1 DEF Fresh, Record, Entry

-----------------------------------------------------------------------------
(* Type correctness                                                        *)

LEMMA TypeInit == Init => TypeInv
<1> SUFFICES ASSUME Init PROVE TypeInv
  OBVIOUS
<1>1. slips \in [Slips -> Slip]
  BY NoDocumentType DEF Init
<1>2. request \in [Requests -> AnyCall] /\ EntriesInv
  BY DEF Init, EntriesInv, Idle, AnyCall
<1>3. page \in [Pages -> Loaded \cup {Closed}]
  BY DEF Init
<1> QED
  BY <1>1, <1>2, <1>3 DEF Init, TypeInv, TypeOK, AnyCall

LEMMA TypeRequest ==
  ASSUME TypeInv, NEW r \in Requests, RequestNext(r)
  PROVE  TypeInv'
<1> DEFINE q == request[r]
<1> USE DEF TypeInv
<1>0. q \in AnyCall /\ (q.pc \in {"sync", "merge"} => q.entry # Absent)
  BY DEF TypeOK, EntriesInv, AnyCall
<1>s. q.pc \in {"number", "insert", "save", "earn", "sync", "merge"} => q \in SlipCall
  BY <1>0, SlipCallPc
<1>p. q.pc = "push" => q \in ExpenseCall
  BY <1>0, SlipCallPc
<1>i. calls + 1 \in Nat /\ counter + 1 \in Nat
  BY DEF TypeOK
<1>e. ASSUME NEW e \in Entries PROVE e \in Entry \cup {Absent}
  BY <1>e, EntriesType
<1>1. ASSUME NEW s \in Slips, NEW f \in Figures, NEW e \in Entries, CreateRead(r, s, f, e)
      PROVE  TypeInv'
  <2> DEFINE advance == IF e # Absent /\ e.kind = "advance" THEN e.amount ELSE 0
             new == [number |-> 0, base |-> f.base, allowances |-> f.allowances,
                     deductions |-> f.deductions, net |-> f.base - f.deductions + advance,
                     details |-> 0]
             n == Started("create", s, NoDocument, new, e, "number")
  <2>1. advance \in Int
    BY <1>e DEF Entry
  <2>2. new \in Slip
    BY <2>1, FiguresType DEF Slip
  <2> HIDE DEF new
  <2>3. n \in AnyCall /\ n.pc = "number"
    BY <2>2, <1>e, StartedType, NoDocumentType
  <2>4. Follows(n)
    BY <2>3 DEF Follows
  <2>5. request' = [request EXCEPT ![r] = n]
    BY <1>1 DEF CreateRead, new
  <2>6. request' \in [Requests -> AnyCall] /\ EntriesInv'
    BY <2>4, <2>5, RequestFollows
  <2> QED
    BY <1>1, <1>i, <2>6 DEF CreateRead, Call, TypeOK, AnyCall, slipVars, employeeVars
<1>2. ASSUME NEW s \in Slips, NEW f \in Figures, NEW e \in Entries, UpdateRead(r, s, f, e)
      PROVE  TypeInv'
  <2> DEFINE new == [slips[s] EXCEPT !.base = f.base, !.allowances = f.allowances,
                                  !.deductions = f.deductions,
                                  !.net = f.base + f.allowances - f.deductions]
             n == Started("update", s, slips[s], new, e, "save")
  <2>1. slips[s] \in Slip
    BY DEF TypeOK
  <2>2. new \in Slip
    <3>1. f.base \in Int /\ f.allowances \in Int /\ f.deductions \in Int
      BY FiguresType
    <3>2. f.base + f.allowances - f.deductions \in Int
      BY <3>1
    <3> QED
      BY <2>1, <3>1, <3>2, SlipUpdated
  <2> HIDE DEF new
  <2>3. n \in AnyCall /\ n.pc = "save"
    BY <2>1, <2>2, <1>e, StartedType
  <2>4. Follows(n)
    BY <2>3 DEF Follows
  <2>5. request' = [request EXCEPT ![r] = n]
    BY <1>2 DEF UpdateRead, new
  <2>6. request' \in [Requests -> AnyCall] /\ EntriesInv'
    BY <2>4, <2>5, RequestFollows
  <2> QED
    BY <1>2, <1>i, <2>6 DEF UpdateRead, Call, TypeOK, AnyCall, slipVars, employeeVars
<1>3. ASSUME NEW s \in Slips, NEW a \in Amounts, DeductRead(r, s, a)
      PROVE  TypeInv'
  <2> DEFINE total == slips[s].details + a
             new == [slips[s] EXCEPT !.deductions = total, !.details = total,
                         !.net = slips[s].base + slips[s].allowances - total]
             entry == [kind |-> "deduction", amount |-> total]
             n == Started("deduct", s, slips[s], new, entry, "save")
  <2>1. slips[s] \in Slip
    BY DEF TypeOK
  <2>2. total \in Int
    BY <2>1, AmountsNat DEF Slip
  <2>3. new \in Slip
    <3>1. slips[s].base + slips[s].allowances - total \in Int
      BY <2>1, <2>2 DEF Slip
    <3> HIDE DEF total
    <3> QED
      BY <2>1, <2>2, <3>1, SlipDeducted
  <2>4. entry \in Entry
    BY <2>2 DEF Entry
  <2> HIDE DEF new, entry
  <2>5. n \in AnyCall /\ n.pc = "save"
    BY <2>1, <2>3, <2>4, StartedType
  <2>6. Follows(n)
    BY <2>5 DEF Follows
  <2>7. request' = [request EXCEPT ![r] = n]
    BY <1>3 DEF DeductRead, new, entry
  <2>8. request' \in [Requests -> AnyCall] /\ EntriesInv'
    BY <2>6, <2>7, RequestFollows
  <2> QED
    BY <1>3, <1>i, <2>8 DEF DeductRead, Call, TypeOK, AnyCall, slipVars, employeeVars
<1>4. ASSUME NEW k \in {"advance", "deduction"}, NEW a \in Amounts, ExpenseRead(r, k, a)
      PROVE  TypeInv'
  <2> DEFINE rec == [slip |-> NoSlip, id |-> calls + 1, kind |-> k, amount |-> a]
             n == [pc |-> "push", record |-> rec]
  <2>1. rec \in Record
    BY <1>i, AmountsNat DEF Record
  <2> HIDE DEF rec
  <2>2. Follows(n)
    BY <2>1 DEF Follows, AnyCall, ExpenseCall
  <2>3. request' = [request EXCEPT ![r] = n]
    BY <1>4 DEF ExpenseRead, rec
  <2>4. request' \in [Requests -> AnyCall] /\ EntriesInv'
    BY <2>2, <2>3, RequestFollows
  <2> QED
    BY <1>4, <1>i, <2>4 DEF ExpenseRead, Call, TypeOK, AnyCall, slipVars, employeeVars
<1>5. CASE CreateNumber(r)
  <2> DEFINE n == [q EXCEPT !.pc = "insert", !.new.number = counter + 1]
  <2>1. q \in SlipCall
    BY <1>5, <1>s DEF CreateNumber
  <2>2. n \in AnyCall /\ n.pc = "insert"
    BY <2>1, <1>i DEF AnyCall, SlipCall, Slip
  <2>3. Follows(n)
    BY <2>2 DEF Follows
  <2>4. PICK m : request' = [request EXCEPT ![r] = m] /\ Follows(m)
    BY <1>5, <2>3, IdleFollows DEF CreateNumber
  <2>5. request' \in [Requests -> AnyCall] /\ EntriesInv'
    BY <2>4, RequestFollows
  <2> QED
    BY <1>5, <1>i, <2>5 DEF CreateNumber, TypeOK, AnyCall, employeeVars
<1>6. CASE CreateInsert(r)
  <2>1. q \in SlipCall
    BY <1>6, <1>s DEF CreateInsert
  <2>2. PICK m : request' = [request EXCEPT ![r] = m] /\ Follows(m)
    BY <1>6, <2>1, AfterFollows, IdleFollows DEF CreateInsert
  <2>3. request' \in [Requests -> AnyCall] /\ EntriesInv'
    BY <2>2, RequestFollows
  <2>4. q.new \in Slip /\ q.slip \in Slips
    BY <2>1 DEF SlipCall
  <2>5. slips' \in [Slips -> Slip]
    BY <1>6, <2>4 DEF CreateInsert, TypeOK
  <2> QED
    BY <1>6, <2>3, <2>5 DEF CreateInsert, TypeOK, AnyCall, employeeVars
<1>7. CASE Save(r)
  <2>1. q \in SlipCall
    BY <1>7, <1>s DEF Save
  <2>2. request' \in [Requests -> AnyCall] /\ EntriesInv'
    BY <1>7, <2>1, AfterFollows, RequestFollows DEF Save
  <2>3. q.new \in Slip /\ q.read \in Slip /\ q.slip \in Slips
    BY <2>1 DEF SlipCall
  <2>4. slips' \in [Slips -> Slip]
    BY <1>7, <2>3, SavedType DEF Save, TypeOK
  <2> QED
    BY <1>7, <2>2, <2>4 DEF Save, TypeOK, AnyCall, employeeVars
<1>8. CASE Earn(r)
  <2>1. q \in SlipCall
    BY <1>8, <1>s DEF Earn
  <2>2. request' \in [Requests -> AnyCall] /\ EntriesInv'
    BY <1>8, <2>1, AfterFollows, RequestFollows DEF Earn
  <2>3. q.new.net \in Int /\ q.read.net \in Int
    BY <2>1 DEF SlipCall, Slip
  <2>4. earned' \in Int
    BY <1>8, <2>3 DEF Earn, TypeOK
  <2> QED
    BY <1>8, <2>2, <2>4 DEF Earn, TypeOK, AnyCall, slipVars
<1>9. CASE SyncRead(r)
  <2> DEFINE n == [q EXCEPT !.pc = "merge", !.held = records]
  <2>1. q \in SlipCall /\ q.entry # Absent
    BY <1>9, <1>0, <1>s DEF SyncRead
  <2>2. records \in SUBSET Record
    BY DEF TypeOK
  <2>3. n \in SlipCall /\ n.entry = q.entry
    BY <2>1, <2>2 DEF SlipCall
  <2>4. Follows(n)
    BY <2>1, <2>3 DEF Follows, AnyCall
  <2>5. request' \in [Requests -> AnyCall] /\ EntriesInv'
    BY <1>9, <2>4, RequestFollows DEF SyncRead
  <2> QED
    BY <1>9, <2>5 DEF SyncRead, TypeOK, AnyCall, slipVars, employeeVars
<1>10. CASE SyncWrite(r)
  <2>1. q \in SlipCall /\ q.entry # Absent
    BY <1>10, <1>0, <1>s DEF SyncWrite
  <2>2. request' \in [Requests -> AnyCall] /\ EntriesInv'
    BY <1>10, <2>1, AfterFollows, RequestFollows DEF SyncWrite
  <2>3. q.held \subseteq Record
    BY <2>1 DEF SlipCall
  <2>4. records' \subseteq Record
    BY <1>10, <2>1, <2>3, FreshType DEF SyncWrite
  <2> QED
    BY <1>10, <2>2, <2>4 DEF SyncWrite, TypeOK, AnyCall, slipVars
<1>11. CASE SyncFails(r)
  <2>1. q \in SlipCall
    BY <1>11, <1>s DEF SyncFails
  <2>2. request' \in [Requests -> AnyCall] /\ EntriesInv'
    BY <1>11, <2>1, AfterFollows, RequestFollows DEF SyncFails
  <2> QED
    BY <1>11, <2>2 DEF SyncFails, TypeOK, AnyCall, slipVars, employeeVars
<1>12. CASE ExpensePush(r)
  <2>1. q.record \in Record
    BY <1>12, <1>p DEF ExpensePush, ExpenseCall
  <2>2. request' \in [Requests -> AnyCall] /\ EntriesInv'
    BY <1>12, IdleFollows, RequestFollows DEF ExpensePush
  <2> QED
    BY <1>12, <2>1, <2>2 DEF ExpensePush, TypeOK, AnyCall, slipVars
<1>13. CASE RequestDies(r)
  <2>1. request' \in [Requests -> AnyCall] /\ EntriesInv'
    BY <1>13, IdleFollows, RequestFollows DEF RequestDies
  <2> QED
    BY <1>13, <2>1 DEF RequestDies, TypeOK, AnyCall, slipVars, employeeVars
<1> QED
  BY <1>1, <1>2, <1>3, <1>4, <1>5, <1>6, <1>7, <1>8, <1>9, <1>10, <1>11, <1>12, <1>13
  DEF RequestNext

LEMMA TypeReplace ==
  ASSUME TypeInv, NEW p \in Pages, NEW history \in SUBSET Record, NEW sum \in Int,
         ReplaceExpenses(p, history, sum)
  PROVE  TypeInv'
<1>1. calls + 1 \in Nat
  BY DEF TypeInv, TypeOK
<1>2. page' \in [Pages -> Loaded \cup {Closed}]
  BY DEF TypeInv, TypeOK, ReplaceExpenses
<1>3. records' \subseteq Record /\ categories' \in Int /\ investment' \in Int
  BY DEF ReplaceExpenses
<1> QED
  BY <1>1, <1>2, <1>3 DEF TypeInv, TypeOK, EntriesInv, ReplaceExpenses, Call, slipVars

\* What an open page holds.
LEMMA PageType ==
  ASSUME TypeInv, NEW p \in Pages, page[p] # Closed
  PROVE  page[p].records \subseteq Record
<1>1. page[p] \in Loaded
  BY DEF TypeInv, TypeOK
<1> QED
  BY <1>1 DEF Loaded

LEMMA EditedType ==
  ASSUME NEW x \in Record, NEW k \in {"advance", "deduction"}, NEW a \in Int
  PROVE  /\ [x EXCEPT !.kind = k, !.amount = a] \in Record
         /\ [x EXCEPT !.kind = k, !.amount = a].slip = x.slip
         /\ [x EXCEPT !.kind = k, !.amount = a].id = x.id
BY DEF Record

\* The three ways a page replaces the history.
LEMMA PageCases ==
  ASSUME TypeInv, NEW p \in Pages, PageNext(p)
  PROVE  \/ PageLoad(p)
         \/ \E x \in Record : DeleteExpense(p, x)
         \/ \E x \in Record, k \in {"advance", "deduction"}, a \in Int : EditExpense(p, x, k, a)
         \/ \E a \in Int : SaveCategories(p, a)
<1>1. \A a \in Amounts : a \in Int
  BY AmountsNat
<1>2. \A x : x \in records => x \in Record
  BY DEF TypeInv, TypeOK
<1>3. \A x : page[p] # Closed /\ x \in page[p].records => x \in Record
  BY PageType
<1> QED
  BY <1>1, <1>2, <1>3 DEF PageNext

LEMMA TypePage ==
  ASSUME TypeInv, NEW p \in Pages, PageNext(p)
  PROVE  TypeInv'
<1>0. 0 \in Int
  OBVIOUS
<1>1. CASE PageLoad(p)
  <2>1. [open |-> TRUE, records |-> records, categories |-> categories] \in Loaded
    BY DEF TypeInv, TypeOK, Loaded
  <2>2. page' \in [Pages -> Loaded \cup {Closed}]
    BY <1>1, <2>1 DEF PageLoad, TypeInv, TypeOK
  <2> QED
    BY <1>1, <2>2 DEF PageLoad, TypeInv, TypeOK, EntriesInv, slipVars, employeeVars
<1>2. ASSUME NEW x \in Record, DeleteExpense(p, x) PROVE TypeInv'
  <2>1. page[p].records \ {x} \in SUBSET Record
    BY <1>2, PageType DEF DeleteExpense
  <2> QED
    BY <1>0, <1>2, <2>1, TypeReplace DEF DeleteExpense
<1>3. ASSUME NEW x \in Record, NEW k \in {"advance", "deduction"}, NEW a \in Int,
             EditExpense(p, x, k, a)
      PROVE  TypeInv'
  <2> DEFINE y == [x EXCEPT !.kind = k, !.amount = a]
  <2>1. y \in Record
    BY EditedType
  <2> HIDE DEF y
  <2>2. (page[p].records \ {x}) \cup {y} \in SUBSET Record
    BY <1>3, <2>1, PageType DEF EditExpense
  <2>3. ReplaceExpenses(p, (page[p].records \ {x}) \cup {y}, 0)
    BY <1>3 DEF EditExpense, y
  <2> QED
    BY <1>0, <2>2, <2>3, TypeReplace
<1>4. ASSUME NEW a \in Int, SaveCategories(p, a) PROVE TypeInv'
  BY <1>4, PageType, TypeReplace DEF SaveCategories
<1> QED
  BY <1>1, <1>2, <1>3, <1>4, PageCases

LEMMA TypeStutter == TypeInv /\ UNCHANGED vars => TypeInv'
BY DEF TypeInv, TypeOK, EntriesInv, vars

LEMMA TypeStep == TypeInv /\ [Next]_vars => TypeInv'
BY TypeRequest, TypePage, TypeStutter DEF Next

\* Every reachable state is well typed.
THEOREM TypeCorrect == Spec => []TypeOK
<1>1. Spec => []TypeInv
  BY TypeInit, TypeStep, PTL DEF Spec
<1>2. TypeInv => TypeOK
  BY DEF TypeInv
<1> QED
  BY <1>1, <1>2, PTL

-----------------------------------------------------------------------------
(* The numbers of slips                                                    *)

\* Why two slips never share a number: one that is reserved is not past the
\* counter, in no slip, and reserved by one creation.
NumberInv ==
    /\ \A s \in Slips : slips[s].number \in 0..counter
    /\ SlipNumbersUnique
    /\ \A r \in Requests :
         request[r].pc = "insert" =>
           /\ request[r].new.number \in 1..counter
           /\ \A s \in Slips : slips[s].number # request[r].new.number
    /\ \A r, q \in Requests :
         /\ r # q /\ request[r].pc = "insert" /\ request[q].pc = "insert"
         => request[r].new.number # request[q].new.number

\* A step that neither numbers nor inserts a slip.
NumbersStay ==
    /\ \A s \in Slips : slips'[s].number = slips[s].number
    /\ counter' = counter
    /\ \A r \in Requests : request'[r].pc = "insert" => request'[r] = request[r]

LEMMA StayNumbers == NumberInv /\ NumbersStay => NumberInv'
BY DEF NumberInv, NumbersStay, SlipNumbersUnique, Exists

\* A handler goes on to n, which does not insert.
LEMMA GoesOn ==
  ASSUME TypeInv, NEW r \in Requests, NEW n, n.pc # "insert",
         request' = [request EXCEPT ![r] = n], UNCHANGED slipVars
  PROVE  NumbersStay
BY DEF TypeInv, TypeOK, NumbersStay, slipVars

LEMMA AfterNotInsert ==
  ASSUME NEW q \in SlipCall
  PROVE  AfterWrite(q).pc # "insert" /\ AfterEarn(q).pc # "insert" /\ AfterSync(q).pc # "insert"
<1>1. AfterWrite(q).pc # "insert"
  BY DEF AfterWrite, SlipCall
<1>2. AfterEarn(q).pc # "insert"
  BY DEF AfterEarn, SlipCall, Idle
<1>3. AfterSync(q).pc # "insert"
  <2>1. [q EXCEPT !.pc = "earn", !.held = {}].pc = "earn"
    BY DEF SlipCall
  <2> QED
    BY <2>1 DEF AfterSync, Idle
<1> QED
  BY <1>1, <1>2, <1>3

LEMMA NumberRequest ==
  ASSUME TypeInv, NumberInv, NEW r \in Requests, RequestNext(r)
  PROVE  NumberInv' /\ \A s \in Slips : Exists(s) => slips'[s].number = slips[s].number
<1> DEFINE q == request[r]
           Kept == \A s \in Slips : Exists(s) => slips'[s].number = slips[s].number
<1>0. q \in AnyCall
  BY DEF TypeInv, TypeOK, AnyCall
<1>s. q.pc \in {"number", "insert", "save", "earn", "sync", "merge"} => q \in SlipCall
  BY <1>0, SlipCallPc
<1>q. NumbersStay => NumberInv' /\ Kept
  BY StayNumbers DEF NumbersStay
<1>1. ASSUME NEW s \in Slips, NEW f \in Figures, NEW e \in Entries,
             CreateRead(r, s, f, e) \/ UpdateRead(r, s, f, e)
      PROVE  NumbersStay
  <2>1. CASE CreateRead(r, s, f, e)
    <3>0. \A new, entry :
            Started("create", s, NoDocument, new, entry, "number").pc = "number"
      BY DEF Started
    <3>1. PICK n : n.pc = "number" /\ request' = [request EXCEPT ![r] = n]
      BY <2>1, <3>0 DEF CreateRead
    <3> QED
      BY <2>1, <3>1, GoesOn DEF CreateRead
  <2>2. CASE UpdateRead(r, s, f, e)
    <3>1. PICK n : n.pc = "save" /\ request' = [request EXCEPT ![r] = n]
      BY <2>2 DEF UpdateRead, Started
    <3> QED
      BY <2>2, <3>1, GoesOn DEF UpdateRead
  <2> QED
    BY <1>1, <2>1, <2>2
<1>2. ASSUME NEW s \in Slips, NEW a \in Amounts, DeductRead(r, s, a) PROVE NumbersStay
  <2>1. PICK n : n.pc = "save" /\ request' = [request EXCEPT ![r] = n]
    BY <1>2 DEF DeductRead, Started
  <2> QED
    BY <1>2, <2>1, GoesOn DEF DeductRead
<1>3. ASSUME NEW k \in {"advance", "deduction"}, NEW a \in Amounts, ExpenseRead(r, k, a)
      PROVE  NumbersStay
  <2>1. PICK n : n.pc = "push" /\ request' = [request EXCEPT ![r] = n]
    BY <1>3 DEF ExpenseRead
  <2> QED
    BY <1>3, <2>1, GoesOn DEF ExpenseRead
<1>4. CASE CreateNumber(r)
  <2> DEFINE n == [q EXCEPT !.pc = "insert", !.new.number = counter + 1]
  <2>1. q \in SlipCall
    BY <1>4, <1>s DEF CreateNumber
  <2>2. n.pc = "insert" /\ n.new.number = counter + 1
    BY <2>1 DEF SlipCall, Slip
  <2> HIDE DEF n
  <2>3. PICK m : /\ request' = [request EXCEPT ![r] = m]
                 /\ m.pc = "insert" => m.new.number = counter + 1
    <3>1. \/ request' = [request EXCEPT ![r] = n]
          \/ request' = [request EXCEPT ![r] = Idle]
      BY <1>4 DEF CreateNumber, n
    <3>2. Idle.pc # "insert"
      BY DEF Idle
    <3> QED
      BY <2>2, <3>1, <3>2
  <2>4. counter \in Nat /\ counter' = counter + 1 /\ UNCHANGED slips
    BY <1>4 DEF CreateNumber, TypeInv, TypeOK
  <2>5. \A s \in Slips : slips'[s].number \in 0..counter'
    BY <2>4 DEF NumberInv
  <2>6. \A p \in Requests : request'[p].pc = "insert" =>
          \/ p = r /\ request'[p].new.number = counter + 1
          \/ p # r /\ request'[p] = request[p]
    BY <2>3 DEF TypeInv, TypeOK
  <2>7. \A p \in Requests :
          request'[p].pc = "insert" =>
            /\ request'[p].new.number \in 1..counter'
            /\ \A s \in Slips : slips'[s].number # request'[p].new.number
    <3> SUFFICES ASSUME NEW p \in Requests, request'[p].pc = "insert"
                 PROVE  /\ request'[p].new.number \in 1..counter'
                        /\ \A s \in Slips : slips'[s].number # request'[p].new.number
      OBVIOUS
    <3>1. CASE p = r /\ request'[p].new.number = counter + 1
      BY <2>4, <3>1 DEF NumberInv
    <3>2. CASE p # r /\ request'[p] = request[p]
      BY <2>4, <3>2 DEF NumberInv
    <3> QED
      BY <2>6, <3>1, <3>2
  <2>8. \A p, o \in Requests :
          /\ p # o /\ request'[p].pc = "insert" /\ request'[o].pc = "insert"
          => request'[p].new.number # request'[o].new.number
    BY <2>4, <2>6 DEF NumberInv
  <2>9. SlipNumbersUnique'
    BY <2>4 DEF NumberInv, SlipNumbersUnique, Exists
  <2> QED
    BY <2>4, <2>5, <2>7, <2>8, <2>9 DEF NumberInv
<1>5. CASE CreateInsert(r)
  <2>1. q \in SlipCall
    BY <1>5, <1>s DEF CreateInsert
  <2>2. CASE ~Exists(q.slip)
    <3>1. /\ slips' = [slips EXCEPT ![q.slip] = q.new]
          /\ request' = [request EXCEPT ![r] = AfterWrite(q)]
          /\ UNCHANGED counter /\ q.pc = "insert"
      BY <1>5, <2>2 DEF CreateInsert
    <3>2. q.slip \in Slips
      BY <2>1 DEF SlipCall
    <3>3. \A p \in Requests : request'[p].pc = "insert" => p # r /\ request'[p] = request[p]
      <4> DEFINE n == AfterWrite(q)
      <4>1. n.pc # "insert"
        BY <2>1, AfterNotInsert
      <4> HIDE DEF n
      <4>2. request' = [request EXCEPT ![r] = n]
        BY <3>1 DEF n
      <4> QED
        BY <4>1, <4>2 DEF TypeInv, TypeOK
    <3>4. \A s \in Slips : IF s = q.slip THEN slips'[s].number = q.new.number
                                         ELSE slips'[s].number = slips[s].number
      BY <3>1, <3>2 DEF TypeInv, TypeOK
    <3>5. q.new.number \in 1..counter /\ \A s \in Slips : slips[s].number # q.new.number
      BY <3>1 DEF NumberInv
    <3>6. \A s \in Slips : slips'[s].number \in 0..counter'
      BY <3>1, <3>4, <3>5 DEF NumberInv
    <3>7. SlipNumbersUnique'
      BY <3>4, <3>5 DEF NumberInv, SlipNumbersUnique, Exists
    <3>8. \A p \in Requests :
            request'[p].pc = "insert" =>
              /\ request'[p].new.number \in 1..counter'
              /\ \A s \in Slips : slips'[s].number # request'[p].new.number
      BY <3>1, <3>3, <3>4 DEF NumberInv
    <3>9. \A p, o \in Requests :
            /\ p # o /\ request'[p].pc = "insert" /\ request'[o].pc = "insert"
            => request'[p].new.number # request'[o].new.number
      BY <3>3 DEF NumberInv
    <3>10. Kept
      BY <2>2, <3>4
    <3> QED
      BY <3>6, <3>7, <3>8, <3>9, <3>10 DEF NumberInv
  <2>3. CASE Exists(q.slip)
    BY <1>5, <2>3, <1>q, GoesOn DEF CreateInsert, slipVars, Idle
  <2> QED
    BY <2>2, <2>3
<1>6. CASE Save(r)
  <2>1. q \in SlipCall
    BY <1>6, <1>s DEF Save
  <2>2. \A s \in Slips : slips'[s].number = slips[s].number
    BY <1>6 DEF Save, Saved, TypeInv, TypeOK
  <2>3. \A p \in Requests : request'[p].pc = "insert" => request'[p] = request[p]
    <3> DEFINE n == AfterWrite(q)
    <3>1. n.pc # "insert"
      BY <2>1, AfterNotInsert
    <3> HIDE DEF n
    <3>2. request' = [request EXCEPT ![r] = n]
      BY <1>6 DEF Save, n
    <3> QED
      BY <3>1, <3>2 DEF TypeInv, TypeOK
  <2> QED
    BY <1>6, <1>q, <2>2, <2>3 DEF Save, NumbersStay
<1>7. CASE Earn(r)
  BY <1>7, <1>s, <1>q, AfterNotInsert, GoesOn DEF Earn
<1>8. CASE SyncRead(r)
  <2>1. q \in SlipCall
    BY <1>8, <1>s DEF SyncRead
  <2>2. [q EXCEPT !.pc = "merge", !.held = records].pc # "insert"
    BY <2>1 DEF SlipCall
  <2> QED
    BY <1>8, <1>q, <2>2, GoesOn DEF SyncRead
<1>9. CASE SyncWrite(r)
  BY <1>9, <1>s, <1>q, AfterNotInsert, GoesOn DEF SyncWrite
<1>10. CASE SyncFails(r)
  BY <1>10, <1>s, <1>q, AfterNotInsert, GoesOn DEF SyncFails
<1>11. CASE ExpensePush(r) \/ RequestDies(r)
  BY <1>11, <1>q, GoesOn DEF ExpensePush, RequestDies, Idle
<1> QED
  BY <1>1, <1>2, <1>3, <1>4, <1>5, <1>6, <1>7, <1>8, <1>9, <1>10, <1>11, <1>q DEF RequestNext

LEMMA NumberPage ==
  ASSUME NEW p \in Pages, PageNext(p)
  PROVE  UNCHANGED <<slips, counter, request>>
BY DEF PageNext, PageLoad, DeleteExpense, EditExpense, SaveCategories, ReplaceExpenses, slipVars

LEMMA NumberInit == Init => NumberInv
<1> SUFFICES ASSUME Init PROVE NumberInv
  OBVIOUS
<1>1. \A s \in Slips : slips[s].number = 0
  BY DEF Init, NoDocument
<1>2. \A r \in Requests : request[r].pc # "insert"
  BY DEF Init, Idle
<1>3. counter = 0
  BY DEF Init
<1> QED
  BY <1>1, <1>2, <1>3 DEF NumberInv, SlipNumbersUnique, Exists

LEMMA NumberStep ==
  TypeInv /\ NumberInv /\ [Next]_vars =>
    NumberInv' /\ \A s \in Slips : Exists(s) => slips'[s].number = slips[s].number
<1>1. ASSUME TypeInv, NumberInv, UNCHANGED <<slips, counter, request>>
      PROVE  NumberInv' /\ \A s \in Slips : Exists(s) => slips'[s].number = slips[s].number
  BY <1>1 DEF NumberInv, SlipNumbersUnique, Exists
<1> QED
  BY <1>1, NumberRequest, NumberPage DEF Next, vars

\* Two slips never share a number, for any number of months, handlers and
\* pages, and whatever fails.
THEOREM NumbersUnique == Spec => []SlipNumbersUnique
<1>1. Spec => [](TypeInv /\ NumberInv)
  BY TypeInit, TypeStep, NumberInit, NumberStep, PTL DEF Spec
<1>2. NumberInv => SlipNumbersUnique
  BY DEF NumberInv
<1> QED
  BY <1>1, <1>2, PTL

\* A slip that is there is never replaced by another creation.
THEOREM NotReplaced == Spec => SlipsNotReplaced
<1>1. Spec => [](TypeInv /\ NumberInv)
  BY TypeInit, TypeStep, NumberInit, NumberStep, PTL DEF Spec
<1>2. TypeInv /\ NumberInv /\ [Next]_vars =>
        [\A s \in Slips : Exists(s) => slips'[s].number = slips[s].number]_vars
  BY NumberStep
<1> QED
  BY <1>1, <1>2, PTL DEF Spec, SlipsNotReplaced

-----------------------------------------------------------------------------
(* The expense history                                                     *)

Pushing(r) == request[r].pc = "push"
Pending == {request[r].record.id : r \in {q \in Requests : Pushing(q)}}

\* A history, wherever a copy of it is held: no two records of one identity,
\* all named before now, none of them one that is still to be pushed.
Fits(history, pending, now) ==
    /\ \A x, y \in history : x.slip = y.slip /\ x.id = y.id => x = y
    /\ \A x \in history : x.id <= now
    /\ \A x \in history : x.slip = NoSlip => x.id \notin pending

\* Why the history has no duplicates: the copies that stale writers hold have
\* none either, and pushes are named apart.
HistoryInv ==
    /\ Fits(records, Pending, calls)
    /\ \A r \in Requests : request[r].pc = "merge" => Fits(request[r].held, Pending, calls)
    /\ \A p \in Pages : page[p] # Closed => Fits(page[p].records, Pending, calls)
    /\ \A r \in Requests :
         Pushing(r) => request[r].record.slip = NoSlip /\ request[r].record.id <= calls
    /\ \A r, q \in Requests :
         r # q /\ Pushing(r) /\ Pushing(q) => request[r].record.id # request[q].record.id

\* Time passes, and what is pending was pending or is named since.
LEMMA FitsLater ==
  ASSUME NEW history \in SUBSET Record, NEW P \in SUBSET Nat, NEW Q \in SUBSET Nat,
         NEW n \in Nat, NEW m \in Nat, n <= m,
         \A i \in Q : i \in P \/ i > n,
         Fits(history, P, n)
  PROVE  Fits(history, Q, m)
<1>1. \A x \in history : x.id \in Nat
  BY DEF Record
<1>2. \A x \in history : x.id <= m
  BY <1>1 DEF Fits
<1>3. \A x \in history : x.slip = NoSlip => x.id \notin Q
  BY <1>1 DEF Fits
<1> QED
  BY <1>2, <1>3 DEF Fits

LEMMA FitsPart ==
  ASSUME NEW history, NEW part \in SUBSET history, NEW P, NEW n, Fits(history, P, n)
  PROVE  Fits(part, P, n)
BY DEF Fits

LEMMA PendingType == TypeInv => Pending \in SUBSET Nat
<1> SUFFICES ASSUME TypeInv, NEW r \in Requests, Pushing(r)
             PROVE  request[r].record.id \in Nat
  BY DEF Pending
<1>1. request[r] \in ExpenseCall
  BY SlipCallPc DEF TypeInv, TypeOK, AnyCall, Pushing
<1> QED
  BY <1>1 DEF ExpenseCall, Record

\* What a handler or a page holds.
LEMMA HeldType ==
  ASSUME TypeInv
  PROVE  /\ records \in SUBSET Record
         /\ \A r \in Requests : request[r].pc = "merge" => request[r].held \in SUBSET Record
         /\ \A p \in Pages : page[p] # Closed => page[p].records \in SUBSET Record
<1>1. ASSUME NEW r \in Requests, request[r].pc = "merge"
      PROVE  request[r].held \in SUBSET Record
  <2>1. request[r] \in SlipCall
    BY <1>1, SlipCallPc DEF TypeInv, TypeOK, AnyCall
  <2> QED
    BY <2>1 DEF SlipCall
<1> QED
  BY <1>1, PageType DEF TypeInv, TypeOK

\* A step that keeps every copy it does not drop, lets time pass and names at
\* most new pushes.
HistoryStays ==
    /\ calls' \in Nat /\ calls <= calls'
    /\ Pending' \in SUBSET Nat
    /\ \A i \in Pending' : i \in Pending \/ i > calls

LEMMA StaysFits ==
  ASSUME TypeInv, HistoryStays, NEW history \in SUBSET Record,
         Fits(history, Pending, calls)
  PROVE  Fits(history, Pending', calls')
<1>1. calls \in Nat /\ Pending \in SUBSET Nat
  BY PendingType DEF TypeInv, TypeOK
<1> QED
  BY <1>1, FitsLater DEF HistoryStays

\* r goes on to n, which neither pushes nor merges; nothing else moves.
LEMMA HistoryQuiet ==
  ASSUME TypeInv, TypeInv', HistoryInv, NEW r \in Requests, NEW n,
         n.pc \notin {"push", "merge"}, request' = [request EXCEPT ![r] = n],
         calls' \in {calls, calls + 1}, UNCHANGED <<records, page>>
  PROVE  HistoryInv'
<1>1. \A q \in Requests : request'[q].pc \in {"push", "merge"} => q # r /\ request'[q] = request[q]
  BY DEF TypeInv, TypeOK
<1>2. Pending' \subseteq Pending
  BY <1>1 DEF Pending, Pushing
<1>3. HistoryStays
  BY <1>2, PendingType DEF HistoryStays, TypeInv, TypeOK
<1>4. Fits(records', Pending', calls')
  BY <1>3, StaysFits, HeldType DEF HistoryInv
<1>5. \A q \in Requests : request'[q].pc = "merge" => Fits(request'[q].held, Pending', calls')
  BY <1>1, <1>3, StaysFits, HeldType DEF HistoryInv
<1>6. \A p \in Pages : page'[p] # Closed => Fits(page'[p].records, Pending', calls')
  BY <1>3, StaysFits, HeldType DEF HistoryInv
<1>7. \A q \in Requests :
        Pushing(q)' => request'[q].record.slip = NoSlip /\ request'[q].record.id <= calls'
  <2> SUFFICES ASSUME NEW q \in Requests, Pushing(q)'
               PROVE  request'[q].record.slip = NoSlip /\ request'[q].record.id <= calls'
    OBVIOUS
  <2>1. request'[q] = request[q] /\ Pushing(q)
    BY <1>1 DEF Pushing
  <2>2. request[q].record.id \in Nat
    BY <2>1, PendingType DEF Pending
  <2>3. calls \in Nat
    BY DEF TypeInv, TypeOK
  <2> QED
    BY <2>1, <2>2, <2>3 DEF HistoryInv
<1>8. \A q, o \in Requests :
        q # o /\ Pushing(q)' /\ Pushing(o)' => request'[q].record.id # request'[o].record.id
  BY <1>1 DEF HistoryInv, Pushing
<1> QED
  BY <1>4, <1>5, <1>6, <1>7, <1>8 DEF HistoryInv

LEMMA HistorySyncRead ==
  ASSUME TypeInv, HistoryInv, NEW r \in Requests, SyncRead(r)
  PROVE  HistoryInv'
<1> DEFINE n == [request[r] EXCEPT !.pc = "merge", !.held = records]
<1>1. request[r] \in SlipCall
  BY SlipCallPc DEF SyncRead, TypeInv, TypeOK, AnyCall
<1>2. n.pc = "merge" /\ n.held = records
  BY <1>1 DEF SlipCall
<1>3. request' = [request EXCEPT ![r] = n] /\ UNCHANGED <<records, page, calls>>
  BY DEF SyncRead, employeeVars
<1> HIDE DEF n
<1>4. /\ request'[r] = n
      /\ \A q \in Requests : q # r => request'[q] = request[q]
  BY <1>3 DEF TypeInv, TypeOK
<1>5. ~Pushing(r) /\ \A q \in Requests : Pushing(q)' <=> Pushing(q)
  BY <1>2, <1>4 DEF Pushing, SyncRead
<1>6. Pending' = Pending
  BY <1>4, <1>5 DEF Pending
<1>7. \A q \in Requests : request'[q].pc = "merge" => Fits(request'[q].held, Pending', calls')
  <2> SUFFICES ASSUME NEW q \in Requests, request'[q].pc = "merge"
               PROVE  Fits(request'[q].held, Pending', calls')
    OBVIOUS
  <2>1. CASE q = r
    BY <1>2, <1>3, <1>4, <1>6, <2>1 DEF HistoryInv
  <2>2. CASE q # r
    BY <1>3, <1>4, <1>6, <2>2 DEF HistoryInv
  <2> QED
    BY <2>1, <2>2
<1>8. \A q \in Requests : Pushing(q)' => q # r /\ request'[q] = request[q]
  BY <1>4, <1>5
<1> QED
  BY <1>3, <1>5, <1>6, <1>7, <1>8 DEF HistoryInv

LEMMA HistorySyncWrite ==
  ASSUME TypeInv, TypeInv', HistoryInv, NEW r \in Requests, SyncWrite(r)
  PROVE  HistoryInv'
<1> DEFINE q == request[r]
           n == AfterSync(q)
<1>1. q \in SlipCall /\ q.pc = "merge" /\ q.entry # Absent
  BY SlipCallPc DEF SyncWrite, TypeInv, TypeOK, EntriesInv, AnyCall
<1>2. n.pc \notin {"push", "merge"}
  <2>1. [q EXCEPT !.pc = "earn", !.held = {}].pc = "earn"
    BY <1>1 DEF SlipCall
  <2> QED
    BY <2>1 DEF AfterSync, Idle
<1>3. /\ request' = [request EXCEPT ![r] = n]
      /\ records' = {x \in q.held : x.slip # q.slip} \cup Fresh(q)
      /\ UNCHANGED <<page, calls>>
  BY DEF SyncWrite
<1> HIDE DEF n
<1>4. \A o \in Requests : request'[o].pc \in {"push", "merge"} => o # r /\ request'[o] = request[o]
  BY <1>2, <1>3 DEF TypeInv, TypeOK
<1>5. \A o \in Requests : Pushing(o) => o # r /\ request'[o] = request[o]
  BY <1>1, <1>3 DEF TypeInv, TypeOK, Pushing
<1>6. Pending' = Pending
  BY <1>4, <1>5 DEF Pending, Pushing
<1>7. q.slip \in Slips /\ q.slip # NoSlip
  BY <1>1, NoSlipIsNone DEF SlipCall
<1>8. /\ \A x \in Fresh(q) : x.slip = q.slip /\ x.id = 0
      /\ \A x, y \in Fresh(q) : x = y
  BY DEF Fresh
<1>9. Fits(q.held, Pending, calls)
  BY <1>1 DEF HistoryInv
<1>10. calls \in Nat
  BY DEF TypeInv, TypeOK
<1>11. Fits(records', Pending', calls')
  <2>1. \A x, y \in records' : x.slip = y.slip /\ x.id = y.id => x = y
    BY <1>3, <1>8, <1>9 DEF Fits
  <2>2. \A x \in records' : x.id <= calls'
    BY <1>3, <1>8, <1>9, <1>10 DEF Fits
  <2>3. \A x \in records' : x.slip = NoSlip => x.id \notin Pending'
    BY <1>3, <1>6, <1>7, <1>8, <1>9 DEF Fits
  <2> QED
    BY <2>1, <2>2, <2>3 DEF Fits
<1>12. \A o \in Requests : request'[o].pc = "merge" => Fits(request'[o].held, Pending', calls')
  BY <1>3, <1>4, <1>6 DEF HistoryInv
<1>13. \A o \in Requests : Pushing(o)' => Pushing(o) /\ request'[o] = request[o]
  BY <1>4 DEF Pushing
<1> QED
  BY <1>3, <1>6, <1>11, <1>12, <1>13 DEF HistoryInv

LEMMA HistoryExpenseRead ==
  ASSUME TypeInv, TypeInv', HistoryInv, NEW r \in Requests,
         NEW k \in {"advance", "deduction"}, NEW a \in Amounts, ExpenseRead(r, k, a)
  PROVE  HistoryInv'
<1> DEFINE n == [pc |-> "push", record |-> [slip |-> NoSlip, id |-> calls + 1,
                                            kind |-> k, amount |-> a]]
<1>1. /\ n.pc = "push" /\ n.record.slip = NoSlip /\ n.record.id = calls + 1
      /\ request' = [request EXCEPT ![r] = n]
      /\ calls' = calls + 1 /\ calls \in Nat /\ UNCHANGED <<records, page>>
  BY DEF ExpenseRead, Call, employeeVars, TypeInv, TypeOK
<1> HIDE DEF n
<1>2. /\ request'[r] = n
      /\ \A q \in Requests : q # r => request'[q] = request[q]
  BY <1>1 DEF TypeInv, TypeOK
<1>3. \A i \in Pending' : i \in Pending \/ i = calls + 1
  BY <1>1, <1>2 DEF Pending, Pushing
<1>4. Pending' \in SUBSET Nat
  BY PendingType, <1>1, <1>3
<1>5. HistoryStays
  BY <1>1, <1>3, <1>4 DEF HistoryStays
<1>6. Fits(records', Pending', calls')
  BY <1>1, <1>5, StaysFits, HeldType DEF HistoryInv
<1>7. \A q \in Requests : request'[q].pc = "merge" => Fits(request'[q].held, Pending', calls')
  BY <1>1, <1>2, <1>5, StaysFits, HeldType DEF HistoryInv
<1>8. \A p \in Pages : page'[p] # Closed => Fits(page'[p].records, Pending', calls')
  BY <1>1, <1>5, StaysFits, HeldType DEF HistoryInv
<1>9. \A q \in Requests : Pushing(q) => request[q].record.id \in Nat
  BY PendingType DEF Pending
<1>10. \A q \in Requests :
         Pushing(q)' => \/ q = r /\ request'[q].record.slip = NoSlip
                                 /\ request'[q].record.id = calls + 1
                        \/ q # r /\ Pushing(q) /\ request'[q] = request[q]
  BY <1>1, <1>2 DEF Pushing
<1>11. \A q \in Requests :
         Pushing(q)' => request'[q].record.slip = NoSlip /\ request'[q].record.id <= calls'
  BY <1>1, <1>9, <1>10 DEF HistoryInv
<1>12. \A q, o \in Requests :
         q # o /\ Pushing(q)' /\ Pushing(o)' => request'[q].record.id # request'[o].record.id
  <2> SUFFICES ASSUME NEW q \in Requests, NEW o \in Requests, q # o, Pushing(q)', Pushing(o)'
               PROVE  request'[q].record.id # request'[o].record.id
    OBVIOUS
  <2>1. CASE q = r
    BY <1>1, <1>9, <1>10, <2>1 DEF HistoryInv
  <2>2. CASE o = r
    BY <1>1, <1>9, <1>10, <2>2 DEF HistoryInv
  <2>3. CASE q # r /\ o # r
    BY <1>10, <2>3 DEF HistoryInv
  <2> QED
    BY <2>1, <2>2, <2>3
<1> QED
  BY <1>6, <1>7, <1>8, <1>11, <1>12 DEF HistoryInv

LEMMA HistoryExpensePush ==
  ASSUME TypeInv, TypeInv', HistoryInv, NEW r \in Requests, ExpensePush(r)
  PROVE  HistoryInv'
<1> DEFINE rec == request[r].record
<1>1. /\ Pushing(r) /\ records' = records \cup {rec}
      /\ request' = [request EXCEPT ![r] = Idle] /\ UNCHANGED <<page, calls>>
  BY DEF ExpensePush, Pushing
<1>2. \A q \in Requests : request'[q].pc \in {"push", "merge"} => q # r /\ request'[q] = request[q]
  BY <1>1 DEF TypeInv, TypeOK, Idle
<1>3. rec.slip = NoSlip /\ rec.id <= calls /\ rec.id \in Pending
  BY <1>1 DEF HistoryInv, Pending
<1>4. Pending' \subseteq Pending /\ rec.id \notin Pending'
  BY <1>1, <1>2 DEF Pending, Pushing, HistoryInv
<1>5. HistoryStays
  BY <1>1, <1>4, PendingType DEF HistoryStays, TypeInv, TypeOK
<1>6. Fits(records, Pending', calls')
  BY <1>5, StaysFits, HeldType DEF HistoryInv
<1>7. Fits(records', Pending', calls')
  <2>1. \A x \in records : ~(x.slip = rec.slip /\ x.id = rec.id)
    BY <1>3 DEF HistoryInv, Fits
  <2>2. \A x, y \in records' : x.slip = y.slip /\ x.id = y.id => x = y
    BY <1>1, <1>6, <2>1 DEF Fits
  <2>3. \A x \in records' : x.id <= calls'
    BY <1>1, <1>3, <1>6 DEF Fits
  <2>4. \A x \in records' : x.slip = NoSlip => x.id \notin Pending'
    BY <1>1, <1>4, <1>6 DEF Fits
  <2> QED
    BY <2>2, <2>3, <2>4 DEF Fits
<1>8. \A q \in Requests : request'[q].pc = "merge" => Fits(request'[q].held, Pending', calls')
  BY <1>2, <1>5, StaysFits, HeldType DEF HistoryInv
<1>9. \A p \in Pages : page'[p] # Closed => Fits(page'[p].records, Pending', calls')
  BY <1>1, <1>5, StaysFits, HeldType DEF HistoryInv
<1>10. \A q \in Requests : Pushing(q)' => Pushing(q) /\ request'[q] = request[q]
  BY <1>2 DEF Pushing
<1> QED
  BY <1>1, <1>7, <1>8, <1>9, <1>10 DEF HistoryInv

LEMMA AfterQuiet ==
  ASSUME NEW q \in SlipCall
  PROVE  /\ AfterWrite(q).pc \notin {"push", "merge"}
         /\ AfterEarn(q).pc \notin {"push", "merge"}
         /\ AfterSync(q).pc \notin {"push", "merge"}
<1>1. AfterWrite(q).pc \notin {"push", "merge"}
  BY DEF AfterWrite, SlipCall
<1>2. AfterEarn(q).pc \notin {"push", "merge"}
  BY DEF AfterEarn, SlipCall, Idle
<1>3. [q EXCEPT !.pc = "earn", !.held = {}].pc = "earn"
  BY DEF SlipCall
<1>4. AfterSync(q).pc \notin {"push", "merge"}
  BY <1>3 DEF AfterSync, Idle
<1> QED
  BY <1>1, <1>2, <1>4

\* The steps of a handler that neither push, merge nor begin to.
QuietNext(r) ==
    /\ request[r].pc # "push" \/ request' = [request EXCEPT ![r] = Idle]
    /\ \E n : n.pc \notin {"push", "merge"} /\ request' = [request EXCEPT ![r] = n]
    /\ calls' \in {calls, calls + 1}
    /\ UNCHANGED <<records, page>>

LEMMA QuietSteps ==
  ASSUME TypeInv, NEW r \in Requests, RequestNext(r)
  PROVE  \/ SyncRead(r) \/ SyncWrite(r) \/ ExpensePush(r)
         \/ \E k \in {"advance", "deduction"}, a \in Amounts : ExpenseRead(r, k, a)
         \/ QuietNext(r)
<1> DEFINE q == request[r]
<1>s. q.pc \in {"number", "insert", "save", "earn", "sync", "merge"} => q \in SlipCall
  BY SlipCallPc DEF TypeInv, TypeOK, AnyCall
<1>i. Idle.pc = "idle"
  BY DEF Idle
<1>1. ASSUME NEW s \in Slips, NEW f \in Figures, NEW e \in Entries, CreateRead(r, s, f, e)
      PROVE  QuietNext(r)
  <2>1. \A new, entry : Started("create", s, NoDocument, new, entry, "number").pc = "number"
    BY DEF Started
  <2>2. PICK n : n.pc = "number" /\ request' = [request EXCEPT ![r] = n]
    BY <1>1, <2>1 DEF CreateRead
  <2>3. q.pc = "idle" /\ calls' = calls + 1 /\ UNCHANGED <<records, page>>
    BY <1>1, <1>i DEF CreateRead, Call, employeeVars
  <2> QED
    BY <2>2, <2>3 DEF QuietNext
<1>2. ASSUME NEW s \in Slips, NEW f \in Figures, NEW e \in Entries, UpdateRead(r, s, f, e)
      PROVE  QuietNext(r)
  <2>1. PICK n : n.pc = "save" /\ request' = [request EXCEPT ![r] = n]
    BY <1>2 DEF UpdateRead, Started
  <2>2. q.pc = "idle" /\ calls' = calls + 1 /\ UNCHANGED <<records, page>>
    BY <1>2, <1>i DEF UpdateRead, Call, employeeVars
  <2> QED
    BY <2>1, <2>2 DEF QuietNext
<1>9. ASSUME NEW s \in Slips, NEW a \in Amounts, DeductRead(r, s, a) PROVE QuietNext(r)
  <2>1. PICK n : n.pc = "save" /\ request' = [request EXCEPT ![r] = n]
    BY <1>9 DEF DeductRead, Started
  <2>2. q.pc = "idle" /\ calls' = calls + 1 /\ UNCHANGED <<records, page>>
    BY <1>9, <1>i DEF DeductRead, Call, employeeVars
  <2> QED
    BY <2>1, <2>2 DEF QuietNext
<1>3. CASE CreateNumber(r)
  <2> DEFINE n == [q EXCEPT !.pc = "insert", !.new.number = counter + 1]
  <2>1. n.pc = "insert"
    BY <1>3, <1>s DEF CreateNumber, SlipCall
  <2> HIDE DEF n
  <2>2. \/ request' = [request EXCEPT ![r] = n]
        \/ request' = [request EXCEPT ![r] = Idle]
    BY <1>3 DEF CreateNumber, n
  <2> QED
    BY <1>3, <1>i, <2>1, <2>2 DEF CreateNumber, QuietNext, employeeVars
<1>4. CASE CreateInsert(r)
  <2>1. PICK n : n.pc \notin {"push", "merge"} /\ request' = [request EXCEPT ![r] = n]
    BY <1>4, <1>s, <1>i, AfterQuiet DEF CreateInsert
  <2> QED
    BY <1>4, <2>1 DEF CreateInsert, QuietNext, employeeVars
<1>5. CASE Save(r)
  <2>1. PICK n : n.pc \notin {"push", "merge"} /\ request' = [request EXCEPT ![r] = n]
    BY <1>5, <1>s, AfterQuiet DEF Save
  <2> QED
    BY <1>5, <2>1 DEF Save, QuietNext, employeeVars
<1>6. CASE Earn(r)
  <2>1. PICK n : n.pc \notin {"push", "merge"} /\ request' = [request EXCEPT ![r] = n]
    BY <1>6, <1>s, AfterQuiet DEF Earn
  <2> QED
    BY <1>6, <2>1 DEF Earn, QuietNext
<1>7. CASE SyncFails(r)
  <2>1. PICK n : n.pc \notin {"push", "merge"} /\ request' = [request EXCEPT ![r] = n]
    BY <1>7, <1>s, AfterQuiet DEF SyncFails
  <2> QED
    BY <1>7, <2>1 DEF SyncFails, QuietNext, employeeVars
<1>8. CASE RequestDies(r)
  BY <1>8, <1>i DEF RequestDies, QuietNext, employeeVars
<1> QED
  BY <1>1, <1>2, <1>3, <1>4, <1>5, <1>6, <1>7, <1>8, <1>9 DEF RequestNext

LEMMA HistoryRequest ==
  ASSUME TypeInv, TypeInv', HistoryInv, NEW r \in Requests, RequestNext(r)
  PROVE  HistoryInv'
<1>1. CASE QuietNext(r)
  BY <1>1, HistoryQuiet DEF QuietNext
<1> QED
  BY <1>1, QuietSteps, HistorySyncRead, HistorySyncWrite, HistoryExpenseRead, HistoryExpensePush

LEMMA HistoryPageLoad ==
  ASSUME TypeInv, HistoryInv, NEW p \in Pages, PageLoad(p)
  PROVE  HistoryInv'
<1>1. Pending' = Pending /\ UNCHANGED <<records, request, calls>>
  BY DEF PageLoad, Pending, Pushing, employeeVars
<1>2. \A o \in Pages : \/ page'[o] = page[o]
                       \/ page'[o].records = records
  BY DEF PageLoad, TypeInv, TypeOK
<1>3. \A o \in Pages : page'[o] # Closed => Fits(page'[o].records, Pending', calls')
  BY <1>1, <1>2 DEF HistoryInv
<1> QED
  BY <1>1, <1>3 DEF HistoryInv, Pushing

\* A page closes, and the history is what it sent.
LEMMA HistoryReplace ==
  ASSUME TypeInv, TypeInv', HistoryInv, NEW p \in Pages, NEW history \in SUBSET Record, NEW sum,
         Fits(history, Pending, calls), ReplaceExpenses(p, history, sum)
  PROVE  HistoryInv'
<1>1. /\ Pending' = Pending /\ request' = request /\ records' = history
      /\ calls' = calls + 1 /\ calls \in Nat
  BY DEF ReplaceExpenses, Call, Pending, Pushing, TypeInv, TypeOK
<1>2. HistoryStays
  BY <1>1, PendingType DEF HistoryStays
<1>3. Fits(records', Pending', calls')
  BY <1>1, <1>2, StaysFits
<1>4. \A r \in Requests : request'[r].pc = "merge" => Fits(request'[r].held, Pending', calls')
  BY <1>1, <1>2, StaysFits, HeldType DEF HistoryInv
<1>5. \A o \in Pages : page'[o] # Closed => page'[o] = page[o]
  BY DEF ReplaceExpenses, TypeInv, TypeOK
<1>6. \A o \in Pages : page'[o] # Closed => Fits(page'[o].records, Pending', calls')
  BY <1>2, <1>5, StaysFits, HeldType DEF HistoryInv
<1>7. \A r \in Requests : Pushing(r) => request[r].record.id \in Nat
  BY PendingType DEF Pending
<1>8. \A r \in Requests :
        Pushing(r)' => request'[r].record.slip = NoSlip /\ request'[r].record.id <= calls'
  BY <1>1, <1>7 DEF HistoryInv, Pushing
<1> QED
  BY <1>1, <1>3, <1>4, <1>6, <1>8 DEF HistoryInv, Pushing

LEMMA HistoryPage ==
  ASSUME TypeInv, TypeInv', HistoryInv, NEW p \in Pages, PageNext(p)
  PROVE  HistoryInv'
<1>h. page[p] # Closed => /\ page[p].records \in SUBSET Record
                          /\ Fits(page[p].records, Pending, calls)
  BY HeldType DEF HistoryInv
<1>1. ASSUME NEW x \in Record, DeleteExpense(p, x) PROVE HistoryInv'
  <2>1. page[p].records \ {x} \in SUBSET Record /\ page[p].records \ {x} \in SUBSET page[p].records
    BY <1>1, <1>h DEF DeleteExpense
  <2>2. Fits(page[p].records \ {x}, Pending, calls)
    BY <1>1, <1>h, <2>1, FitsPart DEF DeleteExpense
  <2> QED
    BY <1>1, <2>1, <2>2, HistoryReplace DEF DeleteExpense
<1>2. ASSUME NEW x \in Record, NEW k \in {"advance", "deduction"}, NEW a \in Int,
             EditExpense(p, x, k, a)
      PROVE  HistoryInv'
  <2> DEFINE y == [x EXCEPT !.kind = k, !.amount = a]
             history == (page[p].records \ {x}) \cup {y}
  <2>1. y \in Record /\ y.slip = x.slip /\ y.id = x.id
    BY EditedType
  <2>2. ReplaceExpenses(p, history, 0) /\ page[p] # Closed /\ x \in page[p].records
    BY <1>2 DEF EditExpense
  <2> HIDE DEF y
  <2>3. history \in SUBSET Record
    BY <1>h, <2>1, <2>2
  <2>4. Fits(history, Pending, calls)
    BY <1>h, <2>1, <2>2 DEF Fits
  <2> HIDE DEF history
  <2> QED
    BY <2>2, <2>3, <2>4, HistoryReplace
<1>3. ASSUME NEW a \in Int, SaveCategories(p, a) PROVE HistoryInv'
  BY <1>3, <1>h, HistoryReplace DEF SaveCategories
<1> QED
  BY <1>1, <1>2, <1>3, HistoryPageLoad, PageCases

LEMMA HistoryInit == Init => HistoryInv
<1> SUFFICES ASSUME Init PROVE HistoryInv
  OBVIOUS
<1>1. \A r \in Requests : request[r].pc = "idle"
  BY DEF Init, Idle
<1>2. records = {} /\ \A p \in Pages : page[p] = Closed
  BY DEF Init
<1> QED
  BY <1>1, <1>2 DEF HistoryInv, Fits, Pushing

LEMMA HistoryStep == TypeInv /\ HistoryInv /\ [Next]_vars => HistoryInv'
<1>1. ASSUME TypeInv, HistoryInv, UNCHANGED vars PROVE HistoryInv'
  BY <1>1 DEF HistoryInv, Pending, Pushing, vars
<1> QED
  BY <1>1, HistoryRequest, HistoryPage, TypeStep DEF Next

\* The expense history never holds two copies of a record, however many
\* handlers mirror, push and replace it from copies they read before.
THEOREM NoDuplicates == Spec => []NoDuplicateHistory
<1>1. Spec => [](TypeInv /\ HistoryInv)
  BY TypeInit, TypeStep, HistoryInit, HistoryStep, PTL DEF Spec
<1>2. HistoryInv => NoDuplicateHistory
  BY DEF HistoryInv, Fits, NoDuplicateHistory
<1> QED
  BY <1>1, <1>2, PTL

-----------------------------------------------------------------------------
(* Sums. A fold is a recursive function, which is well defined on the        *)
(* subsets of a finite set; what is true of it is proved by descent.         *)

\* The element that the sum takes off a set next.
Pick(T) == CHOOSE x \in T : TRUE

\* g is the sum of w over T, given the sums over smaller sets.
SumAt(g, w, T) == g[T] = IF T = {} THEN 0 ELSE w[Pick(T)] + g[T \ {Pick(T)}]

\* The recursive function behind SumOf.
Sums(w, S) == CHOOSE g : g = [T \in SUBSET S |->
                IF T = {} THEN 0 ELSE w[Pick(T)] + g[T \ {Pick(T)}]]

\* A set of naturals has a least element.
LEMMA Least ==
  ASSUME NEW N, N \subseteq Nat, N # {}
  PROVE  \E n \in N : \A m \in N : n <= m
<1>1. PICK n \in N : \A m \in N : <<m, n>> \notin OpToRel(<, Nat)
  BY WFMin, NatLessThanWellFounded, Zenon
<1>2. ASSUME NEW m \in N PROVE n <= m
  <2>1. m \in Nat /\ n \in Nat
    OBVIOUS
  <2>2. ~(m < n)
    BY <1>1, <2>1, Zenon DEF OpToRel
  <2>3. QED
    BY <2>1, <2>2
<1>3. QED
  BY <1>2

\* Descent: a set of naturals that holds a smaller one for each it holds is
\* empty.
LEMMA Descent ==
  ASSUME NEW N, N \subseteq Nat, \A n \in N : n > 0 /\ n - 1 \in N
  PROVE  N = {}
<1>1. SUFFICES ASSUME N # {} PROVE FALSE
  BY Zenon
<1>2. PICK n \in N : \A m \in N : n <= m
  BY <1>1, Least
<1>3. n \in Nat /\ n - 1 \in N
  OBVIOUS
<1>4. QED
  BY <1>2, <1>3

\* Taking the next element off leaves a smaller set.
LEMMA PickSmaller ==
  ASSUME NEW S, IsFiniteSet(S), NEW T \in SUBSET S, T # {}
  PROVE  /\ Pick(T) \in T /\ T \ {Pick(T)} \in SUBSET S
         /\ Cardinality(T) \in Nat
         /\ Cardinality(T \ {Pick(T)}) = Cardinality(T) - 1
         /\ Cardinality(T) > 0
<1>1. Pick(T) \in T
  BY DEF Pick
<1>2. IsFiniteSet(T)
  BY FS_Subset
<1>3. Cardinality(T) \in Nat
  BY <1>2, FS_CardinalityType
<1>4. Cardinality(T) # 0
  BY <1>2, FS_EmptySet
<1>5. Cardinality(T \ {Pick(T)}) = Cardinality(T) - 1
  BY <1>1, <1>2, FS_RemoveElement
<1>6. QED
  BY <1>1, <1>3, <1>4, <1>5

\* Descent over the subsets of a finite set.
LEMMA SubsetDescent ==
  ASSUME NEW S, IsFiniteSet(S), NEW B, B \subseteq SUBSET S,
         \A T \in B : T # {} /\ T \ {Pick(T)} \in B
  PROVE  B = {}
<1> DEFINE Sizes == {n \in Nat : \E T \in B : Cardinality(T) = n}
<1>1. ASSUME NEW n \in Sizes PROVE n > 0 /\ n - 1 \in Sizes
  <2>1. PICK T \in B : Cardinality(T) = n
    OBVIOUS
  <2>2. T \in SUBSET S /\ T # {} /\ T \ {Pick(T)} \in B
    OBVIOUS
  <2>3. Cardinality(T \ {Pick(T)}) = n - 1 /\ n > 0
    BY <2>1, <2>2, PickSmaller
  <2>4. n - 1 \in Nat
    BY <2>3
  <2>5. QED
    BY <2>2, <2>3, <2>4
<1>2. Sizes = {}
  <2>1. Sizes \subseteq Nat
    OBVIOUS
  <2> HIDE DEF Sizes
  <2>2. QED
    BY <1>1, <2>1, Descent
<1>3. ASSUME NEW T \in B PROVE FALSE
  <2>1. T \in SUBSET S
    OBVIOUS
  <2>2. Cardinality(T) \in Nat
    BY <2>1, FS_Subset, FS_CardinalityType
  <2>3. QED
    BY <1>2, <2>2
<1>4. QED
  BY <1>3

\* The sums over the subsets of at most n elements.
SummedTo(g, w, S, n) ==
  \A T \in SUBSET S : Cardinality(T) <= n => SumAt(g, w, T)

\* There are such sums.
Summable(w, S, n) == \E g \in [SUBSET S -> Int] : SummedTo(g, w, S, n)

LEMMA SummedFurther ==
  ASSUME NEW S, IsFiniteSet(S), NEW w \in [S -> Int], NEW n \in Nat,
         Summable(w, S, n)
  PROVE  Summable(w, S, n + 1)
<1> PICK g \in [SUBSET S -> Int] : SummedTo(g, w, S, n)
  BY DEF Summable
<1> DEFINE h == [T \in SUBSET S |-> IF Cardinality(T) = n + 1
                                    THEN w[Pick(T)] + g[T \ {Pick(T)}] ELSE g[T]]
<1>0. ASSUME NEW T \in SUBSET S PROVE Cardinality(T) \in Nat /\ (Cardinality(T) = 0 <=> T = {})
  BY FS_Subset, FS_CardinalityType, FS_EmptySet
<1>1. h \in [SUBSET S -> Int]
  <2>1. ASSUME NEW T \in SUBSET S, Cardinality(T) = n + 1 PROVE w[Pick(T)] + g[T \ {Pick(T)}] \in Int
    <3>1. T # {}
      BY <1>0, <2>1
    <3>2. Pick(T) \in S /\ T \ {Pick(T)} \in SUBSET S
      BY <3>1, PickSmaller
    <3>3. QED
      BY <3>2
  <2>2. QED
    BY <2>1
<1>2. ASSUME NEW T \in SUBSET S, Cardinality(T) <= n + 1 PROVE SumAt(h, w, T)
  <2>1. CASE T = {}
    <3>1. Cardinality(T) = 0
      BY <2>1, <1>0
    <3>2. g[T] = 0
      BY <3>1, <2>1 DEF SummedTo, SumAt
    <3>3. QED
      BY <3>1, <3>2, <2>1 DEF SumAt
  <2>2. CASE T # {}
    <3>1. /\ Pick(T) \in T /\ T \ {Pick(T)} \in SUBSET S
          /\ Cardinality(T) \in Nat
          /\ Cardinality(T \ {Pick(T)}) = Cardinality(T) - 1
      BY <2>2, PickSmaller
    <3>2. h[T \ {Pick(T)}] = g[T \ {Pick(T)}]
      <4>1. Cardinality(T \ {Pick(T)}) # n + 1
        BY <3>1, <1>2
      <4>2. QED
        BY <3>1, <4>1
    <3>3. h[T] = w[Pick(T)] + g[T \ {Pick(T)}]
      <4>1. CASE Cardinality(T) = n + 1
        BY <4>1
      <4>2. CASE Cardinality(T) <= n
        <5>1. g[T] = w[Pick(T)] + g[T \ {Pick(T)}]
          BY <4>2, <2>2 DEF SummedTo, SumAt
        <5>2. h[T] = g[T]
          BY <4>2, <3>1
        <5>3. QED
          BY <5>1, <5>2
      <4>3. QED
        BY <1>2, <3>1, <4>1, <4>2
    <3>4. QED
      BY <2>2, <3>2, <3>3 DEF SumAt
  <2>3. QED
    BY <2>1, <2>2
<1>3. SummedTo(h, w, S, n + 1)
  BY <1>2 DEF SummedTo
<1>4. QED
  BY <1>1, <1>3 DEF Summable

LEMMA Summed ==
  ASSUME NEW S, IsFiniteSet(S), NEW w \in [S -> Int], NEW k \in Nat
  PROVE  Summable(w, S, k)
<1> DEFINE Bad == {n \in Nat : ~Summable(w, S, n)}
<1>1. Summable(w, S, 0)
  <2> DEFINE zero == [T \in SUBSET S |-> 0]
  <2>1. ASSUME NEW T \in SUBSET S, Cardinality(T) <= 0 PROVE T = {}
    <3>1. IsFiniteSet(T) /\ Cardinality(T) \in Nat
      BY FS_Subset, FS_CardinalityType
    <3>2. QED
      BY <2>1, <3>1, FS_EmptySet
  <2>2. SummedTo(zero, w, S, 0)
    BY <2>1 DEF SummedTo, SumAt
  <2>3. zero \in [SUBSET S -> Int]
    OBVIOUS
  <2>4. QED
    BY <2>2, <2>3 DEF Summable
<1>2. ASSUME NEW n \in Bad PROVE n > 0 /\ n - 1 \in Bad
  <2>1. n \in Nat /\ n # 0
    BY <1>1
  <2>2. n - 1 \in Nat /\ (n - 1) + 1 = n
    BY <2>1
  <2>3. ~Summable(w, S, n - 1)
    BY <2>2, SummedFurther
  <2>4. QED
    BY <2>1, <2>2, <2>3
<1>3. Bad = {}
  <2>1. Bad \subseteq Nat
    OBVIOUS
  <2> HIDE DEF Bad
  <2>2. QED
    BY <1>2, <2>1, Descent
<1>4. QED
  BY <1>3

\* The recursive function is what its equation says.
LEMMA SumsEquation ==
  ASSUME NEW S, IsFiniteSet(S), NEW w \in [S -> Int], NEW T \in SUBSET S
  PROVE  SumAt(Sums(w, S), w, T)
<1>1. Cardinality(S) \in Nat
  BY FS_CardinalityType
<1>2. PICK g \in [SUBSET S -> Int] : SummedTo(g, w, S, Cardinality(S))
  BY <1>1, Summed DEF Summable
<1>3. ASSUME NEW U \in SUBSET S PROVE SumAt(g, w, U)
  <2>1. Cardinality(U) <= Cardinality(S)
    BY FS_Subset
  <2>2. QED
    BY <1>2, <2>1 DEF SummedTo
<1>4. g = [U \in SUBSET S |-> IF U = {} THEN 0 ELSE w[Pick(U)] + g[U \ {Pick(U)}]]
  BY <1>3 DEF SumAt
<1>5. Sums(w, S) = [U \in SUBSET S |-> IF U = {} THEN 0
                      ELSE w[Pick(U)] + Sums(w, S)[U \ {Pick(U)}]]
  BY <1>4, Zenon DEF Sums
<1>6. QED
  BY <1>5, Zenon DEF SumAt

LEMMA SumsInt ==
  ASSUME NEW S, IsFiniteSet(S), NEW w \in [S -> Int], NEW T \in SUBSET S
  PROVE  Sums(w, S)[T] \in Int
<1> DEFINE f == Sums(w, S)
           Bad == {U \in SUBSET S : f[U] \notin Int}
<1>1. ASSUME NEW U \in SUBSET S PROVE SumAt(f, w, U)
  BY SumsEquation
<1> HIDE DEF f
<1>2. ASSUME NEW U \in Bad PROVE U # {} /\ U \ {Pick(U)} \in Bad
  <2>1. U # {}
    <3>1. f[{}] = 0
      BY <1>1 DEF SumAt
    <3>2. QED
      BY <3>1
  <2>2. w[Pick(U)] \in Int /\ U \ {Pick(U)} \in SUBSET S
    BY <2>1, PickSmaller
  <2>3. f[U] = w[Pick(U)] + f[U \ {Pick(U)}]
    BY <1>1, <2>1 DEF SumAt
  <2>4. QED
    BY <2>1, <2>2, <2>3
<1>3. Bad = {}
  <2>1. Bad \subseteq SUBSET S
    OBVIOUS
  <2> HIDE DEF Bad
  <2>2. QED
    BY <1>2, <2>1, SubsetDescent
<1>4. QED
  BY <1>3 DEF f

LEMMA SumIsSums ==
  ASSUME NEW S, NEW w \in [S -> Int]
  PROVE  SumOf(w) = Sums(w, S)[S]
BY SMT DEF SumOf, MapThenSumSet, MapThenFoldSet, Sums, Pick

LEMMA SumInt ==
  ASSUME NEW S, IsFiniteSet(S), NEW w \in [S -> Int]
  PROVE  SumOf(w) \in Int
BY SumIsSums, SumsInt

\* A sum that changes in one place changes by the difference there.
LEMMA SumChange ==
  ASSUME NEW S, IsFiniteSet(S), NEW w \in [S -> Int], NEW v \in [S -> Int], NEW s \in S,
         \A x \in S : x # s => v[x] = w[x]
  PROVE  SumOf(v) = SumOf(w) + v[s] - w[s]
<1> DEFINE a == Sums(v, S)
           b == Sums(w, S)
           d(T) == IF s \in T THEN v[s] - w[s] ELSE 0
           Bad == {T \in SUBSET S : a[T] # b[T] + d(T)}
<1>1. ASSUME NEW T \in SUBSET S
      PROVE  SumAt(a, v, T) /\ SumAt(b, w, T) /\ a[T] \in Int /\ b[T] \in Int
  BY SumsEquation, SumsInt
<1>2. v[s] \in Int /\ w[s] \in Int
  OBVIOUS
<1> HIDE DEF a, b
<1>3. ASSUME NEW T \in Bad PROVE T # {} /\ T \ {Pick(T)} \in Bad
  <2>1. T # {}
    <3>1. a[{}] = 0 /\ b[{}] = 0
      BY <1>1 DEF SumAt
    <3>2. d({}) = 0
      OBVIOUS
    <3>3. {} \notin Bad
      <4> HIDE DEF d
      <4>1. QED
        BY <3>1, <3>2
    <3>4. QED
      BY <3>3
  <2> DEFINE x == Pick(T)
             R == T \ {Pick(T)}
  <2>2. x \in T /\ R \in SUBSET S
    BY <2>1, PickSmaller
  <2>3. a[T] = v[x] + a[R] /\ b[T] = w[x] + b[R]
    BY <1>1, <2>1 DEF SumAt
  <2>4. a[R] \in Int /\ b[R] \in Int /\ v[x] \in Int /\ w[x] \in Int
    BY <1>1, <2>2
  <2>5. v[x] - w[x] + d(R) = d(T)
    BY <1>2, <2>2, <2>4
  <2> HIDE DEF x, R, d
  <2>6. d(R) \in Int
    BY <1>2 DEF d
  <2>7. a[R] # b[R] + d(R)
    BY <2>3, <2>4, <2>5, <2>6
  <2>8. QED
    BY <2>1, <2>2, <2>7 DEF R
<1>4. Bad = {}
  <2>1. Bad \subseteq SUBSET S
    OBVIOUS
  <2> HIDE DEF Bad
  <2>2. QED
    BY <1>3, <2>1, SubsetDescent
<1>5. a[S] = b[S] + v[s] - w[s]
  BY <1>1, <1>2, <1>4
<1>6. QED
  BY <1>5, SumIsSums DEF a, b

\* A sum of zeros is zero.
LEMMA SumZero ==
  ASSUME NEW S, IsFiniteSet(S), NEW w \in [S -> Int], \A x \in S : w[x] = 0
  PROVE  SumOf(w) = 0
<1> DEFINE f == Sums(w, S)
           Bad == {T \in SUBSET S : f[T] # 0}
<1>1. ASSUME NEW T \in SUBSET S PROVE SumAt(f, w, T)
  BY SumsEquation
<1> HIDE DEF f
<1>2. ASSUME NEW T \in Bad PROVE T # {} /\ T \ {Pick(T)} \in Bad
  <2>1. T # {}
    BY <1>1 DEF SumAt
  <2>2. w[Pick(T)] = 0 /\ T \ {Pick(T)} \in SUBSET S
    BY <2>1, PickSmaller
  <2>3. f[T] = w[Pick(T)] + f[T \ {Pick(T)}]
    BY <1>1, <2>1 DEF SumAt
  <2>4. QED
    BY <2>1, <2>2, <2>3
<1>3. Bad = {}
  <2>1. Bad \subseteq SUBSET S
    OBVIOUS
  <2> HIDE DEF Bad
  <2>2. QED
    BY <1>2, <2>1, SubsetDescent
<1>4. QED
  BY <1>3, SumIsSums DEF f

-----------------------------------------------------------------------------
(* The running total                                                       *)

\* A handler that has written its slip and has still to add to the total, and
\* what it will add.
Owing(q) == q.pc = "earn" \/ (q.pc \in {"sync", "merge"} /\ q.op = "create")
Due(q) == IF Owing(q) THEN q.new.net - q.read.net ELSE 0

NetTotal(documents) == SumOf([s \in Slips |-> documents[s].net])
DueTotal(handlers) == SumOf([r \in Requests |-> Due(handlers[r])])

\* The slips' net amounts are what has been added and what is still due.
Balanced == NetTotal(slips) = earned + DueTotal(request)

\* A creation read no document; an edit is of a slip that is there.
Shaped(q) ==
    /\ q.pc \in {"number", "insert"} => q.op = "create"
    /\ q.pc = "save" => q.op # "create"
    /\ q \in SlipCall /\ q.op = "create" => q.read.net = 0
ShapeInv ==
    /\ \A r \in Requests : Shaped(request[r])
    /\ \A r \in Requests : request[r].pc = "save" => Exists(request[r].slip)
    /\ \A s \in Slips : ~Exists(s) => slips[s].net = 0

\* No edit works on a net amount that another has replaced.
FreshEdits ==
    \A r \in Requests :
      request[r].pc = "save" => request[r].read.net = slips[request[r].slip].net

\* No handler dies while it owes the total something.
NoneDiesOwing == [][\A r \in Requests : Due(request[r]) # 0 => ~RequestDies(r)]_vars

LEMMA DueInt ==
  ASSUME NEW q \in AnyCall
  PROVE  Due(q) \in Int
<1>1. CASE Owing(q)
  <2>1. q \in SlipCall
    BY <1>1, SlipCallPc DEF Owing
  <2>2. q.new.net \in Int /\ q.read.net \in Int
    BY <2>1 DEF SlipCall, Slip
  <2> QED
    BY <1>1, <2>2 DEF Due
<1>2. CASE ~Owing(q)
  BY <1>2 DEF Due
<1> QED
  BY <1>1, <1>2

\* What a handler owes before and after each of its steps.
LEMMA DueAfter ==
  ASSUME NEW q \in SlipCall
  PROVE  /\ Due(AfterWrite(q)) = q.new.net - q.read.net
         /\ Due(AfterEarn(q)) = 0
         /\ q.pc \in {"sync", "merge"} => Due(AfterSync(q)) = Due(q)
<1>1. Due(AfterWrite(q)) = q.new.net - q.read.net
  BY DEF AfterWrite, Due, Owing, SlipCall
<1>2. Due(AfterEarn(q)) = 0
  <2>1. CASE q.op # "create" /\ q.entry # Absent
    <3>1. AfterEarn(q).pc = "sync" /\ AfterEarn(q).op # "create"
      BY <2>1 DEF AfterEarn, SlipCall
    <3> QED
      BY <3>1 DEF Due, Owing
  <2>2. CASE ~(q.op # "create" /\ q.entry # Absent)
    BY <2>2 DEF AfterEarn, Due, Owing, Idle
  <2> QED
    BY <2>1, <2>2
<1>3. ASSUME q.pc \in {"sync", "merge"} PROVE Due(AfterSync(q)) = Due(q)
  <2>1. CASE q.op = "create"
    <3> DEFINE n == [q EXCEPT !.pc = "earn", !.held = {}]
    <3>1. n.pc = "earn" /\ n.new = q.new /\ n.read = q.read
      BY DEF SlipCall
    <3>2. AfterSync(q) = n
      BY <2>1 DEF AfterSync
    <3> HIDE DEF n
    <3> QED
      BY <1>3, <2>1, <3>1, <3>2 DEF Due, Owing
  <2>2. CASE q.op # "create"
    BY <1>3, <2>2 DEF AfterSync, Due, Owing, Idle
  <2> QED
    BY <2>1, <2>2
<1> QED
  BY <1>1, <1>2, <1>3

LEMMA ShapedAfter ==
  ASSUME NEW q \in SlipCall, Shaped(q)
  PROVE  Shaped(AfterWrite(q)) /\ Shaped(AfterEarn(q)) /\ Shaped(AfterSync(q))
<1>1. Shaped(Idle)
  BY DEF Shaped, Idle, SlipCall
<1>2. Shaped(AfterWrite(q))
  BY DEF AfterWrite, Shaped, SlipCall
<1>3. Shaped(AfterEarn(q))
  <2>1. Shaped([q EXCEPT !.pc = "sync"])
    BY DEF Shaped, SlipCall
  <2> QED
    BY <1>1, <2>1 DEF AfterEarn
<1>4. Shaped(AfterSync(q))
  <2> DEFINE n == [q EXCEPT !.pc = "earn", !.held = {}]
  <2>1. n.pc = "earn" /\ n.op = q.op /\ n.read = q.read
    BY DEF SlipCall
  <2>2. AfterSync(q) = n \/ AfterSync(q) = Idle
    BY DEF AfterSync
  <2> HIDE DEF n
  <2>3. Shaped(n)
    BY <2>1 DEF Shaped
  <2> QED
    BY <1>1, <2>2, <2>3
<1> QED
  BY <1>2, <1>3, <1>4

LEMMA NetChange ==
  ASSUME NEW d \in [Slips -> Slip], NEW e \in [Slips -> Slip], NEW s \in Slips,
         \A x \in Slips : x # s => e[x].net = d[x].net
  PROVE  NetTotal(e) = NetTotal(d) + e[s].net - d[s].net
<1> DEFINE w == [x \in Slips |-> d[x].net]
           v == [x \in Slips |-> e[x].net]
<1>1. w \in [Slips -> Int] /\ v \in [Slips -> Int]
  BY DEF Slip
<1>2. \A x \in Slips : x # s => v[x] = w[x]
  OBVIOUS
<1>3. v[s] = e[s].net /\ w[s] = d[s].net
  OBVIOUS
<1>4. NetTotal(e) = SumOf(v) /\ NetTotal(d) = SumOf(w)
  BY DEF NetTotal
<1> HIDE DEF v, w
<1>5. SumOf(v) = SumOf(w) + v[s] - w[s]
  BY <1>1, <1>2, SlipsFinite, SumChange
<1> QED
  BY <1>3, <1>4, <1>5

LEMMA DueChange ==
  ASSUME NEW p \in [Requests -> AnyCall], NEW r \in Requests, NEW n \in AnyCall
  PROVE  DueTotal([p EXCEPT ![r] = n]) = DueTotal(p) + Due(n) - Due(p[r])
<1> DEFINE o == [p EXCEPT ![r] = n]
           w == [x \in Requests |-> Due(p[x])]
           v == [x \in Requests |-> Due(o[x])]
<1>1. w \in [Requests -> Int] /\ v \in [Requests -> Int]
  BY DueInt
<1>2. \A x \in Requests : x # r => v[x] = w[x]
  OBVIOUS
<1>3. v[r] = Due(n) /\ w[r] = Due(p[r])
  OBVIOUS
<1>4. DueTotal(o) = SumOf(v) /\ DueTotal(p) = SumOf(w)
  BY DEF DueTotal
<1> HIDE DEF v, w
<1>5. SumOf(v) = SumOf(w) + v[r] - w[r]
  BY <1>1, <1>2, RequestsFinite, SumChange
<1> QED
  BY <1>3, <1>4, <1>5

LEMMA TotalsInt ==
  ASSUME TypeInv
  PROVE  NetTotal(slips) \in Int /\ DueTotal(request) \in Int /\ earned \in Int
<1>1. [s \in Slips |-> slips[s].net] \in [Slips -> Int]
  BY DEF TypeInv, TypeOK, Slip
<1>2. [r \in Requests |-> Due(request[r])] \in [Requests -> Int]
  BY DueInt DEF TypeInv, TypeOK, AnyCall
<1>3. NetTotal(slips) \in Int
  BY <1>1, SlipsFinite, SumInt DEF NetTotal
<1>4. DueTotal(request) \in Int
  BY <1>2, RequestsFinite, SumInt DEF DueTotal
<1> QED
  BY <1>3, <1>4 DEF TypeInv, TypeOK

\* A step keeps the balance if the slips' total moves by what the running
\* total and the handler's debt move by.
LEMMA BalanceMoves ==
  ASSUME TypeInv, Balanced, NEW r \in Requests, NEW n \in AnyCall,
         request' = [request EXCEPT ![r] = n], NEW more \in Int, NEW added \in Int,
         NetTotal(slips') = NetTotal(slips) + more, earned' = earned + added,
         more + Due(request[r]) = added + Due(n)
  PROVE  Balanced'
<1>1. request \in [Requests -> AnyCall]
  BY DEF TypeInv, TypeOK, AnyCall
<1>2. Due(n) \in Int /\ Due(request[r]) \in Int
  BY <1>1, DueInt
<1>3. DueTotal(request') = DueTotal(request) + Due(n) - Due(request[r])
  BY <1>1, DueChange
<1>4. NetTotal(slips') = earned' + DueTotal(request')
  BY <1>2, <1>3, TotalsInt DEF Balanced
<1> QED
  BY <1>4 DEF Balanced

\* What a step of handler r does to the balance: it goes on to n, the slips'
\* total rises by more, the running total by added.
Effect(r, n, more, added) ==
    /\ request' = [request EXCEPT ![r] = n]
    /\ n \in AnyCall /\ Shaped(n) /\ (n.pc = "save" => Exists(n.slip))
    /\ NetTotal(slips') = NetTotal(slips) + more /\ earned' = earned + added
    /\ more + Due(request[r]) = added + Due(n)
    /\ \A s \in Slips : slips'[s].number = 0 => slips'[s].net = 0
Balances(r) == \E n \in AnyCall, more, added \in Int : Effect(r, n, more, added)

LEMMA QuietBalances ==
  ASSUME TypeInv, ShapeInv, NEW r \in Requests, NEW n \in AnyCall, Shaped(n),
         n.pc = "save" => Exists(n.slip), Due(n) = Due(request[r]),
         request' = [request EXCEPT ![r] = n], UNCHANGED <<slips, earned>>
  PROVE  Balances(r)
<1>1. Due(n) \in Int
  BY DueInt
<1>2. NetTotal(slips') = NetTotal(slips) + 0 /\ earned' = earned + 0
  BY TotalsInt
<1>3. \A s \in Slips : slips'[s].number = 0 => slips'[s].net = 0
  BY DEF ShapeInv, Exists
<1>4. Effect(r, n, 0, 0)
  BY <1>1, <1>2, <1>3 DEF Effect
<1> QED
  BY <1>4 DEF Balances

\* The start of a call on a slip owes nothing.
LEMMA StartedOwesNothing ==
  ASSUME NEW op \in {"create", "update", "deduct"}, NEW s \in Slips,
         NEW read \in Slip, NEW new \in Slip, NEW entry \in Entry \cup {Absent},
         NEW pc \in {"number", "save"},
         pc = "number" <=> op = "create", op = "create" => read.net = 0
  PROVE  LET n == Started(op, s, read, new, entry, pc)
         IN  /\ n \in AnyCall /\ Due(n) = 0 /\ Shaped(n)
             /\ n.slip = s /\ n.pc = pc
<1> DEFINE n == Started(op, s, read, new, entry, pc)
<1>1. n.pc = pc /\ n.op = op /\ n.read = read /\ n.slip = s
  BY DEF Started
<1>2. n \in AnyCall
  BY StartedType
<1> HIDE DEF n
<1>3. Due(n) = 0 /\ Shaped(n)
  BY <1>1 DEF Due, Owing, Shaped
<1> QED
  BY <1>1, <1>2, <1>3 DEF n

LEMMA IdleOwesNothing == Idle \in AnyCall /\ Due(Idle) = 0 /\ Shaped(Idle) /\ Idle.pc = "idle"
BY DEF AnyCall, Due, Owing, Shaped, Idle, SlipCall

LEMMA ReadBalances ==
  ASSUME TypeInv, ShapeInv, NEW r \in Requests, NEW s \in Slips, NEW f \in Figures,
         NEW e \in Entries, CreateRead(r, s, f, e) \/ UpdateRead(r, s, f, e)
  PROVE  Balances(r)
<1>e. e \in Entry \cup {Absent}
  BY EntriesType
<1>f. f.base \in Int /\ f.allowances \in Int /\ f.deductions \in Int
  BY FiguresType
<1>s. slips[s] \in Slip
  BY DEF TypeInv, TypeOK
<1>1. CASE CreateRead(r, s, f, e)
  <2> DEFINE advance == IF e # Absent /\ e.kind = "advance" THEN e.amount ELSE 0
             new == [number |-> 0, base |-> f.base, allowances |-> f.allowances,
                     deductions |-> f.deductions, net |-> f.base - f.deductions + advance,
                     details |-> 0]
             n == Started("create", s, NoDocument, new, e, "number")
  <2>1. advance \in Int
    BY <1>e DEF Entry
  <2>2. new \in Slip
    BY <1>f, <2>1 DEF Slip
  <2>3. request' = [request EXCEPT ![r] = n]
    BY <1>1 DEF CreateRead
  <2> HIDE DEF new
  <2>4. NoDocument.net = 0
    BY DEF NoDocument
  <2>5. n \in AnyCall /\ Due(n) = 0 /\ Shaped(n) /\ n.pc = "number"
    BY <1>e, <2>2, <2>4, NoDocumentType, StartedOwesNothing
  <2>6. Due(request[r]) = 0 /\ UNCHANGED <<slips, earned>>
    BY <1>1, IdleOwesNothing DEF CreateRead, slipVars, employeeVars
  <2> HIDE DEF n
  <2> QED
    BY <2>3, <2>5, <2>6, QuietBalances
<1>2. CASE UpdateRead(r, s, f, e)
  <2> DEFINE new == [slips[s] EXCEPT !.base = f.base, !.allowances = f.allowances,
                                  !.deductions = f.deductions,
                                  !.net = f.base + f.allowances - f.deductions]
             n == Started("update", s, slips[s], new, e, "save")
  <2>1. f.base + f.allowances - f.deductions \in Int
    BY <1>f
  <2>2. new \in Slip
    BY <1>f, <1>s, <2>1, SlipUpdated
  <2>3. request' = [request EXCEPT ![r] = n]
    BY <1>2 DEF UpdateRead
  <2> HIDE DEF new
  <2>4. n \in AnyCall /\ Due(n) = 0 /\ Shaped(n) /\ n.pc = "save" /\ n.slip = s
    BY <1>e, <1>s, <2>2, StartedOwesNothing
  <2>5. Due(request[r]) = 0 /\ UNCHANGED <<slips, earned>> /\ Exists(s)
    BY <1>2, IdleOwesNothing DEF UpdateRead, slipVars, employeeVars
  <2> HIDE DEF n
  <2> QED
    BY <2>3, <2>4, <2>5, QuietBalances
<1> QED
  BY <1>1, <1>2

LEMMA DeductBalances ==
  ASSUME TypeInv, ShapeInv, NEW r \in Requests, NEW s \in Slips, NEW a \in Amounts,
         DeductRead(r, s, a)
  PROVE  Balances(r)
<1> DEFINE total == slips[s].details + a
           new == [slips[s] EXCEPT !.deductions = total, !.details = total,
                       !.net = slips[s].base + slips[s].allowances - total]
           entry == [kind |-> "deduction", amount |-> total]
           n == Started("deduct", s, slips[s], new, entry, "save")
<1>1. slips[s] \in Slip
  BY DEF TypeInv, TypeOK
<1>2. total \in Int
  BY <1>1, AmountsNat DEF Slip
<1>3. new \in Slip
  <2>1. slips[s].base + slips[s].allowances - total \in Int
    BY <1>1, <1>2 DEF Slip
  <2> HIDE DEF total
  <2> QED
    BY <1>1, <1>2, <2>1, SlipDeducted
<1>4. entry \in Entry
  BY <1>2 DEF Entry
<1>5. request' = [request EXCEPT ![r] = n]
  BY DEF DeductRead
<1> HIDE DEF new, entry
<1>6. n \in AnyCall /\ Due(n) = 0 /\ Shaped(n) /\ n.pc = "save" /\ n.slip = s
  BY <1>1, <1>3, <1>4, StartedOwesNothing
<1>7. Due(request[r]) = 0 /\ UNCHANGED <<slips, earned>> /\ Exists(s)
  BY IdleOwesNothing DEF DeductRead, slipVars, employeeVars
<1> HIDE DEF n
<1> QED
  BY <1>5, <1>6, <1>7, QuietBalances

LEMMA InsertBalances ==
  ASSUME TypeInv, NumberInv, ShapeInv, NEW r \in Requests, CreateInsert(r)
  PROVE  Balances(r)
<1> DEFINE q == request[r]
<1>1. q \in SlipCall /\ q.pc = "insert" /\ Shaped(q)
  BY SlipCallPc DEF CreateInsert, ShapeInv, TypeInv, TypeOK, AnyCall
<1>2. Due(q) = 0
  BY <1>1 DEF Due, Owing
<1>3. CASE Exists(q.slip)
  <2>1. request' = [request EXCEPT ![r] = Idle] /\ UNCHANGED <<slips, earned>>
    BY <1>3 DEF CreateInsert, employeeVars
  <2> QED
    BY <1>2, <2>1, IdleOwesNothing, QuietBalances
<1>4. CASE ~Exists(q.slip)
  <2> DEFINE n == AfterWrite(q)
  <2>1. q.slip \in Slips /\ q.new \in Slip /\ q.read.net = 0 /\ q.new.net \in Int
    BY <1>1 DEF SlipCall, Shaped, Slip
  <2>2. n \in AnyCall /\ Shaped(n) /\ Due(n) = q.new.net /\ n.pc # "save"
    <3>1. n \in AnyCall
      BY <1>1, AfterFollows DEF Follows
    <3>2. Shaped(n) /\ Due(n) = q.new.net - q.read.net
      BY <1>1, ShapedAfter, DueAfter
    <3>3. n.pc # "save"
      BY <1>1 DEF AfterWrite, SlipCall
    <3> QED
      BY <2>1, <3>1, <3>2, <3>3
  <2>3. /\ slips' = [slips EXCEPT ![q.slip] = q.new] /\ earned' = earned
        /\ request' = [request EXCEPT ![r] = n]
    BY <1>4 DEF CreateInsert, employeeVars
  <2> HIDE DEF n
  <2>4. slips \in [Slips -> Slip] /\ slips' \in [Slips -> Slip]
    BY <2>1, <2>3 DEF TypeInv, TypeOK
  <2>5. \A x \in Slips : x # q.slip => slips'[x] = slips[x]
    BY <2>3, <2>4
  <2>6. slips'[q.slip] = q.new /\ slips[q.slip].net = 0
    BY <1>4, <2>1, <2>3, <2>4 DEF ShapeInv
  <2>7. NetTotal(slips') = NetTotal(slips) + q.new.net
    <3>1. NetTotal(slips') = NetTotal(slips) + slips'[q.slip].net - slips[q.slip].net
      BY <2>1, <2>4, <2>5, NetChange
    <3> QED
      BY <2>1, <2>6, <3>1, TotalsInt
  <2>8. \A s \in Slips : slips'[s].number = 0 => slips'[s].net = 0
    <3>1. q.new.number # 0
      BY <1>1 DEF NumberInv
    <3> QED
      BY <2>5, <2>6, <3>1 DEF ShapeInv, Exists
  <2>9. Effect(r, n, q.new.net, 0)
    <3>1. earned' = earned + 0
      BY <2>3, TotalsInt
    <3> QED
      BY <1>2, <2>1, <2>2, <2>3, <2>7, <2>8, <3>1 DEF Effect
  <2> QED
    BY <2>1, <2>2, <2>9 DEF Balances
<1> QED
  BY <1>3, <1>4

LEMMA SaveBalances ==
  ASSUME TypeInv, ShapeInv, FreshEdits, NEW r \in Requests, Save(r)
  PROVE  Balances(r)
<1> DEFINE q == request[r]
           n == AfterWrite(q)
           more == q.new.net - q.read.net
<1>1. q \in SlipCall /\ q.pc = "save" /\ Shaped(q) /\ Exists(q.slip)
  BY SlipCallPc DEF Save, ShapeInv, TypeInv, TypeOK, AnyCall
<1>2. Due(q) = 0
  BY <1>1 DEF Due, Owing
<1>3. q.slip \in Slips /\ q.new.net \in Int /\ q.read.net \in Int
      /\ q.new \in Slip /\ q.read \in Slip
  BY <1>1 DEF SlipCall, Slip
<1>4. n \in AnyCall /\ Shaped(n) /\ Due(n) = more /\ n.pc # "save"
  <2>1. n \in AnyCall
    BY <1>1, AfterFollows DEF Follows
  <2>2. Shaped(n) /\ Due(n) = more
    BY <1>1, ShapedAfter, DueAfter
  <2>3. n.pc # "save"
    BY <1>1 DEF AfterWrite, SlipCall
  <2> QED
    BY <2>1, <2>2, <2>3
<1>5. /\ slips' = [slips EXCEPT ![q.slip] = Saved(slips[q.slip], q.read, q.new)]
      /\ earned' = earned /\ request' = [request EXCEPT ![r] = n]
  BY DEF Save, employeeVars
<1> HIDE DEF n
<1>6. slips \in [Slips -> Slip] /\ slips' \in [Slips -> Slip]
  BY <1>3, <1>5, SavedType DEF TypeInv, TypeOK
<1>7. \A x \in Slips : x # q.slip => slips'[x] = slips[x]
  BY <1>5, <1>6
<1>8. /\ slips'[q.slip].number = slips[q.slip].number
      /\ slips'[q.slip].net = Changed(slips[q.slip].net, q.read.net, q.new.net)
  BY <1>3, <1>5, <1>6 DEF Saved
<1>9. slips[q.slip].net = q.read.net
  BY <1>1 DEF FreshEdits
<1>10. slips'[q.slip].net = q.new.net
  BY <1>8, <1>9 DEF Changed
<1>11. NetTotal(slips') = NetTotal(slips) + more
  <2>1. NetTotal(slips') = NetTotal(slips) + slips'[q.slip].net - slips[q.slip].net
    BY <1>3, <1>6, <1>7, NetChange
  <2> QED
    BY <1>3, <1>9, <1>10, <2>1, TotalsInt
<1>12. \A s \in Slips : slips'[s].number = 0 => slips'[s].net = 0
  BY <1>1, <1>7, <1>8 DEF ShapeInv, Exists
<1>13. Effect(r, n, more, 0)
  <2>1. earned' = earned + 0
    BY <1>5, TotalsInt
  <2>2. more \in Int /\ more + Due(q) = 0 + Due(n)
    BY <1>2, <1>3, <1>4
  <2> QED
    BY <1>4, <1>5, <1>11, <1>12, <2>1, <2>2 DEF Effect
<1>14. more \in Int
  BY <1>3
<1> QED
  BY <1>4, <1>13, <1>14 DEF Balances

LEMMA EarnBalances ==
  ASSUME TypeInv, ShapeInv, NEW r \in Requests, Earn(r)
  PROVE  Balances(r)
<1> DEFINE q == request[r]
           n == AfterEarn(q)
           added == q.new.net - q.read.net
<1>1. q \in SlipCall /\ q.pc = "earn" /\ Shaped(q)
  BY SlipCallPc DEF Earn, ShapeInv, TypeInv, TypeOK, AnyCall
<1>2. added \in Int /\ q.new.net \in Int /\ q.read.net \in Int
  BY <1>1 DEF SlipCall, Slip
<1>3. Due(q) = added
  BY <1>1 DEF Due, Owing
<1>4. n \in AnyCall /\ Shaped(n) /\ Due(n) = 0 /\ n.pc # "save"
  <2>1. n \in AnyCall
    BY <1>1, AfterFollows DEF Follows
  <2>2. n.pc # "save"
    BY <1>1 DEF AfterEarn, SlipCall, Idle
  <2> QED
    BY <1>1, <2>1, <2>2, ShapedAfter, DueAfter
<1>5. earned' = earned + added /\ UNCHANGED slips /\ request' = [request EXCEPT ![r] = n]
  BY <1>2, TotalsInt DEF Earn, slipVars
<1> HIDE DEF n, added
<1>6. NetTotal(slips') = NetTotal(slips) + 0
  BY <1>5, TotalsInt
<1>7. \A s \in Slips : slips'[s].number = 0 => slips'[s].net = 0
  BY <1>5 DEF ShapeInv, Exists
<1>8. Effect(r, n, 0, added)
  BY <1>2, <1>3, <1>4, <1>5, <1>6, <1>7 DEF Effect
<1> QED
  BY <1>2, <1>4, <1>8 DEF Balances

\* The steps of a handler that owe as much before as after.
LEMMA OtherBalances ==
  ASSUME TypeInv, ShapeInv, NEW r \in Requests,
         \/ CreateNumber(r) \/ SyncRead(r) \/ SyncWrite(r) \/ SyncFails(r) \/ ExpensePush(r)
         \/ RequestDies(r) /\ Due(request[r]) = 0
         \/ \E k \in {"advance", "deduction"}, a \in Amounts : ExpenseRead(r, k, a)
  PROVE  Balances(r)
<1> DEFINE q == request[r]
<1>s. q.pc \in {"number", "insert", "save", "earn", "sync", "merge"} => q \in SlipCall
  BY SlipCallPc DEF TypeInv, TypeOK, AnyCall
<1>q. Shaped(q)
  BY DEF ShapeInv
<1>1. CASE CreateNumber(r)
  <2> DEFINE n == [q EXCEPT !.pc = "insert", !.new.number = counter + 1]
  <2>1. q \in SlipCall /\ q.pc = "number"
    BY <1>1, <1>s DEF CreateNumber
  <2>2. /\ n.pc = "insert" /\ n.op = q.op /\ n.read = q.read
        /\ n \in SlipCall
    <3>1. counter + 1 \in Nat
      BY DEF TypeInv, TypeOK
    <3> QED
      BY <2>1, <3>1 DEF SlipCall, Slip
  <2>3. \/ request' = [request EXCEPT ![r] = n]
        \/ request' = [request EXCEPT ![r] = Idle]
    BY <1>1 DEF CreateNumber
  <2> HIDE DEF n
  <2>4. Due(n) = 0 /\ Due(q) = 0
    BY <2>1, <2>2 DEF Due, Owing
  <2>5. Shaped(n) /\ n \in AnyCall
    BY <1>q, <2>1, <2>2 DEF Shaped, AnyCall
  <2>6. UNCHANGED <<slips, earned>>
    BY <1>1 DEF CreateNumber, employeeVars
  <2>7. CASE request' = [request EXCEPT ![r] = n]
    BY <2>2, <2>4, <2>5, <2>6, <2>7, QuietBalances
  <2>8. CASE request' = [request EXCEPT ![r] = Idle]
    BY <2>4, <2>6, <2>8, IdleOwesNothing, QuietBalances
  <2> QED
    BY <2>3, <2>7, <2>8
<1>2. CASE SyncRead(r)
  <2> DEFINE n == [q EXCEPT !.pc = "merge", !.held = records]
  <2>1. q \in SlipCall /\ q.pc = "sync"
    BY <1>2, <1>s DEF SyncRead
  <2>2. /\ n.pc = "merge" /\ n.op = q.op /\ n.read = q.read /\ n.new = q.new
        /\ n \in SlipCall
    <3>1. records \in SUBSET Record
      BY DEF TypeInv, TypeOK
    <3> QED
      BY <2>1, <3>1 DEF SlipCall
  <2>3. request' = [request EXCEPT ![r] = n] /\ UNCHANGED <<slips, earned>>
    BY <1>2 DEF SyncRead, slipVars, employeeVars
  <2> HIDE DEF n
  <2>4. Due(n) = Due(q)
    BY <2>1, <2>2 DEF Due, Owing
  <2>5. Shaped(n) /\ n \in AnyCall
    BY <1>q, <2>1, <2>2 DEF Shaped, AnyCall
  <2> QED
    BY <2>2, <2>3, <2>4, <2>5, QuietBalances
<1>3. CASE SyncWrite(r) \/ SyncFails(r)
  <2> DEFINE n == AfterSync(q)
  <2>1. q \in SlipCall /\ q.pc \in {"sync", "merge"}
    BY <1>3, <1>s DEF SyncWrite, SyncFails
  <2>2. n \in AnyCall /\ Due(n) = Due(q) /\ Shaped(n)
    BY <1>q, <2>1, AfterFollows, DueAfter, ShapedAfter DEF Follows
  <2>3. n.pc # "save"
    <3>1. [q EXCEPT !.pc = "earn", !.held = {}].pc = "earn"
      BY <2>1 DEF SlipCall
    <3> QED
      BY <3>1 DEF AfterSync, Idle
  <2>4. request' = [request EXCEPT ![r] = n] /\ UNCHANGED <<slips, earned>>
    BY <1>3 DEF SyncWrite, SyncFails, slipVars, employeeVars
  <2> HIDE DEF n
  <2> QED
    BY <2>2, <2>3, <2>4, QuietBalances
<1>4. CASE ExpensePush(r)
  <2>1. Due(q) = 0
    BY <1>4 DEF ExpensePush, Due, Owing
  <2>2. request' = [request EXCEPT ![r] = Idle] /\ UNCHANGED <<slips, earned>>
    BY <1>4 DEF ExpensePush, slipVars
  <2> QED
    BY <2>1, <2>2, IdleOwesNothing, QuietBalances
<1>5. CASE RequestDies(r) /\ Due(q) = 0
  <2>1. request' = [request EXCEPT ![r] = Idle] /\ UNCHANGED <<slips, earned>>
    BY <1>5 DEF RequestDies, slipVars, employeeVars
  <2> QED
    BY <1>5, <2>1, IdleOwesNothing, QuietBalances
<1>6. ASSUME NEW k \in {"advance", "deduction"}, NEW a \in Amounts, ExpenseRead(r, k, a)
      PROVE  Balances(r)
  <2> DEFINE rec == [slip |-> NoSlip, id |-> calls + 1, kind |-> k, amount |-> a]
             n == [pc |-> "push", record |-> rec]
  <2>1. rec \in Record
    <3>1. calls + 1 \in Nat
      BY DEF TypeInv, TypeOK
    <3> QED
      BY <3>1, AmountsNat DEF Record
  <2>2. /\ request' = [request EXCEPT ![r] = n] /\ UNCHANGED <<slips, earned>>
        /\ q = Idle
    BY <1>6 DEF ExpenseRead, slipVars, employeeVars
  <2> HIDE DEF rec
  <2>3. n \in AnyCall /\ Due(n) = 0 /\ Shaped(n) /\ n.pc = "push"
    BY <2>1 DEF AnyCall, ExpenseCall, Due, Owing, Shaped, SlipCall
  <2> HIDE DEF n
  <2> QED
    BY <2>2, <2>3, IdleOwesNothing, QuietBalances
<1> QED
  BY <1>1, <1>2, <1>3, <1>4, <1>5, <1>6

LEMMA RequestBalances ==
  ASSUME TypeInv, NumberInv, ShapeInv, FreshEdits, NEW r \in Requests, RequestNext(r),
         Due(request[r]) # 0 => ~RequestDies(r)
  PROVE  Balances(r)
BY ReadBalances, DeductBalances, InsertBalances, SaveBalances, EarnBalances, OtherBalances
   DEF RequestNext

BalanceInv == TypeInv /\ NumberInv /\ ShapeInv /\ Balanced

LEMMA BalanceInit == Init => BalanceInv
<1> SUFFICES ASSUME Init PROVE BalanceInv
  OBVIOUS
<1>1. \A s \in Slips : slips[s].net = 0
  BY DEF Init, NoDocument
<1>2. \A r \in Requests : request[r] = Idle
  BY DEF Init
<1>3. ShapeInv
  BY <1>1, <1>2, IdleOwesNothing DEF ShapeInv
<1>4. NetTotal(slips) = 0
  <2> DEFINE w == [s \in Slips |-> slips[s].net]
  <2>1. w \in [Slips -> Int] /\ \A s \in Slips : w[s] = 0
    BY <1>1
  <2>2. NetTotal(slips) = SumOf(w)
    BY DEF NetTotal
  <2> HIDE DEF w
  <2> QED
    BY <2>1, <2>2, SlipsFinite, SumZero
<1>5. DueTotal(request) = 0
  <2> DEFINE w == [r \in Requests |-> Due(request[r])]
  <2>1. w \in [Requests -> Int] /\ \A r \in Requests : w[r] = 0
    BY <1>2, IdleOwesNothing
  <2>2. DueTotal(request) = SumOf(w)
    BY DEF DueTotal
  <2> HIDE DEF w
  <2> QED
    BY <2>1, <2>2, RequestsFinite, SumZero
<1>6. earned = 0
  BY DEF Init
<1> QED
  BY <1>3, <1>4, <1>5, <1>6, TypeInit, NumberInit DEF BalanceInv, Balanced

LEMMA BalanceStep ==
  BalanceInv /\ FreshEdits /\ [Next]_vars
    /\ [\A r \in Requests : Due(request[r]) # 0 => ~RequestDies(r)]_vars
  => BalanceInv'
<1> SUFFICES ASSUME BalanceInv, FreshEdits, [Next]_vars,
                    [\A r \in Requests : Due(request[r]) # 0 => ~RequestDies(r)]_vars
             PROVE  BalanceInv'
  OBVIOUS
<1> USE DEF BalanceInv
<1>1. TypeInv' /\ NumberInv' /\ \A s \in Slips : Exists(s) => slips'[s].number = slips[s].number
  BY TypeStep, NumberStep
<1>2. CASE UNCHANGED <<slips, earned, request>>
  BY <1>1, <1>2 DEF ShapeInv, Exists, Balanced
<1>3. ASSUME NEW r \in Requests, RequestNext(r), ~UNCHANGED vars PROVE ShapeInv' /\ Balanced'
  <2>1. Balances(r)
    BY <1>3, RequestBalances
  <2>2. PICK n \in AnyCall, more \in Int, added \in Int : Effect(r, n, more, added)
    BY <2>1 DEF Balances
  <2>3. Balanced'
    BY <2>2, BalanceMoves DEF Effect
  <2>4. \A p \in Requests : request'[p] = IF p = r THEN n ELSE request[p]
    BY <2>2 DEF Effect, TypeInv, TypeOK
  <2>5. \A p \in Requests : Shaped(request'[p])
    BY <2>2, <2>4 DEF Effect, ShapeInv
  <2>6. ASSUME NEW p \in Requests, request'[p].pc = "save" PROVE slips'[request'[p].slip].number # 0
    <3>1. Exists(request'[p].slip)
      BY <2>2, <2>4, <2>6 DEF Effect, ShapeInv
    <3>2. request'[p] \in SlipCall
      BY <1>1, <2>6, SlipCallPc DEF TypeInv, TypeOK, AnyCall
    <3>3. request'[p].slip \in Slips
      BY <3>2 DEF SlipCall
    <3> QED
      BY <1>1, <3>1, <3>3 DEF Exists
  <2>7. ShapeInv'
    BY <2>2, <2>5, <2>6 DEF Effect, ShapeInv, Exists
  <2> QED
    BY <2>3, <2>7
<1>4. ASSUME NEW p \in Pages, PageNext(p) PROVE UNCHANGED <<slips, earned, request>>
  BY <1>4 DEF PageNext, PageLoad, DeleteExpense, EditExpense, SaveCategories,
              ReplaceExpenses, slipVars, employeeVars
<1> QED
  BY <1>1, <1>2, <1>3, <1>4 DEF Next, vars

LEMMA BalanceTells == BalanceInv => EarnedMatchesSlips
<1> SUFFICES ASSUME BalanceInv, \A r \in Requests : request[r] = Idle
             PROVE  earned = SumOf([s \in Slips |-> slips[s].net])
  BY DEF EarnedMatchesSlips
<1>1. DueTotal(request) = 0
  <2> DEFINE w == [r \in Requests |-> Due(request[r])]
  <2>1. w \in [Requests -> Int] /\ \A r \in Requests : w[r] = 0
    BY IdleOwesNothing
  <2>2. DueTotal(request) = SumOf(w)
    BY DEF DueTotal
  <2> HIDE DEF w
  <2> QED
    BY <2>1, <2>2, RequestsFinite, SumZero
<1> QED
  BY <1>1, TotalsInt DEF BalanceInv, Balanced, NetTotal

\* For any number of months, handlers and pages the running total follows the
\* slips, unless an edit works on a net amount that was replaced meanwhile or a
\* handler dies between its slip and the total.
THEOREM TotalFollowsSlips == Spec /\ []FreshEdits /\ NoneDiesOwing => []EarnedMatchesSlips
<1>1. Spec /\ []FreshEdits /\ NoneDiesOwing => []BalanceInv
  BY BalanceInit, BalanceStep, PTL DEF Spec, NoneDiesOwing
<1> QED
  BY <1>1, BalanceTells, PTL

\* Only the reads of an edit lead to a save.
LEMMA NotSaving ==
  ASSUME TypeInv, NEW r \in Requests, RequestNext(r)
  PROVE  \/ request'[r].pc # "save"
         \/ \E s \in Slips, f \in Figures, e \in Entries : UpdateRead(r, s, f, e)
         \/ \E s \in Slips, a \in Amounts : DeductRead(r, s, a)
<1> DEFINE q == request[r]
<1>0. \A n : request' = [request EXCEPT ![r] = n] => request'[r] = n
  BY DEF TypeInv, TypeOK
<1>s. q.pc \in {"number", "insert", "save", "earn", "sync", "merge"} => q \in SlipCall
  BY SlipCallPc DEF TypeInv, TypeOK, AnyCall
<1>i. Idle.pc # "save"
  BY DEF Idle
<1>a. q \in SlipCall => /\ AfterWrite(q).pc # "save" /\ AfterEarn(q).pc # "save"
                        /\ AfterSync(q).pc # "save"
  <2> SUFFICES ASSUME q \in SlipCall
               PROVE  AfterWrite(q).pc # "save" /\ AfterEarn(q).pc # "save" /\ AfterSync(q).pc # "save"
    OBVIOUS
  <2>1. [q EXCEPT !.pc = "earn", !.held = {}].pc = "earn"
    BY DEF SlipCall
  <2>2. AfterSync(q).pc # "save"
    BY <1>i, <2>1 DEF AfterSync
  <2> QED
    BY <1>i, <2>2 DEF AfterWrite, AfterEarn, SlipCall
<1>1. ASSUME NEW s \in Slips, NEW f \in Figures, NEW e \in Entries, CreateRead(r, s, f, e)
      PROVE  request'[r].pc # "save"
  <2>1. \A new, entry : Started("create", s, NoDocument, new, entry, "number").pc = "number"
    BY DEF Started
  <2> QED
    BY <1>0, <1>1, <2>1 DEF CreateRead
<1>2. CASE CreateNumber(r)
  <2>1. [q EXCEPT !.pc = "insert", !.new.number = counter + 1].pc = "insert"
    BY <1>2, <1>s DEF CreateNumber, SlipCall
  <2> QED
    BY <1>0, <1>2, <1>i, <2>1 DEF CreateNumber
<1>3. CASE SyncRead(r)
  <2>1. [q EXCEPT !.pc = "merge", !.held = records].pc = "merge"
    BY <1>3, <1>s DEF SyncRead, SlipCall
  <2> QED
    BY <1>0, <1>3, <2>1 DEF SyncRead
<1>4. CASE CreateInsert(r)
  BY <1>0, <1>4, <1>s, <1>a, <1>i DEF CreateInsert
<1>5. CASE Save(r)
  BY <1>0, <1>5, <1>s, <1>a DEF Save
<1>6. CASE Earn(r)
  BY <1>0, <1>6, <1>s, <1>a DEF Earn
<1>7. CASE SyncWrite(r)
  BY <1>0, <1>7, <1>s, <1>a DEF SyncWrite
<1>8. CASE SyncFails(r)
  BY <1>0, <1>8, <1>s, <1>a DEF SyncFails
<1>9. CASE ExpensePush(r) \/ RequestDies(r)
  BY <1>0, <1>9, <1>i DEF ExpensePush, RequestDies
<1>10. ASSUME NEW k \in {"advance", "deduction"}, NEW a \in Amounts, ExpenseRead(r, k, a)
       PROVE  request'[r].pc # "save"
  BY <1>0, <1>10 DEF ExpenseRead
<1> QED
  BY <1>1, <1>2, <1>3, <1>4, <1>5, <1>6, <1>7, <1>8, <1>9, <1>10 DEF RequestNext

\* A handler that is alone has read what it edits.
LEMMA AloneFresh ==
  ASSUME \A r, q \in Requests : r = q
  PROVE  Spec => []FreshEdits
<1>1. Init => FreshEdits
  BY DEF Init, FreshEdits, Idle
<1>2. TypeInv /\ FreshEdits /\ [Next]_vars => FreshEdits'
  <2> SUFFICES ASSUME TypeInv, FreshEdits, [Next]_vars PROVE FreshEdits'
    OBVIOUS
  <2>1. CASE UNCHANGED <<slips, request>>
    BY <2>1 DEF FreshEdits
  <2>2. ASSUME NEW r \in Requests, RequestNext(r), ~UNCHANGED <<slips, request>> PROVE FreshEdits'
    <3>1. ASSUME NEW s \in Slips, NEW f \in Figures, NEW e \in Entries, UpdateRead(r, s, f, e)
          PROVE  FreshEdits'
      <4>1. PICK n : n.read = slips[s] /\ n.slip = s /\ request' = [request EXCEPT ![r] = n]
        BY <3>1 DEF UpdateRead, Started
      <4>2. request'[r] = n /\ slips' = slips
        BY <3>1, <4>1 DEF UpdateRead, slipVars, TypeInv, TypeOK
      <4> QED
        BY <4>1, <4>2 DEF FreshEdits
    <3>2. ASSUME NEW s \in Slips, NEW a \in Amounts, DeductRead(r, s, a) PROVE FreshEdits'
      <4>1. PICK n : n.read = slips[s] /\ n.slip = s /\ request' = [request EXCEPT ![r] = n]
        BY <3>2 DEF DeductRead, Started
      <4>2. request'[r] = n /\ slips' = slips
        BY <3>2, <4>1 DEF DeductRead, slipVars, TypeInv, TypeOK
      <4> QED
        BY <4>1, <4>2 DEF FreshEdits
    <3>3. ASSUME request'[r].pc # "save" PROVE FreshEdits'
      BY <3>3 DEF FreshEdits
    <3>4. \/ request'[r].pc # "save"
          \/ \E s \in Slips, f \in Figures, e \in Entries : UpdateRead(r, s, f, e)
          \/ \E s \in Slips, a \in Amounts : DeductRead(r, s, a)
      BY <2>2, NotSaving
    <3> QED
      BY <3>1, <3>2, <3>3, <3>4
  <2>3. ASSUME NEW p \in Pages, PageNext(p) PROVE UNCHANGED <<slips, request>>
    BY <2>3, NumberPage
  <2> QED
    BY <2>1, <2>2, <2>3 DEF Next, vars
<1> QED
  BY <1>1, <1>2, TypeInit, TypeStep, PTL DEF Spec

\* While one call is made at a time and none fails, the running total of the
\* employee is the sum of the slips' net amounts whenever nobody is in a call.
THEOREM EarnedMatches ==
  ASSUME Failures = FALSE, \A r, q \in Requests : r = q
  PROVE  Spec => []EarnedMatchesSlips
<1>1. Spec => []FreshEdits
  BY AloneFresh
<1>2. [Next]_vars => [\A r \in Requests : Due(request[r]) # 0 => ~RequestDies(r)]_vars
  BY DEF RequestDies
<1>3. Spec => NoneDiesOwing
  BY <1>2, PTL DEF Spec, NoneDiesOwing
<1> QED
  BY <1>1, <1>3, TotalFollowsSlips

=================================================================================
