---------------------------- MODULE SearchProofs ----------------------------
(***************************************************************************)
(* Theorems about Budget and Search: the paid calls of requests and jobs,  *)
(* for every number of callers, attempts and changes of the settings, and  *)
(* the answers, for every catalogue and every ranking.                     *)
(***************************************************************************)
EXTENDS Search, FiniteSetTheorems, WellFoundedInduction, TLAPS

\* The steps of Budget in any order: QNext allows some of them.
BNext == Set \/ TurnMonth \/ \E c \in Callers : CallStep(c) \/ Return(c)

LEMMA BudgetStep == [QNext]_vars => [BNext]_budgetVars
<1> SUFFICES ASSUME QNext PROVE [BNext]_budgetVars
  BY DEF vars
<1> USE SearchAssumption
<1>1. ASSUME NEW r \in Requests, RequestStep(r) PROVE [BNext]_budgetVars
  BY <1>1 DEF RequestStep, Begin, Look, Load, Rerank, Call, Die, Query, BNext
<1>2. ASSUME NEW w \in Workers, WorkerStep(w) PROVE [BNext]_budgetVars
  BY <1>2 DEF WorkerStep, BNext
<1>3. CASE Change \/ Set \/ TurnMonth
  BY <1>3 DEF Change, BNext
<1> QED
  BY <1>1, <1>2, <1>3 DEF QNext

\* The row of a call is its own until the call has ended, and what may have been billed
\* for it is known to be at most the reservation until a cost is written down.
CallOwnsRow(c) ==
    LET i == call[c].row
    IN  /\ call[c].step = "idle" => i = 0
        /\ i # 0 => ledger[i].state # "none"
        /\ call[c].step \in {"reserved", "good", "odd", "lost"} =>
              i \in Rows /\ ledger[i].state = "reserved" /\ ledger[i].actual = Unknown
        /\ call[c].step = "broken" => i \in Rows /\ ledger[i].state = "complete"
        /\ call[c].step = "reserved" => billed[i] = 0

RowCovers(i) ==
    /\ billed[i] <= ledger[i].reserved
    /\ ledger[i].actual # Unknown => billed[i] <= ledger[i].actual
    /\ ledger[i].state \in {"none", "released"} => billed[i] = 0
    /\ ledger[i].state # "none" => ledger[i].reserved \in Costs

BInv ==
    /\ BTypeOK /\ month <= events
    /\ \A c \in Callers : CallOwnsRow(c)
    /\ \A i \in Rows : RowCovers(i)

\* The ledger begins empty and no call is under way.
LEMMA InitLedger == QInit => BInv
<1> SUFFICES ASSUME BInit PROVE BInv
  BY DEF QInit
<1> USE BudgetAssumption
<1>1. /\ key \in BOOLEAN /\ allowance \in Allowances /\ month \in Months /\ events \in 0..MaxEvents
      /\ highest \in [Months -> Nat]
  BY DEF BInit, Months
<1>2. /\ ledger \in [Rows -> LedgerRow]
      /\ billed \in [Rows -> Nat]
  <2>1. NoRow \in LedgerRow
    BY DEF NoRow, LedgerRow, Months
  <2> QED
    BY <2>1 DEF BInit
<1>3. /\ call \in [Callers -> CallRecord]
      /\ \A c \in Callers : call[c].step = "idle" /\ call[c].row = 0
  BY DEF BInit, NoCall, Operations, CallRecord
<1>4. BTypeOK
  BY <1>1, <1>2, <1>3 DEF BTypeOK
<1>5. \A c \in Callers : CallOwnsRow(c)
  BY <1>3 DEF CallOwnsRow
<1>6. \A i \in Rows : RowCovers(i)
  BY DEF BInit, RowCovers, NoRow
<1> QED
  BY <1>1, <1>4, <1>5, <1>6 DEF BInv, BInit

\* Settings and calendar touch neither the ledger nor a call.
LEMMA SettingsKeepLedger ==
    ASSUME BInv, Set \/ TurnMonth
    PROVE  BInv'
<1> USE BudgetAssumption
<1>1. /\ UNCHANGED <<ledger, call, billed>>
      /\ events' = events + 1 /\ events < MaxEvents
  BY DEF Set, TurnMonth
<1>2. month' \in Months /\ month' <= events'
  <2>1. month \in Months /\ events \in 0..MaxEvents /\ month <= events
    BY DEF BInv, BTypeOK
  <2>2. month' = month \/ month' = month + 1
    BY DEF Set, TurnMonth
  <2> QED
    BY <1>1, <2>1, <2>2 DEF Months
<1>3. key' \in BOOLEAN /\ allowance' \in Allowances
  BY DEF Set, TurnMonth, BInv, BTypeOK
<1>4. highest' \in [Months -> Nat]
  <2>1. CASE Set
    BY <1>3, <2>1 DEF Set, BInv, BTypeOK
  <2>2. CASE TurnMonth
    BY <2>2 DEF TurnMonth, BInv, BTypeOK
  <2> QED
    BY <2>1, <2>2
<1>5. BTypeOK'
  BY <1>1, <1>2, <1>3, <1>4 DEF BInv, BTypeOK
<1>6. (\A c \in Callers : CallOwnsRow(c))' /\ (\A i \in Rows : RowCovers(i))'
  BY <1>1 DEF BInv, CallOwnsRow, RowCovers
<1> QED
  BY <1>2, <1>5, <1>6 DEF BInv

\* A step of one call writes in the row of that call only, so that it is enough to look at
\* the caller and its row.
LEMMA OneRowChanges ==
    ASSUME BInv, NEW c \in Callers,
           UNCHANGED <<key, allowance, month, events, highest>>,
           call' \in [Callers -> CallRecord],
           ledger' \in [Rows -> LedgerRow],
           billed' \in [Rows -> Nat],
           \A d \in Callers \ {c} :
              /\ call'[d] = call[d]
              /\ call'[c].row # 0 => call'[c].row # call[d].row,
           \A i \in Rows \ {call'[c].row} : ledger'[i] = ledger[i] /\ billed'[i] = billed[i],
           CallOwnsRow(c)',
           \A i \in Rows : i = call'[c].row => RowCovers(i)'
    PROVE  BInv'
<1> USE BudgetAssumption
<1>1. BTypeOK'
  <2>1. \A a, b \in Callers : a # b /\ call'[a].row # 0 => call'[a].row # call'[b].row
    BY DEF BInv, BTypeOK
  <2> QED
    BY <2>1 DEF BInv, BTypeOK
<1>2. ASSUME NEW d \in Callers \ {c} PROVE CallOwnsRow(d)'
  <2>1. call'[d] = call[d] /\ call[d].row \in {0} \cup Rows
    BY DEF BInv, BTypeOK, CallRecord
  <2>2. call[d].row # 0 => /\ ledger'[call[d].row] = ledger[call[d].row]
                           /\ billed'[call[d].row] = billed[call[d].row]
    BY <2>1
  <2>3. CallOwnsRow(d) /\ 0 \notin Rows
    BY DEF BInv, Rows
  <2> QED
    BY <2>1, <2>2, <2>3 DEF CallOwnsRow
<1>3. ASSUME NEW i \in Rows PROVE RowCovers(i)'
  BY <1>3 DEF BInv, RowCovers
<1> QED
  BY <1>1, <1>2, <1>3 DEF BInv

\* The start of a call: a row of its own, or none.
LEMMA StartKeepsLedger ==
    ASSUME BInv, NEW c \in Callers, NEW op \in Operations, NEW cost \in Costs,
           Reserve(c, op, cost) \/ Refuse(c, op, cost),
           UNCHANGED <<key, allowance, month, events, highest>>
    PROVE  BInv'
<1> USE BudgetAssumption
<1>1. /\ call \in [Callers -> CallRecord] /\ ledger \in [Rows -> LedgerRow]
      /\ billed \in [Rows -> Nat] /\ month \in Months /\ cost \in Nat
  BY DEF BInv, BTypeOK
<1>2. call[c].row = 0 /\ \A d \in Callers : CallOwnsRow(d)
  BY DEF Reserve, Refuse, Started, BInv, CallOwnsRow
<1>3. 0 \notin Rows /\ \A i \in Rows : RowCovers(i)
  BY DEF Rows, BInv
<1>4. CASE Refuse(c, op, cost)
  <2>1. /\ call' \in [Callers -> CallRecord]
        /\ call'[c].row = 0 /\ call'[c].step = "failed"
        /\ \A d \in Callers \ {c} : call'[d] = call[d]
    BY <1>1, <1>2, <1>4 DEF Refuse, CallRecord
  <2>2. CallOwnsRow(c)'
    BY <2>1 DEF CallOwnsRow
  <2> QED
    BY <1>1, <1>3, <1>4, <2>1, <2>2, OneRowChanges DEF Refuse
<1>5. CASE Reserve(c, op, cost)
  <2>1. PICK i \in Rows :
          /\ Fresh(ledger[i])
          /\ ledger' = [ledger EXCEPT ![i] =
                [state |-> "reserved", month |-> month, reserved |-> cost, actual |-> Unknown]]
          /\ call' = [call EXCEPT ![c] = [step |-> "reserved", op |-> op, row |-> i]]
    BY <1>5 DEF Reserve
  <2>2. billed' = billed /\ billed[i] = 0
    BY <1>3, <1>5, <2>1 DEF Reserve, Fresh, RowCovers
  <2>3. /\ call' \in [Callers -> CallRecord]
        /\ call'[c] = [step |-> "reserved", op |-> op, row |-> i]
        /\ \A d \in Callers \ {c} : call'[d] = call[d] /\ call[d].row # i
    BY <1>1, <1>2, <1>3, <2>1 DEF CallRecord, CallOwnsRow, Fresh
  <2>4. /\ ledger' \in [Rows -> LedgerRow]
        /\ ledger'[i] = [state |-> "reserved", month |-> month, reserved |-> cost,
                         actual |-> Unknown]
        /\ \A j \in Rows \ {i} : ledger'[j] = ledger[j]
    BY <1>1, <2>1 DEF LedgerRow
  <2>5. CallOwnsRow(c)'
    BY <2>2, <2>3, <2>4 DEF CallOwnsRow
  <2>6. RowCovers(i)'
    BY <1>1, <2>2, <2>4 DEF RowCovers
  <2> QED
    BY <1>1, <2>2, <2>3, <2>4, <2>5, <2>6, OneRowChanges
<1> QED
  BY <1>4, <1>5

\* A step of a call that has its row, or its end.
LEMMA CallKeepsLedger ==
    ASSUME BInv, NEW c \in Callers, CallStep(c) \/ Return(c)
    PROVE  BInv'
<1> USE BudgetAssumption
<1>0. UNCHANGED <<key, allowance, month, events, highest>>
  BY DEF CallStep, Return
<1>1. /\ call \in [Callers -> CallRecord] /\ ledger \in [Rows -> LedgerRow]
      /\ billed \in [Rows -> Nat]
      /\ \A d \in Callers \ {c} : call[c].row # 0 => call[c].row # call[d].row
  BY DEF BInv, BTypeOK
<1>2. CallOwnsRow(c) /\ (\A i \in Rows : RowCovers(i)) /\ 0 \notin Rows /\ Rows \subseteq Nat
  BY DEF BInv, Rows
<1>3. CASE Return(c)
  <2>1. /\ call' \in [Callers -> CallRecord] /\ call'[c] = NoCall
        /\ \A d \in Callers \ {c} : call'[d] = call[d]
    BY <1>1, <1>3 DEF Return, NoCall, CallRecord, Operations
  <2>2. UNCHANGED <<ledger, billed>>
    BY <1>3 DEF Return
  <2>3. CallOwnsRow(c)'
    BY <2>1 DEF CallOwnsRow, NoCall
  <2> QED
    BY <1>0, <1>1, <1>2, <2>1, <2>2, <2>3, OneRowChanges DEF NoCall
<1>4. ASSUME Release(c) \/ Post(c) \/ Complete(c) \/ MarkUncertain(c) \/ Leave(c)
      PROVE  BInv'
  <2> DEFINE i == call[c].row
             row == ledger[i]
  <2>1. /\ i \in Rows /\ row \in LedgerRow /\ row.reserved \in Nat /\ billed[i] \in Nat
        /\ row.actual \in Nat \cup {Unknown} /\ RowCovers(i)
        /\ row.state \in {"reserved", "complete"}
    BY <1>1, <1>2, <1>4 DEF Release, Post, Complete, MarkUncertain, Leave, CallOwnsRow, LedgerRow
  <2>2. /\ call' \in [Callers -> CallRecord] /\ call'[c].row = i
        /\ \A d \in Callers \ {c} : call'[d] = call[d]
        /\ \A next \in {"good", "odd", "lost", "returned", "broken", "failed"} :
              To(c, next) => call'[c].step = next
    BY <1>1, <1>4 DEF Release, Post, Complete, MarkUncertain, Leave, To, CallRecord
  <2>3. ASSUME NEW state \in {"complete", "uncertain", "released"}, NEW actual \in Nat \cup {Unknown},
               InRow(c, state, actual)
        PROVE  /\ ledger' \in [Rows -> LedgerRow]
               /\ ledger'[i] = [row EXCEPT !.state = state, !.actual = actual]
               /\ \A j \in Rows \ {i} : ledger'[j] = ledger[j]
    BY <1>1, <2>1, <2>3 DEF InRow, LedgerRow
  <2>4. SUFFICES /\ ledger' \in [Rows -> LedgerRow] /\ billed' \in [Rows -> Nat]
                 /\ \A j \in Rows \ {i} : ledger'[j] = ledger[j] /\ billed'[j] = billed[j]
                 /\ CallOwnsRow(c)' /\ RowCovers(i)'
    <3> HIDE DEF row
    <3> QED
      BY <1>0, <1>1, <2>2, OneRowChanges
  <2>5. CASE Release(c)
    <3>1. /\ ledger'[i] = [row EXCEPT !.state = "released", !.actual = Unknown]
          /\ ledger' \in [Rows -> LedgerRow]
          /\ \A j \in Rows \ {i} : ledger'[j] = ledger[j]
      BY <2>3, <2>5 DEF Release
    <3>2. billed' = billed /\ billed[i] = 0 /\ call'[c].step = "failed"
      BY <1>2, <2>2, <2>5 DEF Release, CallOwnsRow
    <3>3. CallOwnsRow(c)' /\ RowCovers(i)'
      BY <2>1, <2>2, <3>1, <3>2 DEF CallOwnsRow, RowCovers, LedgerRow
    <3> QED
      BY <1>1, <3>1, <3>2, <3>3
  <2>6. CASE Post(c)
    <3>1. PICK bill \in 0..row.reserved, reply \in {"good", "odd", "lost"} :
            billed' = [billed EXCEPT ![i] = bill] /\ To(c, reply)
      BY <2>6 DEF Post
    <3>2. /\ ledger' = ledger /\ row.state = "reserved" /\ row.actual = Unknown
          /\ call'[c].step = reply
      BY <1>2, <2>2, <2>6, <3>1 DEF Post, CallOwnsRow
    <3>3. billed' \in [Rows -> Nat] /\ billed'[i] = bill /\ bill \in Nat /\ bill <= row.reserved
      BY <1>1, <2>1, <3>1
    <3>4. CallOwnsRow(c)' /\ RowCovers(i)'
      BY <2>1, <2>2, <3>2, <3>3 DEF CallOwnsRow, RowCovers
    <3> QED
      BY <1>1, <3>1, <3>2, <3>3, <3>4
  <2>7. CASE Complete(c)
    <3>1. Max({1, billed[i]}) \in Nat /\ billed[i] <= Max({1, billed[i]})
      BY <2>1 DEF Max
    <3>2. /\ ledger'[i] = [row EXCEPT !.state = "complete", !.actual = Max({1, billed[i]})]
          /\ ledger' \in [Rows -> LedgerRow]
          /\ \A j \in Rows \ {i} : ledger'[j] = ledger[j]
      BY <2>3, <2>7, <3>1 DEF Complete
    <3>3. billed' = billed /\ call'[c].step \in {"returned", "broken"}
      BY <2>2, <2>7 DEF Complete
    <3>4. CallOwnsRow(c)' /\ RowCovers(i)'
      BY <2>1, <2>2, <3>1, <3>2, <3>3 DEF CallOwnsRow, RowCovers, LedgerRow
    <3> QED
      BY <1>1, <3>2, <3>3, <3>4
  <2>8. CASE MarkUncertain(c)
    <3>1. /\ ledger'[i] = [row EXCEPT !.state = "uncertain", !.actual = row.actual]
          /\ ledger' \in [Rows -> LedgerRow]
          /\ \A j \in Rows \ {i} : ledger'[j] = ledger[j]
      BY <2>1, <2>3, <2>8 DEF MarkUncertain, Failure
    <3>2. billed' = billed /\ call'[c].step = "failed"
      BY <2>2, <2>8 DEF MarkUncertain
    <3>3. CallOwnsRow(c)' /\ RowCovers(i)'
      BY <2>1, <2>2, <3>1, <3>2 DEF CallOwnsRow, RowCovers, LedgerRow
    <3> QED
      BY <1>1, <3>1, <3>2, <3>3
  <2>9. CASE Leave(c)
    <3>1. UNCHANGED <<ledger, billed>> /\ call'[c].step = "failed"
      BY <2>2, <2>9 DEF Leave
    <3>2. CallOwnsRow(c)' /\ RowCovers(i)'
      BY <2>1, <2>2, <3>1 DEF CallOwnsRow, RowCovers
    <3> QED
      BY <1>1, <3>1, <3>2
  <2> QED
    BY <1>4, <2>5, <2>6, <2>7, <2>8, <2>9
<1>5. ASSUME NEW op \in Operations, NEW cost \in Costs, Reserve(c, op, cost) \/ Refuse(c, op, cost)
      PROVE  BInv'
  BY <1>0, <1>5, StartKeepsLedger
<1> QED
  BY <1>3, <1>4, <1>5 DEF CallStep

\* The inductive invariant: each call under way has a row of usage_ledger that no other call
\* writes in, and each row covers what may have been billed for it.
THEOREM LedgerInvariant == QSpec => []BInv
<1>1. BInv /\ [QNext]_vars => BInv'
  <2> SUFFICES ASSUME BInv, [BNext]_budgetVars PROVE BInv'
    BY BudgetStep
  <2>1. CASE UNCHANGED budgetVars
    BY <2>1 DEF budgetVars, BInv, BTypeOK, CallOwnsRow, RowCovers, Months
  <2> QED
    BY <2>1, SettingsKeepLedger, CallKeepsLedger DEF BNext
<1> QED
  BY InitLedger, <1>1, PTL DEF QSpec

\* However requests and jobs interleave, fail and die: what the provider may have billed
\* for an attempt is counted against the allowance, and not with less than was billed.
\* mark_uncertain and complete of app/budget.py keep the row of every attempt that was sent.
THEOREM BilledIsAlwaysCounted == QSpec => []BilledIsCounted
<1>1. BInv => BilledIsCounted
  <2> SUFFICES ASSUME BInv, NEW i \in Rows, billed[i] > 0
               PROVE  Counted(ledger[i]) /\ billed[i] <= Amount(ledger[i])
    BY DEF BilledIsCounted
  <2>1. RowCovers(i) /\ billed[i] \in Nat /\ ledger[i] \in LedgerRow
    BY DEF BInv, BTypeOK
  <2> QED
    BY <2>1 DEF RowCovers, Counted, Amount, LedgerRow
<1> QED
  BY <1>1, LedgerInvariant, PTL

-----------------------------------------------------------------------------
(* Sums over the rows of the ledger                                        *)

\* Induction, over a set in place of a predicate: its complement has no least member.
LEMMA NatInduced ==
    ASSUME NEW S, 0 \in S, \A n \in Nat : n \in S => n + 1 \in S
    PROVE  Nat \subseteq S
<1> DEFINE T == Nat \ S
<1> SUFFICES ASSUME T # {} PROVE FALSE
  OBVIOUS
<1>1. PICK n \in T : \A m \in T : <<m, n>> \notin OpToRel(<, Nat)
  <2>1. T \subseteq Nat
    OBVIOUS
  <2> HIDE DEF T
  <2> QED
    BY <2>1, WFMin, NatLessThanWellFounded
<1>2. n # 0 /\ n - 1 \in Nat /\ n - 1 < n
  OBVIOUS
<1>3. n - 1 \notin T
  BY <1>1, <1>2 DEF OpToRel
<1> QED
  BY <1>2, <1>3

\* s holds the sums of the first values of f.
Sums(f, s) ==
    /\ s \in [0..MaxCalls -> Nat] /\ s[0] = 0
    /\ \A n \in Rows : s[n] = s[n - 1] + f[n]

LEMMA SumsExist ==
    ASSUME NEW f \in [Rows -> Nat]
    PROVE  \E s : Sums(f, s)
<1> USE BudgetAssumption
<1> DEFINE Upto(n, s) ==
              /\ s \in [0..n -> Nat] /\ s[0] = 0
              /\ \A k \in 1..n : s[k] = s[k - 1] + f[k]
           S == {n \in Nat : n <= MaxCalls => \E s : Upto(n, s)}
<1>1. 0 \in S
  <2>1. Upto(0, [k \in 0..0 |-> 0])
    OBVIOUS
  <2>2. \E s : Upto(0, s)
    <3> HIDE DEF Upto
    <3> QED
      BY <2>1
  <2> HIDE DEF Upto
  <2> QED
    BY <2>2
<1>2. ASSUME NEW n \in Nat, n \in S, n + 1 <= MaxCalls PROVE \E s : Upto(n + 1, s)
  <2>1. PICK s : Upto(n, s)
    BY <1>2
  <2> DEFINE t == [k \in 0..(n + 1) |-> IF k = n + 1 THEN s[n] + f[n + 1] ELSE s[k]]
  <2>2. s[n] + f[n + 1] \in Nat
    <3>1. n + 1 \in Rows
      BY <1>2 DEF Rows
    <3>2. s[n] \in Nat
      BY <2>1
    <3> QED
      BY <3>1, <3>2
  <2>3. t \in [0..(n + 1) -> Nat] /\ t[0] = 0
    BY <2>1, <2>2
  <2>4. ASSUME NEW k \in 1..(n + 1) PROVE t[k] = t[k - 1] + f[k]
    <3>1. CASE k = n + 1
      BY <2>1, <3>1
    <3>2. CASE k # n + 1
      BY <2>1, <3>2
    <3> QED
      BY <3>1, <3>2
  <2>5. Upto(n + 1, t)
    <3> HIDE DEF t
    <3> QED
      BY <2>3, <2>4
  <2> QED
    BY <2>5
<1>3. \E s : Upto(MaxCalls, s)
  <2>1. \A n \in Nat : n \in S => n + 1 \in S
    <3> HIDE DEF Upto
    <3> QED
      BY <1>2
  <2>2. MaxCalls \in S
    <3> HIDE DEF S
    <3> QED
      BY <1>1, <2>1, NatInduced
  <2> HIDE DEF Upto
  <2> QED
    BY <2>2
<1> QED
  BY <1>3 DEF Sums, Rows

LEMMA TotalIsLastSum ==
    ASSUME NEW f, NEW s, Sums(f, s)
    PROVE  Total(f) = s[MaxCalls]
<1> USE BudgetAssumption
<1> DEFINE F(t) == [n \in 0..MaxCalls |-> IF n = 0 THEN 0 ELSE t[n - 1] + f[n]]
           sum == CHOOSE t : t = F(t)
<1>1. s = F(s)
  BY DEF Sums, Rows
<1>2. sum = F(sum)
  BY <1>1
<1>3. Total(f) = sum[MaxCalls]
  BY DEF Total
<1>4. sum[MaxCalls] = s[MaxCalls]
  <2> HIDE DEF sum
  <2> DEFINE S == {n \in Nat : n <= MaxCalls => sum[n] = s[n]}
  <2>1. 0 \in S
    BY <1>1, <1>2
  <2>2. ASSUME NEW n \in Nat, n \in S PROVE n + 1 \in S
    BY <1>1, <1>2, <2>2
  <2>3. Nat \subseteq S
    <3> HIDE DEF S
    <3> QED
      BY <2>1, <2>2, NatInduced
  <2> QED
    BY <2>3
<1> QED
  BY <1>3, <1>4

\* Larger values have a larger sum.
LEMMA TotalGrows ==
    ASSUME NEW f \in [Rows -> Nat], NEW g \in [Rows -> Nat],
           \A i \in Rows : f[i] <= g[i]
    PROVE  Total(f) <= Total(g)
<1> USE BudgetAssumption DEF Rows
<1>1. PICK s : Sums(f, s)
  BY SumsExist
<1>2. PICK t : Sums(g, t)
  BY SumsExist
<1> DEFINE S == {n \in Nat : n <= MaxCalls => s[n] <= t[n]}
<1>3. 0 \in S
  BY <1>1, <1>2 DEF Sums
<1>4. ASSUME NEW n \in Nat, n \in S PROVE n + 1 \in S
  <2> SUFFICES ASSUME n + 1 <= MaxCalls PROVE s[n + 1] <= t[n + 1]
    OBVIOUS
  <2>1. /\ s[n] \in Nat /\ t[n] \in Nat /\ s[n] <= t[n]
        /\ f[n + 1] \in Nat /\ g[n + 1] \in Nat /\ f[n + 1] <= g[n + 1]
    BY <1>1, <1>2, <1>4 DEF Sums
  <2>2. s[n + 1] = s[n] + f[n + 1] /\ t[n + 1] = t[n] + g[n + 1]
    BY <1>1, <1>2 DEF Sums
  <2> QED
    BY <2>1, <2>2
<1>5. Nat \subseteq S
  <2> HIDE DEF S
  <2> QED
    BY <1>3, <1>4, NatInduced
<1> QED
  BY <1>1, <1>2, <1>5, TotalIsLastSum

LEMMA TotalIsNumber ==
    ASSUME NEW f \in [Rows -> Nat]
    PROVE  Total(f) \in Nat
<1>1. PICK s : Sums(f, s)
  BY SumsExist
<1> QED
  BY <1>1, TotalIsLastSum, BudgetAssumption DEF Sums

\* One value more adds that value to the sum.
LEMMA TotalOfOneMore ==
    ASSUME NEW f \in [Rows -> Nat], NEW i \in Rows, NEW x \in Nat, f[i] = 0
    PROVE  Total([f EXCEPT ![i] = x]) = Total(f) + x
<1> USE BudgetAssumption DEF Rows
<1> DEFINE g == [f EXCEPT ![i] = x]
<1>1. PICK s : Sums(f, s)
  BY SumsExist
<1> DEFINE t == [n \in 0..MaxCalls |-> IF n < i THEN s[n] ELSE s[n] + x]
<1>2. t \in [0..MaxCalls -> Nat] /\ t[0] = 0
  BY <1>1 DEF Sums
<1>3. ASSUME NEW n \in Rows PROVE t[n] = t[n - 1] + g[n]
  <2>1. n \in 0..MaxCalls /\ n - 1 \in 0..MaxCalls /\ n \in Nat /\ i \in Nat /\ f[n] \in Nat
    OBVIOUS
  <2>2. s[n] = s[n - 1] + f[n] /\ s[n] \in Nat /\ s[n - 1] \in Nat
    BY <1>1, <2>1 DEF Sums
  <2>3. g[n] = IF n = i THEN x ELSE f[n]
    OBVIOUS
  <2>4. /\ t[n] = IF n < i THEN s[n] ELSE s[n] + x
        /\ t[n - 1] = IF n - 1 < i THEN s[n - 1] ELSE s[n - 1] + x
    BY <2>1
  <2>5. CASE n < i
    <3> HIDE DEF g, t
    <3> QED
      BY <2>1, <2>2, <2>3, <2>4, <2>5
  <2>6. CASE n = i
    <3> HIDE DEF g, t
    <3> QED
      BY <2>1, <2>2, <2>3, <2>4, <2>6
  <2>7. CASE n > i
    <3> HIDE DEF g, t
    <3> QED
      BY <2>1, <2>2, <2>3, <2>4, <2>7
  <2> QED
    BY <2>1, <2>5, <2>6, <2>7
<1>4. Sums(g, t)
  <2> HIDE DEF g, t
  <2> QED
    BY <1>2, <1>3 DEF Sums
<1>5. Total(g) = t[MaxCalls] /\ Total(f) = s[MaxCalls]
  <2> HIDE DEF g, t
  <2> QED
    BY <1>1, <1>4, TotalIsLastSum
<1> QED
  BY <1>5

-----------------------------------------------------------------------------
(* What is reserved for a month                                            *)

\* The sum that reserve compares with the allowance stays within the highest allowance of
\* its month; a month to come has none yet.
MoneyFits ==
    /\ allowance <= highest[month]
    /\ \A m \in Months : /\ m > month => highest[m] = 0
                         /\ Total(Charged(m)) <= highest[m]

LEMMA ChargesAreNumbers ==
    ASSUME BTypeOK
    PROVE  \A m : Charged(m) \in [Rows -> Nat]
<1> SUFFICES ASSUME NEW m, NEW i \in Rows, Counted(ledger[i]) PROVE Amount(ledger[i]) \in Nat
  BY DEF Charged
<1>1. ledger[i] \in LedgerRow
  BY DEF BTypeOK
<1> QED
  BY <1>1, BudgetAssumption DEF LedgerRow, Amount

LEMMA InitMoney == QInit => MoneyFits
<1> SUFFICES ASSUME BInit PROVE MoneyFits
  BY DEF QInit
<1> USE BudgetAssumption
<1>1. /\ month = 0 /\ allowance \in Nat /\ 0 \in Months
      /\ highest = [m \in Months |-> IF m = 0 THEN allowance ELSE 0]
  BY DEF BInit, Months
<1>2. ASSUME NEW m \in Months PROVE Total(Charged(m)) = 0
  <2>1. \A i \in Rows : Charged(m)[i] = 0
    BY DEF BInit, NoRow, Charged, Counted
  <2>2. Sums(Charged(m), [n \in 0..MaxCalls |-> 0])
    BY <2>1 DEF Sums, Rows
  <2> QED
    BY <2>2, TotalIsLastSum
<1> QED
  BY <1>1, <1>2 DEF MoneyFits, Months

\* An administrator who lowers the allowance leaves the highest one of the month.
LEMMA SettingsKeepMoney ==
    ASSUME BInv, MoneyFits, Set \/ TurnMonth
    PROVE  MoneyFits'
<1> USE BudgetAssumption
<1>1. ASSUME NEW m PROVE Total(Charged(m))' = Total(Charged(m))
  <2>1. Charged(m)' = Charged(m)
    BY DEF Set, TurnMonth, Charged
  <2> QED
    BY <2>1
<1>2. /\ highest \in [Months -> Nat] /\ month \in Nat /\ month \in Months
      /\ allowance \in Nat /\ \A m \in Months : m \in Nat
  BY DEF BInv, BTypeOK, Months
<1>3. \A m \in Months : Total(Charged(m)) \in Nat
  <2>1. \A m \in Months : Charged(m) \in [Rows -> Nat]
    BY ChargesAreNumbers DEF BInv
  <2> QED
    BY <2>1, TotalIsNumber
<1>4. CASE Set
  <2>1. allowance' \in Nat /\ month' = month
    BY <1>4 DEF Set
  <2>2. \A m \in Months : /\ m # month => highest'[m] = highest[m]
                          /\ highest'[month] = IF highest[month] < allowance'
                                               THEN allowance' ELSE highest[month]
    BY <1>2, <1>4 DEF Set
  <2> QED
    BY <1>1, <1>2, <1>3, <2>1, <2>2 DEF MoneyFits
<1>5. CASE TurnMonth
  <2>1. allowance' = allowance /\ month' = month + 1 /\ month' \in Months
    BY <1>2, <1>5 DEF TurnMonth, BInv, BTypeOK, Months
  <2>2. \A m \in Months : highest'[m] = IF m = month + 1 THEN allowance ELSE highest[m]
    BY <1>2, <1>5, <2>1 DEF TurnMonth
  <2> QED
    BY <1>1, <1>2, <1>3, <2>1, <2>2 DEF MoneyFits
<1> QED
  BY <1>4, <1>5

\* reserve charges the row it adds, within the allowance.
LEMMA ReserveKeepsMoney ==
    ASSUME BInv, MoneyFits, NEW c \in Callers, NEW op \in Operations, NEW cost \in Costs,
           Reserve(c, op, cost), UNCHANGED <<allowance, month, highest>>
    PROVE  MoneyFits'
<1> USE BudgetAssumption
<1>1. PICK i \in Rows :
        /\ Fresh(ledger[i])
        /\ ledger' = [ledger EXCEPT ![i] =
              [state |-> "reserved", month |-> month, reserved |-> cost, actual |-> Unknown]]
  BY DEF Reserve
<1>2. /\ ledger \in [Rows -> LedgerRow] /\ month \in Months /\ cost \in Nat
      /\ highest \in [Months -> Nat] /\ allowance \in Nat
      /\ \A m : Charged(m) \in [Rows -> Nat]
  BY ChargesAreNumbers DEF BInv, BTypeOK
<1>3. ASSUME NEW m \in Months
      PROVE  Charged(m)' = [Charged(m) EXCEPT ![i] = IF m = month THEN cost ELSE 0]
  <2>1. ledger'[i] = [state |-> "reserved", month |-> month, reserved |-> cost, actual |-> Unknown]
    BY <1>1, <1>2
  <2>2. Charged(m)'[i] = IF m = month THEN cost ELSE 0
    BY <2>1 DEF Charged, Counted, Amount
  <2>3. \A j \in Rows \ {i} : Charged(m)'[j] = Charged(m)[j]
    BY <1>1, <1>2 DEF Charged, Counted, Amount
  <2> DEFINE f == [Charged(m) EXCEPT ![i] = IF m = month THEN cost ELSE 0]
  <2>4. \A j \in Rows : Charged(m)'[j] = f[j]
    BY <1>2, <2>2, <2>3
  <2>5. Charged(m)' = [j \in Rows |-> Charged(m)'[j]] /\ f = [j \in Rows |-> f[j]]
    BY <1>2 DEF Charged
  <2> HIDE DEF f
  <2>6. Charged(m)' = f
    BY <2>4, <2>5
  <2> QED
    BY <2>6 DEF f
<1>4. ASSUME NEW m \in Months
      PROVE  Total(Charged(m))' = Total(Charged(m)) + IF m = month THEN cost ELSE 0
  <2>1. Charged(m)[i] = 0
    BY <1>1 DEF Charged, Fresh, Counted
  <2>2. Total(Charged(m))' = Total([Charged(m) EXCEPT ![i] = IF m = month THEN cost ELSE 0])
    BY <1>3
  <2> QED
    BY <1>2, <2>1, <2>2, TotalOfOneMore
<1>5. Total(Charged(month)) + cost <= allowance
  BY DEF Reserve, Allows, Spent
<1>6. \A m \in Months : Total(Charged(m)) \in Nat
  BY <1>2, TotalIsNumber
<1> QED
  BY <1>2, <1>4, <1>5, <1>6 DEF MoneyFits

\* Every other step of a call leaves the row less or as much as it was charged.
LEMMA CallKeepsMoney ==
    ASSUME BInv, BInv', MoneyFits, NEW c \in Callers, CallStep(c) \/ Return(c)
    PROVE  MoneyFits'
<1> USE BudgetAssumption
<1>1. UNCHANGED <<allowance, month, highest>>
  BY DEF CallStep, Return
<1>2. CASE \E op \in Operations, cost \in Costs : Reserve(c, op, cost)
  BY <1>1, <1>2, ReserveKeepsMoney
<1>3. CASE ~\E op \in Operations, cost \in Costs : Reserve(c, op, cost)
  <2>1. SUFFICES ASSUME NEW m \in Months, NEW i \in Rows
                 PROVE  Charged(m)'[i] <= Charged(m)[i]
    <3>1. \A m \in Months : Charged(m) \in [Rows -> Nat] /\ Charged(m)' \in [Rows -> Nat]
      <4>1. \A m : Charged(m) \in [Rows -> Nat]
        BY ChargesAreNumbers DEF BInv
      <4>2. \A i \in Rows : ledger'[i] \in LedgerRow
        BY DEF BInv, BTypeOK
      <4>3. \A i \in Rows : Amount(ledger'[i]) \in Nat
        BY <4>2 DEF LedgerRow, Amount
      <4>4. \A m : Charged(m)' \in [Rows -> Nat]
        BY <4>3 DEF Charged
      <4> QED
        BY <4>1, <4>4
    <3>2. ASSUME NEW m \in Months PROVE Total(Charged(m))' <= Total(Charged(m))
      <4>1. \A i \in Rows : Charged(m)'[i] <= Charged(m)[i]
        BY <2>1
      <4>2. Total(Charged(m)') <= Total(Charged(m))
        BY <3>1, <4>1, TotalGrows
      <4> QED
        BY <4>2
    <3>3. ASSUME NEW m \in Months PROVE Total(Charged(m))' \in Nat /\ Total(Charged(m)) \in Nat
      <4>1. Total(Charged(m)') \in Nat /\ Total(Charged(m)) \in Nat
        BY <3>1, TotalIsNumber
      <4> QED
        BY <4>1
    <3>4. \A m \in Months : highest[m] \in Nat
      BY DEF BInv, BTypeOK
    <3> QED
      BY <1>1, <3>2, <3>3, <3>4 DEF MoneyFits
  <2>2. /\ ledger[i] \in LedgerRow /\ ledger'[i] \in LedgerRow
        /\ Amount(ledger[i]) \in Nat
    <3>1. ledger[i] \in LedgerRow /\ ledger'[i] \in LedgerRow
      BY DEF BInv, BTypeOK
    <3> QED
      BY <3>1 DEF LedgerRow, Amount
  <2>3. CASE ledger'[i] = ledger[i]
    BY <2>2, <2>3 DEF Charged
  <2>4. CASE ledger'[i] # ledger[i]
    <3>1. Release(c) \/ Complete(c) \/ MarkUncertain(c)
      BY <1>3, <2>4 DEF CallStep, Return, Refuse, Post, Leave
    <3>2. i = call[c].row
      BY <2>4, <3>1 DEF Release, Complete, MarkUncertain, InRow, BInv, BTypeOK
    <3>3. /\ CallOwnsRow(c) /\ RowCovers(i) /\ ledger \in [Rows -> LedgerRow]
          /\ billed[i] \in Nat
      BY DEF BInv, BTypeOK
    <3>4. CASE Release(c)
      <4>1. ledger'[i].state = "released"
        BY <3>2, <3>3, <3>4 DEF Release, InRow
      <4> QED
        BY <2>2, <4>1 DEF Charged, Counted
    <3>5. CASE Complete(c)
      <4>1. ledger[i].state = "reserved" /\ ledger[i].actual = Unknown
        BY <3>2, <3>3, <3>5 DEF Complete, CallOwnsRow
      <4>2. Max({1, billed[i]}) \in Nat /\ Max({1, billed[i]}) <= ledger[i].reserved
        <5>1. ledger[i].reserved \in Costs /\ billed[i] <= ledger[i].reserved
          BY <3>3, <4>1 DEF RowCovers
        <5>2. ledger[i].reserved \in Nat /\ 1 <= ledger[i].reserved
          <6>1. ledger[i].reserved \in Nat \ {0}
            BY <5>1
          <6> QED
            BY <6>1
        <5>3. PICK x \in {1, billed[i]} : \A y \in {1, billed[i]} : x >= y
          BY <3>3
        <5>4. Max({1, billed[i]}) \in {1, billed[i]}
          BY <5>3, Zenon DEF Max
        <5>5. \A y \in {1, billed[i]} : y \in Nat /\ y <= ledger[i].reserved
          BY <3>3, <5>1, <5>2
        <5> QED
          BY <5>4, <5>5, Zenon
      <4>3. ledger'[i] = [ledger[i] EXCEPT !.state = "complete", !.actual = Max({1, billed[i]})]
        BY <3>2, <3>3, <3>5 DEF Complete, InRow
      <4>4. /\ ledger'[i].month = ledger[i].month
            /\ Amount(ledger'[i]) = Max({1, billed[i]}) /\ Amount(ledger[i]) = ledger[i].reserved
        BY <2>2, <4>1, <4>2, <4>3 DEF Amount, LedgerRow
      <4> QED
        BY <2>2, <4>1, <4>2, <4>4 DEF Charged, Counted
    <3>6. CASE MarkUncertain(c)
      <4>1. ledger[i].state \in {"reserved", "complete"}
        BY <3>2, <3>3, <3>6 DEF MarkUncertain, CallOwnsRow
      <4>2. ledger'[i] = [ledger[i] EXCEPT !.state = "uncertain", !.actual = ledger[i].actual]
        BY <3>2, <3>3, <3>6 DEF MarkUncertain, InRow, Failure
      <4>3. ledger'[i].month = ledger[i].month /\ Amount(ledger'[i]) = Amount(ledger[i])
        BY <2>2, <4>2 DEF Amount, LedgerRow
      <4> QED
        BY <2>2, <4>1, <4>3 DEF Charged, Counted
    <3> QED
      BY <3>1, <3>4, <3>5, <3>6
  <2> QED
    BY <2>3, <2>4
<1> QED
  BY <1>2, <1>3

\* The allowance of a month is never overspent: by induction, the rows charged to a month
\* add up to no more than the highest allowance that was in force in it, and a row covers
\* what may be billed for it.  reserve compares the sum with the allowance in the
\* transaction that inserts the row, and complete never charges more than was reserved.
THEOREM NeverOverspent == QSpec => []WithinAllowance
<1>1. BInv /\ BInv' /\ MoneyFits /\ [QNext]_vars => MoneyFits'
  <2> SUFFICES ASSUME BInv, BInv', MoneyFits, [BNext]_budgetVars PROVE MoneyFits'
    BY BudgetStep
  <2>1. CASE UNCHANGED budgetVars
    <3>1. ASSUME NEW m PROVE Total(Charged(m))' = Total(Charged(m))
      <4>1. Charged(m)' = Charged(m)
        BY <2>1 DEF budgetVars, Charged
      <4> QED
        BY <4>1
    <3>2. allowance' = allowance /\ month' = month /\ highest' = highest
      BY <2>1 DEF budgetVars
    <3>3. ASSUME NEW m \in Months
          PROVE  /\ m > month' => highest'[m] = 0
                 /\ Total(Charged(m))' <= highest'[m]
      <4>1. (m > month => highest[m] = 0) /\ Total(Charged(m)) <= highest[m]
        BY DEF MoneyFits
      <4> QED
        BY <3>1, <3>2, <4>1
    <3>4. allowance' <= highest'[month']
      BY <3>2 DEF MoneyFits
    <3> QED
      BY <3>3, <3>4 DEF MoneyFits
  <2> QED
    BY <2>1, SettingsKeepMoney, CallKeepsMoney DEF BNext
<1>2. BInv /\ MoneyFits => WithinAllowance
  <2> SUFFICES ASSUME BInv, MoneyFits, NEW m \in Months
               PROVE  Total([i \in Rows |-> IF ledger[i].month = m THEN billed[i] ELSE 0]) <= highest[m]
    BY DEF WithinAllowance
  <2> DEFINE f == [i \in Rows |-> IF ledger[i].month = m THEN billed[i] ELSE 0]
  <2>1. f \in [Rows -> Nat] /\ Charged(m) \in [Rows -> Nat]
    BY ChargesAreNumbers DEF BInv, BTypeOK
  <2>2. ASSUME NEW i \in Rows PROVE f[i] <= Charged(m)[i]
    <3>1. RowCovers(i) /\ billed[i] \in Nat /\ ledger[i] \in LedgerRow
      BY DEF BInv, BTypeOK
    <3>2. Counted(ledger[i]) => billed[i] <= Amount(ledger[i]) /\ Amount(ledger[i]) \in Nat
      <4>1. Counted(ledger[i]) => ledger[i].reserved \in Nat /\ billed[i] <= ledger[i].reserved
        BY <3>1, BudgetAssumption DEF RowCovers, LedgerRow
      <4>2. ledger[i].actual # Unknown => ledger[i].actual \in Nat /\ billed[i] <= ledger[i].actual
        BY <3>1 DEF RowCovers, LedgerRow
      <4> QED
        BY <4>1, <4>2 DEF Amount
    <3>3. ~Counted(ledger[i]) => billed[i] = 0
      BY <3>1 DEF RowCovers, Counted, LedgerRow
    <3> QED
      BY <3>1, <3>2, <3>3 DEF Charged
  <2>3. Total(f) \in Nat /\ Total(Charged(m)) \in Nat /\ Total(f) <= Total(Charged(m))
    <3> HIDE DEF f
    <3> QED
      BY <2>1, <2>2, TotalIsNumber, TotalGrows
  <2>4. Total(Charged(m)) <= highest[m] /\ highest[m] \in Nat
    BY DEF MoneyFits, BInv, BTypeOK
  <2> QED
    BY <2>3, <2>4
<1> QED
  BY InitMoney, LedgerInvariant, <1>1, <1>2, PTL DEF QSpec

-----------------------------------------------------------------------------
(* The selection                                                           *)

SelectedFrom(limit, ranked, s, n) ==
    /\ s \in Seq(Chunks) /\ Len(s) <= limit
    /\ \A i \in 1..Len(s) : \E k \in 1..n : s[i] = ranked[k]
    /\ IsInjective(s)
    /\ \A d \in Documents, k \in 1..Len(s) : k <= limit \div 2 => Of(d, s, k) <= PerDocument
    /\ \A k \in 1..n : \/ \E i \in 1..Len(s) : s[i] = ranked[k]
                       \/ Len(s) = limit \/ Of(ranked[k].doc, s, Len(s)) >= PerDocument

LEMMA CountIsNumber ==
    ASSUME NEW d, NEW s, NEW n \in Nat
    PROVE  Of(d, s, n) \in Nat /\ IsFiniteSet({i \in 1..n : s[i].doc = d})
<1>1. IsFiniteSet(1..n)
  BY FS_Interval
<1>2. IsFiniteSet({i \in 1..n : s[i].doc = d})
  BY <1>1, FS_Subset
<1> QED
  BY <1>2, FS_CardinalityType DEF Of

LEMMA CountOfOneMore ==
    ASSUME NEW s \in Seq(Chunks), NEW c \in Chunks, NEW d
    PROVE  /\ \A k \in 1..Len(s) : Of(d, Append(s, c), k) = Of(d, s, k)
           /\ Of(d, Append(s, c), Len(s) + 1) = Of(d, s, Len(s)) + IF c.doc = d THEN 1 ELSE 0
<1> DEFINE t == Append(s, c)
           At(u, k) == {i \in 1..k : u[i].doc = d}
<1>1. /\ Len(s) \in Nat /\ t[Len(s) + 1] = c
      /\ \A i \in 1..Len(s) : t[i] = s[i]
  OBVIOUS
<1>2. ASSUME NEW k \in 1..Len(s) PROVE At(t, k) = At(s, k)
  BY <1>1
<1>3. At(t, Len(s) + 1) = IF c.doc = d THEN At(s, Len(s)) \cup {Len(s) + 1} ELSE At(s, Len(s))
  <2>1. At(t, Len(s) + 1) = {i \in (1..Len(s)) \cup {Len(s) + 1} : t[i].doc = d}
    BY <1>1
  <2>2. /\ \A i \in 1..Len(s) : t[i].doc = s[i].doc
        /\ t[Len(s) + 1].doc = c.doc
    BY <1>1
  <2> HIDE DEF t
  <2> QED
    BY <2>1, <2>2
<1>4. IsFiniteSet(At(s, Len(s))) /\ Len(s) + 1 \notin At(s, Len(s))
  <2>1. IsFiniteSet(At(s, Len(s)))
    BY <1>1, CountIsNumber, Zenon
  <2> QED
    BY <1>1, <2>1
<1>5. \A u, k : Of(d, u, k) = Cardinality(At(u, k))
  BY DEF Of
<1>6. Of(d, s, Len(s)) \in Nat
  BY <1>1, CountIsNumber
<1>7. Cardinality(At(s, Len(s)) \cup {Len(s) + 1}) = Cardinality(At(s, Len(s))) + 1
  <2> HIDE DEF At
  <2> QED
    BY <1>4, FS_AddElement
<1> HIDE DEF At, t
<1>8. /\ \A k \in 1..Len(s) : Of(d, t, k) = Of(d, s, k)
      /\ Of(d, t, Len(s) + 1) = Of(d, s, Len(s)) + IF c.doc = d THEN 1 ELSE 0
  BY <1>2, <1>3, <1>5, <1>6, <1>7
<1> QED
  BY <1>8 DEF t

\* One candidate more is looked at.
LEMMA OneMoreCandidate ==
    ASSUME NEW limit \in Nat, NEW ranked \in Seq(Chunks), IsInjective(ranked),
           NEW n \in Nat, n + 1 <= Len(ranked),
           NEW s, SelectedFrom(limit, ranked, s, n)
    PROVE  SelectedFrom(limit, ranked,
                        IF Taken(limit, s, ranked[n + 1]) THEN Append(s, ranked[n + 1]) ELSE s, n + 1)
<1> USE SearchAssumption
<1> DEFINE c == ranked[n + 1]
           t == Append(s, c)
<1>1. /\ s \in Seq(Chunks) /\ Len(s) <= limit /\ Len(s) \in Nat /\ PerDocument \in Nat
      /\ c \in Chunks /\ c.doc \in Documents
  <2>1. c \in Chunks
    OBVIOUS
  <2>2. c.doc \in Documents
    BY <2>1 DEF Chunks
  <2>3. s \in Seq(Chunks) /\ Len(s) <= limit /\ Len(s) \in Nat
    BY DEF SelectedFrom
  <2> QED
    BY <2>1, <2>2, <2>3
<1>2. \A d, k : k \in Nat => Of(d, s, k) \in Nat
  BY CountIsNumber
<1>3. CASE ~Taken(limit, s, c)
  <2>1. Len(s) = limit \/ Of(c.doc, s, Len(s)) >= PerDocument
    BY <1>1, <1>2, <1>3 DEF Taken
  <2>2. \A i \in 1..Len(s) : \E k \in 1..(n + 1) : s[i] = ranked[k]
    BY DEF SelectedFrom
  <2>3. ASSUME NEW k \in 1..(n + 1)
        PROVE  \/ \E i \in 1..Len(s) : s[i] = ranked[k]
               \/ Len(s) = limit \/ Of(ranked[k].doc, s, Len(s)) >= PerDocument
    <3>1. CASE k = n + 1
      BY <2>1, <3>1
    <3>2. CASE k \in 1..n
      BY <3>2 DEF SelectedFrom
    <3> QED
      BY <3>1, <3>2
  <2>4. SelectedFrom(limit, ranked, s, n + 1)
    BY <2>2, <2>3 DEF SelectedFrom
  <2> QED
    BY <1>3, <2>4
<1>4. CASE Taken(limit, s, c)
  <2>1. /\ t \in Seq(Chunks) /\ Len(t) = Len(s) + 1 /\ t[Len(s) + 1] = c
        /\ \A i \in 1..Len(s) : t[i] = s[i]
    BY <1>1
  <2>2. Len(s) < limit /\ (Of(c.doc, s, Len(s)) < PerDocument \/ Len(s) >= limit \div 2)
    BY <1>4 DEF Taken
  <2>3. \A d : /\ \A k \in 1..Len(s) : Of(d, t, k) = Of(d, s, k)
              /\ Of(d, t, Len(s) + 1) = Of(d, s, Len(s)) + IF c.doc = d THEN 1 ELSE 0
    BY <1>1, CountOfOneMore
  <2> HIDE DEF t
  <2>4. \A i \in 1..Len(t) : \E k \in 1..(n + 1) : t[i] = ranked[k]
    <3>1. ASSUME NEW i \in 1..Len(s) PROVE \E k \in 1..(n + 1) : t[i] = ranked[k]
      BY <2>1 DEF SelectedFrom
    <3>2. t[Len(s) + 1] = ranked[n + 1] /\ n + 1 \in 1..(n + 1)
      BY <2>1
    <3>3. \A i \in 1..Len(t) : i \in 1..Len(s) \/ i = Len(s) + 1
      BY <1>1, <2>1
    <3> QED
      BY <3>1, <3>2, <3>3
  <2>5. IsInjective(t)
    <3>1. \A k \in 1..n : ranked[k] # c
      BY DEF IsInjective
    <3>2. \A i \in 1..Len(s) : s[i] # c
      BY <3>1 DEF SelectedFrom
    <3>3. \A i, j \in 1..Len(s) : s[i] = s[j] => i = j
      BY <1>1 DEF SelectedFrom, IsInjective
    <3>4. DOMAIN t = 1..(Len(s) + 1)
      BY <2>1
    <3>5. ASSUME NEW i \in DOMAIN t, NEW j \in DOMAIN t, t[i] = t[j] PROVE i = j
      <4>1. CASE i \in 1..Len(s) /\ j \in 1..Len(s)
        BY <2>1, <3>3, <3>5, <4>1
      <4>2. CASE i = Len(s) + 1 \/ j = Len(s) + 1
        BY <1>1, <2>1, <3>2, <3>4, <3>5, <4>2
      <4> QED
        BY <1>1, <3>4, <4>1, <4>2
    <3> QED
      BY <3>5 DEF IsInjective
  <2>6. ASSUME NEW d \in Documents, NEW k \in 1..Len(t), k <= limit \div 2
        PROVE  Of(d, t, k) <= PerDocument
    <3>1. CASE k \in 1..Len(s)
      BY <2>3, <2>6, <3>1 DEF SelectedFrom
    <3>2. CASE k = Len(s) + 1
      <4>1. Of(c.doc, s, Len(s)) < PerDocument
        <5>1. Len(s) < limit \div 2 /\ limit \div 2 \in Nat
          BY <1>1, <2>6, <3>2
        <5> QED
          BY <1>1, <2>2, <5>1
      <4>2. Of(d, s, Len(s)) <= PerDocument
        <5>1. CASE Len(s) = 0
          <6>1. {i \in 1..Len(s) : s[i].doc = d} = {}
            BY <5>1
          <6> QED
            BY <1>1, <5>1, <6>1, FS_EmptySet DEF Of
        <5>2. CASE Len(s) # 0
          <6>1. Len(s) \in 1..Len(s) /\ Len(s) <= limit \div 2
            BY <1>1, <2>6, <3>2, <5>2
          <6> QED
            BY <6>1 DEF SelectedFrom
        <5> QED
          BY <5>1, <5>2
      <4>3. Of(d, t, k) = Of(d, s, Len(s)) + IF c.doc = d THEN 1 ELSE 0
        BY <2>3, <3>2
      <4>4. Of(d, s, Len(s)) \in Nat /\ Of(c.doc, s, Len(s)) \in Nat
        BY <1>1, <1>2
      <4> QED
        BY <1>1, <4>1, <4>2, <4>3, <4>4
    <3> QED
      BY <1>1, <2>1, <3>1, <3>2
  <2>7. ASSUME NEW k \in 1..(n + 1)
        PROVE  \/ \E i \in 1..Len(t) : t[i] = ranked[k]
               \/ Len(t) = limit \/ Of(ranked[k].doc, t, Len(t)) >= PerDocument
    <3>1. CASE k = n + 1
      BY <1>1, <2>1, <3>1
    <3>2. CASE k \in 1..n
      <4>1. \/ \E i \in 1..Len(s) : s[i] = ranked[k]
            \/ Of(ranked[k].doc, s, Len(s)) >= PerDocument
        BY <1>1, <2>2, <3>2 DEF SelectedFrom
      <4>2. /\ Of(ranked[k].doc, t, Len(t)) = Of(ranked[k].doc, s, Len(s))
                                               + IF c.doc = ranked[k].doc THEN 1 ELSE 0
            /\ Of(ranked[k].doc, s, Len(s)) \in Nat
        BY <1>1, <1>2, <2>1, <2>3
      <4>3. CASE \E i \in 1..Len(s) : s[i] = ranked[k]
        BY <1>1, <2>1, <4>3
      <4>4. CASE Of(ranked[k].doc, s, Len(s)) >= PerDocument
        BY <1>1, <4>2, <4>4
      <4> QED
        BY <4>1, <4>3, <4>4
    <3> QED
      BY <3>1, <3>2
  <2>8. Len(t) <= limit
    BY <1>1, <2>1, <2>2
  <2>9. SelectedFrom(limit, ranked, t, n + 1)
    BY <2>1, <2>4, <2>5, <2>6, <2>7, <2>8 DEF SelectedFrom
  <2> QED
    BY <1>4, <2>9 DEF t
<1> QED
  BY <1>3, <1>4

LEMMA SelectionOfAll ==
    ASSUME NEW limit \in Nat, NEW ranked \in Seq(Chunks), IsInjective(ranked)
    PROVE  SelectedFrom(limit, ranked, Select(limit, ranked), Len(ranked))
<1> DEFINE Next(s, n) ==
              IF Taken(limit, s, ranked[n]) THEN Append(s, ranked[n]) ELSE s
           F(s) == [n \in 0..Len(ranked) |-> IF n = 0 THEN <<>> ELSE Next(s[n - 1], n)]
           chosen == CHOOSE s : s = F(s)
           Upto(n, s) ==
              s = [k \in 0..n |-> IF k = 0 THEN <<>> ELSE Next(s[k - 1], k)]
           S == {n \in Nat : n <= Len(ranked) => \E s : Upto(n, s)}
<1>1. \E s : Upto(Len(ranked), s)
  <2>1. 0 \in S
    <3> DEFINE s == [k \in 0..0 |-> <<>>]
    <3>1. Upto(0, s)
      <4> HIDE DEF Next
      <4> QED
        OBVIOUS
    <3> HIDE DEF Upto, s
    <3>2. \E u : Upto(0, u)
      BY <3>1
    <3> QED
      BY <3>2
  <2>2. ASSUME NEW n \in Nat, n \in S, n + 1 <= Len(ranked) PROVE \E s : Upto(n + 1, s)
    <3>1. PICK s : Upto(n, s)
      <4> HIDE DEF Upto
      <4> QED
        BY <2>2
    <3> DEFINE u == [k \in 0..(n + 1) |-> IF k = n + 1 THEN Next(s[n], n + 1) ELSE s[k]]
    <3>2. ASSUME NEW k \in 0..(n + 1)
          PROVE  u[k] = IF k = 0 THEN <<>> ELSE Next(u[k - 1], k)
      <4> HIDE DEF Next
      <4>1. CASE k = n + 1
        BY <4>1
      <4>2. CASE k # n + 1
        BY <3>1, <4>2
      <4> QED
        BY <4>1, <4>2
    <3>3. Upto(n + 1, u)
      <4> HIDE DEF Next
      <4>1. u = [k \in 0..(n + 1) |-> u[k]]
        OBVIOUS
      <4> HIDE DEF u
      <4> QED
        BY <3>2, <4>1
    <3> HIDE DEF Upto, u
    <3> QED
      BY <3>3
  <2>3. \A n \in Nat : n \in S => n + 1 \in S
    <3> HIDE DEF Upto
    <3> QED
      BY <2>2
  <2>4. Len(ranked) \in S
    <3> HIDE DEF S
    <3> QED
      BY <2>1, <2>3, NatInduced
  <2> HIDE DEF Upto
  <2> QED
    BY <2>4
<1>2. chosen = F(chosen)
  <2> HIDE DEF Next
  <2> QED
    BY <1>1
<1>3. Select(limit, ranked) = chosen[Len(ranked)]
  BY DEF Select
<1> HIDE DEF chosen
<1>4. /\ chosen[0] = <<>>
      /\ \A n \in Nat : n + 1 <= Len(ranked) => chosen[n + 1] = Next(chosen[n], n + 1)
  <2> HIDE DEF Next
  <2> QED
    BY <1>2
<1> DEFINE T == {n \in Nat : n <= Len(ranked) => SelectedFrom(limit, ranked, chosen[n], n)}
<1>5. 0 \in T
  <2>1. SelectedFrom(limit, ranked, <<>>, 0)
    BY DEF SelectedFrom, IsInjective
  <2> QED
    BY <1>4, <2>1
<1>6. ASSUME NEW n \in Nat, n \in T PROVE n + 1 \in T
  <2> SUFFICES ASSUME n + 1 <= Len(ranked) PROVE SelectedFrom(limit, ranked, chosen[n + 1], n + 1)
    OBVIOUS
  <2>1. SelectedFrom(limit, ranked, chosen[n], n)
    BY <1>6
  <2>2. SelectedFrom(limit, ranked, Next(chosen[n], n + 1), n + 1)
    BY <2>1, OneMoreCandidate, Zenon
  <2>3. chosen[n + 1] = Next(chosen[n], n + 1)
    BY <1>4
  <2> HIDE DEF Next
  <2> QED
    BY <2>2, <2>3
<1>7. Len(ranked) \in T
  <2> HIDE DEF T
  <2> QED
    BY <1>5, <1>6, NatInduced
<1> QED
  BY <1>3, <1>7

-----------------------------------------------------------------------------
(* Rankings and their fusion                                               *)

LEMMA RankingFits ==
    ASSUME NEW S \in SUBSET Chunks, NEW s \in Rankings(S)
    PROVE  s \in Seq(Chunks) /\ Len(s) <= Candidates /\ IsInjective(s)
<1> USE SearchAssumption
<1>1. PICK n \in 0..Candidates : s \in [1..n -> S] /\ IsInjective(s)
  BY DEF Rankings, Injection
<1>2. s \in [1..n -> Chunks] /\ n \in Nat /\ n <= Candidates
  BY <1>1
<1> QED
  BY <1>1, <1>2

LEMMA ArrangementFits ==
    ASSUME NEW n \in Nat, NEW T \in SUBSET Chunks, NEW s \in Injection(1..n, T)
    PROVE  /\ s \in Seq(Chunks) /\ IsInjective(s) /\ Len(s) = n /\ ToSet(s) \subseteq T
           /\ s \in Surjection(1..n, T) => ToSet(s) = T
<1>1. s \in [1..n -> T] /\ IsInjective(s)
  BY DEF Injection
<1>2. s \in [1..n -> Chunks] /\ DOMAIN s = 1..n
  BY <1>1
<1>3. s \in Seq(Chunks) /\ Len(s) = n
  BY <1>2
<1> QED
  BY <1>1, <1>2, <1>3 DEF ToSet, Surjection

LEMMA ElementsAreFinite ==
    ASSUME NEW s \in Seq(Chunks)
    PROVE  IsFiniteSet(ToSet(s)) /\ ToSet(s) \subseteq Chunks
<1>1. IsFiniteSet(1..Len(s)) /\ DOMAIN s = 1..Len(s)
  BY FS_Interval
<1>2. s \in Surjection(1..Len(s), ToSet(s))
  BY <1>1 DEF Surjection, ToSet
<1>3. IsFiniteSet(ToSet(s))
  BY <1>1, <1>2, FS_Surjection
<1> QED
  BY <1>3 DEF ToSet

LEMMA FusedFits ==
    ASSUME NEW q \in RequestRecord
    PROVE  IsFiniteSet(Fused(q)) /\ Fused(q) \subseteq Chunks
<1>1. Found(q) \in Seq(Chunks)
  <2>1. q.lexical \in Seq(Chunks) /\ q.text \in Seq(Chunks) /\ q.visual \in Seq(Chunks)
    BY DEF RequestRecord
  <2> QED
    BY <2>1 DEF Found
<1>2. Fused(q) \subseteq ToSet(Found(q))
  BY DEF Fused
<1> QED
  BY <1>1, <1>2, ElementsAreFinite, FS_Subset

LEMMA PlaceInRanking ==
    ASSUME NEW s \in Seq(Chunks), IsInjective(s), NEW i \in 1..Len(s)
    PROVE  Place(s, s[i]) = i
<1>1. {k \in 1..Len(s) : s[k] = s[i]} = {i}
  BY DEF IsInjective
<1>2. Min({i}) = i
  BY DEF Min
<1>3. Place(s, s[i]) = IF {k \in 1..Len(s) : s[k] = s[i]} # {}
                       THEN Min({k \in 1..Len(s) : s[k] = s[i]}) ELSE 0
  BY DEF Place, SelectInSeq
<1> QED
  BY <1>1, <1>2, <1>3

\* Where only the lexical channel answers, its best matches stay the best.
LEMMA LexicalIsFused ==
    ASSUME NEW q \in RequestRecord, q.text = <<>>, q.visual = <<>>,
           IsInjective(q.lexical), Len(q.lexical) <= Candidates,
           NEW i \in 1..Min({Fusion, Len(q.lexical)})
    PROVE  q.lexical[i] \in Fused(q)
<1> USE SearchAssumption
<1> DEFINE s == q.lexical
           ahead == {b \in ToSet(s) : Before(q, b, s[i])}
<1>1. /\ s \in Seq(Chunks) /\ Len(s) \in Nat /\ DOMAIN s = 1..Len(s)
      /\ Fusion \in Nat \ {0} /\ Candidates \in Nat \ {0}
  <2>1. s \in Seq(Chunks)
    BY DEF RequestRecord
  <2> QED
    BY <2>1
<1>2. i \in 1..Len(s) /\ i <= Fusion
  <2>1. PICK x \in {Fusion, Len(s)} : \A y \in {Fusion, Len(s)} : x <= y
    BY <1>1
  <2>2. Min({Fusion, Len(s)}) = x
    <3>1. \A y \in {Fusion, Len(s)} : (\A z \in {Fusion, Len(s)} : y <= z) => y = x
      BY <1>1, <2>1
    <3> QED
      BY <2>1, <3>1 DEF Min
  <2> QED
    BY <1>1, <2>1, <2>2
<1>3. Found(q) = s
  BY <1>1 DEF Found
<1>4. ASSUME NEW c PROVE Share(q.text, c) = 0 /\ Share(q.visual, c) = 0
  <2>1. Place(<<>>, c) = 0
    BY DEF Place, SelectInSeq
  <2> QED
    BY <2>1 DEF Share
<1>0. One \in Nat
  BY SMT DEF One
<1>5. ASSUME NEW k \in 1..Len(s)
      PROVE  /\ Place(s, s[k]) = k /\ Score(q, s[k]) = One \div (60 + k)
             /\ Score(q, s[k]) \in Nat
  <2>1. Place(s, s[k]) = k
    BY <1>1, PlaceInRanking
  <2>2. Share(s, s[k]) = One \div (60 + k) /\ One \div (60 + k) \in Nat
    BY <1>0, <1>1, <2>1 DEF Share
  <2> QED
    BY <1>4, <2>1, <2>2 DEF Score
<1>6. ASSUME NEW x \in Nat \ {0}, NEW y \in Nat \ {0}, x <= y
      PROVE  One \div y <= One \div x
  <2> DEFINE a == One \div x
             b == One \div y
  <2>1. a \in Nat /\ b \in Nat
    BY <1>0
  <2>2. One < (a + 1) * x /\ b * y <= One
    BY <1>0
  <2>3. ASSUME b >= a + 1 PROVE FALSE
    <3> HIDE DEF a, b
    <3> DEFINE ax == (a + 1) * x
               ay == (a + 1) * y
               by == b * y
    <3>1. ax \in Nat /\ ay \in Nat /\ by \in Nat /\ One < ax /\ by <= One
      BY <2>1, <2>2
    <3>2. by >= ay
      BY <2>1, <2>3
    <3>3. ay >= ax
      BY <2>1, <1>6
    <3> HIDE DEF ax, ay, by
    <3> QED
      BY <1>0, <3>1, <3>2, <3>3
  <2> QED
    BY <2>1, <2>3
<1>7. ASSUME NEW k \in 1..Len(s), i <= k PROVE ~Before(q, s[k], s[i])
  <2>1. One \div (60 + k) <= One \div (60 + i)
    <3>1. 60 + k \in Nat \ {0} /\ 60 + i \in Nat \ {0} /\ 60 + i <= 60 + k
      BY <1>1, <1>2, <1>7
    <3> QED
      BY <1>6, <3>1
  <2>2. Score(q, s[k]) \in Nat /\ Score(q, s[i]) \in Nat
    BY <1>2, <1>5
  <2> QED
    BY <1>1, <1>2, <1>3, <1>5, <1>7, <2>1, <2>2 DEF Before
<1>8. ahead \subseteq {s[k] : k \in 1..(i - 1)}
  <2>1. \A b \in ToSet(s) : \E k \in 1..Len(s) : b = s[k]
    BY <1>1 DEF ToSet
  <2> QED
    BY <1>2, <1>7, <2>1
<1>9. Cardinality(ahead) <= i - 1
  <2> DEFINE T == {s[k] : k \in 1..(i - 1)}
             f == [k \in 1..(i - 1) |-> s[k]]
  <2>1. i - 1 \in Nat /\ IsFiniteSet(1..(i - 1)) /\ Cardinality(1..(i - 1)) = i - 1
    <3>1. i \in Nat /\ i >= 1 /\ i - 1 \in Nat
      BY <1>1, <1>2
    <3>2. /\ IsFiniteSet(1..(i - 1))
          /\ Cardinality(1..(i - 1)) = IF 1 > i - 1 THEN 0 ELSE (i - 1) - 1 + 1
      <4>1. 1 \in Int /\ i - 1 \in Int
        BY <3>1
      <4> QED
        BY <4>1, FS_Interval, Zenon
    <3> QED
      BY <3>1, <3>2
  <2>2. f \in Surjection(1..(i - 1), T)
    BY DEF Surjection
  <2>3. IsFiniteSet(T) /\ Cardinality(T) <= i - 1
    <3> HIDE DEF T, f
    <3> QED
      BY <2>1, <2>2, FS_Surjection
  <2>4. Cardinality(ahead) <= Cardinality(T) /\ IsFiniteSet(ahead)
    <3> HIDE DEF T, ahead
    <3> QED
      BY <1>8, <2>3, FS_Subset DEF T
  <2>5. Cardinality(ahead) \in Nat /\ Cardinality(T) \in Nat
    <3> HIDE DEF T, ahead
    <3> QED
      BY <2>3, <2>4, FS_CardinalityType
  <2> QED
    BY <2>1, <2>3, <2>4, <2>5
<1>10. Cardinality(ahead) < Min({2 * Candidates, Fusion}) /\ s[i] \in ToSet(s)
  <2>1. PICK x \in {2 * Candidates, Fusion} : \A y \in {2 * Candidates, Fusion} : x <= y
    BY <1>1
  <2>2. Min({2 * Candidates, Fusion}) \in {2 * Candidates, Fusion}
    BY <2>1, Zenon DEF Min
  <2>3. Cardinality(ahead) \in Nat
    BY <1>1, ElementsAreFinite, FS_Subset, FS_CardinalityType
  <2>4. \A y \in {2 * Candidates, Fusion} : Cardinality(ahead) < y
    <3> HIDE DEF ahead
    <3> QED
      BY <1>1, <1>2, <1>9, <2>3
  <2>5. s[i] \in ToSet(s)
    BY <1>1, <1>2 DEF ToSet
  <2> HIDE DEF ahead
  <2> QED
    BY <2>2, <2>4, <2>5, Zenon
<1> QED
  BY <1>3, <1>10 DEF Fused

-----------------------------------------------------------------------------
(* The requests                                                            *)

SearchTypes ==
    /\ extracted \in [Documents -> SUBSET Versions] /\ deleted \subseteq Documents
    /\ current \in [Documents -> Versions \cup {None}]
    /\ ready \in [Channels -> SUBSET (Documents \X Versions)]
    /\ embedded \in [Channels -> SUBSET (Documents \X Versions)]
    /\ changes \in 0..MaxChanges
    /\ fresh \in [Requests -> SUBSET (Documents \X Versions)]
    /\ steady \in [Requests -> SUBSET (Documents \X Versions)]
    /\ request \in [Requests -> RequestRecord]

\* What a request has collected: it was to be found when it was looked up.
RequestFits(r) ==
    LET q == request[r]
    IN  /\ IsInjective(q.lexical) /\ IsInjective(q.text) /\ IsInjective(q.visual)
        /\ IsInjective(q.ranked) /\ Len(q.lexical) <= Candidates
        /\ Running(r) => steady[r] \subseteq Findable(q.history) /\ Findable(q.history) \subseteq fresh[r]
        /\ \A c \in ToSet(q.ranked) : <<c.doc, c.version>> \in fresh[r]
        /\ IF q.at = "answered" THEN q.results = Select(q.limit, q.ranked) ELSE q.results = <<>>

\* Without a key nothing was embedded and no call is made, so that the lexical channel
\* is the only one.
LexicalKept(r) ==
    LET q == request[r]
    IN  q.at \in {"rerank", "answered"} =>
            \A i \in 1..Min({Fusion, Len(q.lexical)}) :
                <<q.lexical[i].doc, q.lexical[i].version>> \in steady[r] =>
                    q.lexical[i] \in ToSet(q.ranked)
KeylessCalls == ~key => \A c \in Callers : call[c].step \in {"idle", "failed"}
KeylessFits ==
    ~key => /\ \A ch \in Channels : ready[ch] = {}
            /\ \A r \in Requests : /\ request[r].text = <<>> /\ request[r].visual = <<>>
                                   /\ request[r].at # "failed" /\ LexicalKept(r)

SearchInv == SearchTypes /\ (\A r \in Requests : RequestFits(r)) /\ KeylessFits

LEMMA LimitsAreNumbers ==
    (\A limit \in Limits \cup {0} : limit \in Nat) /\ Reranked \in Nat
BY SearchAssumption

LEMMA CallsNeedKey == BInv /\ KeylessCalls /\ [BNext]_budgetVars => KeylessCalls'
<1> SUFFICES ASSUME BInv, KeylessCalls, [BNext]_budgetVars, ~key', NEW c \in Callers
             PROVE  call'[c].step \in {"idle", "failed"}
  BY DEF KeylessCalls
<1>1. CASE UNCHANGED budgetVars
  BY <1>1 DEF budgetVars, KeylessCalls
<1>2. CASE Set \/ TurnMonth
  <2>1. call' = call
    BY <1>2 DEF Set, TurnMonth
  <2>2. key \in BOOLEAN /\ key' \in {key, TRUE}
    BY <1>2 DEF Set, TurnMonth, BInv, BTypeOK
  <2>3. ~key
    BY <2>2, Zenon
  <2> QED
    BY <2>1, <2>3 DEF KeylessCalls
<1>3. ASSUME NEW d \in Callers, CallStep(d) \/ Return(d)
      PROVE  call'[c].step \in {"idle", "failed"}
  <2>1. ~key
    BY <1>3 DEF CallStep, Return
  <2>2. call \in [Callers -> CallRecord] /\ \A e \in Callers : call[e].step \in {"idle", "failed"}
    BY <2>1 DEF BInv, BTypeOK, KeylessCalls
  <2>3. CASE Return(d)
    BY <2>2, <2>3 DEF Return, NoCall
  <2>4. CASE CallStep(d)
    <3>1. \E op \in Operations, cost \in Costs : Refuse(d, op, cost)
      BY <2>1, <2>2, <2>4 DEF CallStep, Reserve, Release, Post, Complete, MarkUncertain, Leave
    <3> QED
      BY <2>2, <3>1 DEF Refuse, CallRecord
  <2> QED
    BY <1>3, <2>3, <2>4
<1> QED
  BY <1>1, <1>2, <1>3 DEF BNext

LEMMA InitRequests == QInit => SearchInv /\ KeylessCalls
<1> SUFFICES ASSUME QInit PROVE SearchInv /\ KeylessCalls
  OBVIOUS
<1> USE SearchAssumption
<1>1. NoRequest \in RequestRecord
  BY DEF NoRequest, RequestRecord
<1>2. /\ request = [r \in Requests |-> NoRequest]
      /\ fresh = [r \in Requests |-> {}] /\ steady = fresh
  BY DEF QInit
<1>3. PICK done \in {{}, {p \in Documents \X Versions : p[2] \in extracted[p[1]]}} :
        (done # {} => key) /\ ready = [ch \in Channels |-> done]
  BY DEF QInit
<1>4. SearchTypes
  <2>1. done \subseteq Documents \X Versions
    BY <1>3
  <2>2. /\ ready \in [Channels -> SUBSET (Documents \X Versions)]
        /\ embedded \in [Channels -> SUBSET (Documents \X Versions)]
    BY <1>3, <2>1 DEF QInit
  <2> QED
    BY <1>1, <1>2, <2>2 DEF SearchTypes, QInit
<1>5. ASSUME NEW r \in Requests PROVE RequestFits(r)
  <2>1. request[r] = NoRequest
    BY <1>2
  <2>2. IsInjective(<<>>) /\ ToSet(<<>>) = {} /\ Len(<<>>) = 0
    BY DEF IsInjective, ToSet
  <2>3. /\ request[r].at = "no" /\ request[r].lexical = <<>> /\ request[r].text = <<>>
        /\ request[r].visual = <<>> /\ request[r].ranked = <<>> /\ request[r].results = <<>>
    BY <2>1 DEF NoRequest
  <2> QED
    BY <2>2, <2>3 DEF RequestFits, Running
<1>6. KeylessFits
  <2>1. ~key => \A ch \in Channels : ready[ch] = {}
    BY <1>3
  <2> QED
    BY <1>2, <2>1 DEF KeylessFits, LexicalKept, NoRequest
<1>7. KeylessCalls
  BY DEF KeylessCalls, QInit, BInit, NoCall
<1> QED
  BY <1>4, <1>5, <1>6, <1>7 DEF SearchInv

\* The catalogue moves on: what can be found now is noted for every request under way.
LEMMA ChangeKeepsRequests ==
    ASSUME BInv, SearchInv, Change, changes + events < MaxChanges
    PROVE  SearchInv'
<1> USE SearchAssumption
<1>1. /\ request' = request /\ key' = key /\ changes' = changes + 1
      /\ Watch
  BY DEF Change, budgetVars
<1>2. PICK d \in Documents :
         \/ \E v \in Versions : Extract(d, v) \/ Discard(d, v) \/ Publish(d, v)
         \/ Delete(d) \/ Restore(d) \/ Embed(d)
  BY DEF Change
<1>3. SearchTypes
  BY DEF SearchInv
<1>4. /\ extracted' \in [Documents -> SUBSET Versions] /\ deleted' \subseteq Documents
      /\ current' \in [Documents -> Versions \cup {None}]
  BY <1>2, <1>3 DEF SearchTypes, Extract, Discard, Publish, Delete, Restore, Embed
<1>5. /\ ready' \in [Channels -> SUBSET (Documents \X Versions)]
      /\ embedded' \in [Channels -> SUBSET (Documents \X Versions)]
      /\ ~key => \A ch \in Channels : ready'[ch] \subseteq ready[ch]
  <2>1. CASE Embed(d)
    <3>1. PICK v \in extracted[d], ch \in Channels :
            /\ ready' = [ready EXCEPT ![ch] = @ \cup {<<d, v>>}]
            /\ embedded' = [embedded EXCEPT ![ch] = @ \cup {<<d, v>>}]
      BY <2>1 DEF Embed
    <3>2. <<d, v>> \in Documents \X Versions
      BY <1>3 DEF SearchTypes
    <3> QED
      BY <1>3, <2>1, <3>1, <3>2 DEF Embed, SearchTypes
  <2>2. CASE Delete(d)
    <3>1. ready' = [ch \in Channels |-> {p \in ready[ch] : p[1] # d}] /\ embedded' = embedded
      BY <2>2 DEF Delete
    <3>2. \A ch \in Channels : ready[ch] \subseteq Documents \X Versions
      BY <1>3 DEF SearchTypes
    <3> QED
      BY <1>3, <3>1, <3>2 DEF SearchTypes
  <2>3. CASE UNCHANGED <<ready, embedded>>
    BY <1>3, <2>3 DEF SearchTypes
  <2> QED
    BY <1>2, <2>1, <2>2, <2>3 DEF Extract, Discard, Publish, Restore
<1> DEFINE now(r) == Findable(request[r].history)'
<1>6. \A r \in Requests : now(r) \subseteq Documents \X Versions
  BY DEF Findable
<1>7. /\ fresh' = [r \in Requests |-> fresh[r] \cup IF Running(r) THEN now(r) ELSE {}]
      /\ steady' = [r \in Requests |-> IF Running(r) THEN steady[r] \cap now(r) ELSE steady[r]]
  BY <1>1 DEF Watch
<1> HIDE DEF now
<1>8. changes' \in 0..MaxChanges
  BY <1>1, <1>3 DEF SearchTypes, BInv, BTypeOK
<1>9. /\ fresh' \in [Requests -> SUBSET (Documents \X Versions)]
      /\ steady' \in [Requests -> SUBSET (Documents \X Versions)]
      /\ \A r \in Requests : fresh[r] \subseteq fresh'[r] /\ steady'[r] \subseteq steady[r]
  BY <1>3, <1>6, <1>7 DEF SearchTypes
<1>10. SearchTypes'
  BY <1>1, <1>3, <1>4, <1>5, <1>8, <1>9 DEF SearchTypes
<1>11. ASSUME NEW r \in Requests PROVE RequestFits(r)'
  <2>1. Running(r) => steady'[r] \subseteq now(r) /\ now(r) \subseteq fresh'[r]
    BY <1>7
  <2>2. now(r) = Findable(request[r].history)' /\ Running(r)' = Running(r)
    BY <1>1 DEF now, Running
  <2>3. RequestFits(r)
    BY DEF SearchInv
  <2>4. fresh[r] \subseteq fresh'[r]
    BY <1>9
  <2> QED
    BY <1>1, <2>1, <2>2, <2>3, <2>4 DEF RequestFits
<1>12. KeylessFits'
  <2> SUFFICES ASSUME ~key' PROVE KeylessFits'
    BY DEF KeylessFits
  <2>1. \A ch \in Channels : ready'[ch] = {}
    BY <1>1, <1>5 DEF SearchInv, KeylessFits
  <2>2. ASSUME NEW r \in Requests PROVE LexicalKept(r)'
    <3>1. LexicalKept(r) /\ steady'[r] \subseteq steady[r]
      BY <1>1, <1>9 DEF SearchInv, KeylessFits
    <3> QED
      BY <1>1, <3>1 DEF LexicalKept
  <2> QED
    BY <1>1, <2>1, <2>2 DEF SearchInv, KeylessFits
<1> QED
  BY <1>10, <1>11, <1>12 DEF SearchInv

\* A step of a request leaves the others alone: it is enough to look at that request.
LEMMA OneRequestChanges ==
    ASSUME SearchInv, NEW r \in Requests,
           UNCHANGED catalogue, key' = key,
           request' \in [Requests -> RequestRecord],
           fresh' \in [Requests -> SUBSET (Documents \X Versions)],
           steady' \in [Requests -> SUBSET (Documents \X Versions)],
           \A o \in Requests \ {r} :
              request'[o] = request[o] /\ fresh'[o] = fresh[o] /\ steady'[o] = steady[o],
           RequestFits(r)',
           ~key => /\ request'[r].text = <<>> /\ request'[r].visual = <<>>
                   /\ request'[r].at # "failed" /\ LexicalKept(r)'
    PROVE  SearchInv'
<1>1. /\ extracted' = extracted /\ current' = current /\ deleted' = deleted
      /\ ready' = ready /\ embedded' = embedded /\ changes' = changes
  BY DEF catalogue
<1>2. SearchTypes'
  BY <1>1 DEF SearchInv, SearchTypes
<1>3. ASSUME NEW o \in Requests \ {r} PROVE RequestFits(o)'
  <2>1. /\ request'[o] = request[o] /\ fresh'[o] = fresh[o] /\ steady'[o] = steady[o]
        /\ RequestFits(o)
    BY DEF SearchInv
  <2>2. Findable(request[o].history)' = Findable(request[o].history)
    BY <1>1, <2>1 DEF Findable
  <2> QED
    BY <2>1, <2>2 DEF RequestFits, Running
<1>4. KeylessFits'
  <2> SUFFICES ASSUME ~key', NEW o \in Requests
               PROVE  /\ request'[o].text = <<>> /\ request'[o].visual = <<>>
                      /\ request'[o].at # "failed" /\ LexicalKept(o)'
    BY <1>1 DEF KeylessFits, SearchInv
  <2>1. CASE o = r
    BY <2>1
  <2>2. CASE o # r
    <3>1. request'[o] = request[o] /\ steady'[o] = steady[o] /\ LexicalKept(o)
      BY <2>2 DEF SearchInv, KeylessFits
    <3> QED
      BY <3>1 DEF LexicalKept, SearchInv, KeylessFits
  <2> QED
    BY <2>1, <2>2
<1> QED
  BY <1>2, <1>3, <1>4 DEF SearchInv

LEMMA BeginKeepsRequests ==
    ASSUME SearchInv, NEW r \in Requests, Begin(r)
    PROVE  SearchInv'
<1> USE SearchAssumption
<1>0. PICK limit \in Limits, history \in BOOLEAN :
        \E ranking \in Rankings(ChunksOf(Findable(history))) :
            request' = [request EXCEPT ![r] = [NoRequest EXCEPT
                !.at = "text", !.limit = limit, !.history = history, !.lexical = ranking]]
  BY DEF Begin
<1>1. PICK ranking \in Rankings(ChunksOf(Findable(history))) :
        request' = [request EXCEPT ![r] = [NoRequest EXCEPT
            !.at = "text", !.limit = limit, !.history = history, !.lexical = ranking]]
  BY <1>0
<1>2. ranking \in Seq(Chunks) /\ Len(ranking) <= Candidates /\ IsInjective(ranking)
  <2>1. ChunksOf(Findable(history)) \in SUBSET Chunks
    BY DEF ChunksOf
  <2> QED
    BY <2>1, RankingFits
<1>3. SearchTypes
  BY DEF SearchInv
<1> DEFINE q == [NoRequest EXCEPT
                   !.at = "text", !.limit = limit, !.history = history, !.lexical = ranking]
<1>4. /\ q \in RequestRecord /\ q.at = "text" /\ q.history = history /\ q.lexical = ranking
      /\ q.text = <<>> /\ q.visual = <<>> /\ q.ranked = <<>> /\ q.results = <<>>
  <2>1. NoRequest \in RequestRecord
    BY DEF NoRequest, RequestRecord
  <2>2. q \in RequestRecord
    BY <1>2, <2>1 DEF RequestRecord
  <2>3. q.at = "text" /\ q.history = history /\ q.lexical = ranking
    BY <2>1 DEF RequestRecord
  <2>4. q.text = NoRequest.text /\ q.visual = NoRequest.visual
    BY <2>1 DEF RequestRecord
  <2>5. q.ranked = NoRequest.ranked /\ q.results = NoRequest.results
    BY <2>1 DEF RequestRecord
  <2> HIDE DEF q
  <2> QED
    BY <2>2, <2>3, <2>4, <2>5 DEF NoRequest
<1> HIDE DEF q
<1>5. /\ request' \in [Requests -> RequestRecord] /\ request'[r] = q
      /\ \A o \in Requests \ {r} : request'[o] = request[o]
  BY <1>1, <1>3, <1>4 DEF SearchTypes, q
<1>6. UNCHANGED catalogue /\ key' = key
  BY DEF Begin, budgetVars
<1>7. /\ fresh' = [fresh EXCEPT ![r] = Findable(history)]
      /\ steady' = [steady EXCEPT ![r] = Findable(history)]
  BY <1>3, <1>4, <1>5 DEF Begin, SearchTypes
<1>8. Findable(history) \subseteq Documents \X Versions
  BY DEF Findable
<1>9. /\ fresh' \in [Requests -> SUBSET (Documents \X Versions)]
      /\ steady' \in [Requests -> SUBSET (Documents \X Versions)]
      /\ fresh'[r] = Findable(history) /\ steady'[r] = Findable(history)
      /\ \A o \in Requests \ {r} : fresh'[o] = fresh[o] /\ steady'[o] = steady[o]
  BY <1>3, <1>7, <1>8 DEF SearchTypes
<1>10. RequestFits(r)'
  <2>1. Findable(history)' = Findable(history)
    BY <1>6 DEF Findable, catalogue
  <2>2. IsInjective(<<>>) /\ ToSet(<<>>) = {}
    BY DEF IsInjective, ToSet
  <2> QED
    BY <1>2, <1>4, <1>5, <1>9, <2>1, <2>2 DEF RequestFits
<1>11. LexicalKept(r)'
  BY <1>4, <1>5 DEF LexicalKept
<1> QED
  BY <1>4, <1>5, <1>6, <1>9, <1>10, <1>11, OneRequestChanges

LEMMA LookKeepsRequests ==
    ASSUME SearchInv, NEW r \in Requests, Look(r)
    PROVE  SearchInv'
<1>1. SearchTypes /\ request[r].at \in Channels
  BY DEF SearchInv, Look
<1>2. PICK next \in {"failed", "visual", "load", "text call", "visual call"} :
        /\ request' = [request EXCEPT ![r].at = next]
        /\ ~Ready(request[r].at) => next # "failed"
  BY <1>1 DEF Look, After, Calling, Channels
<1>3. /\ request' \in [Requests -> RequestRecord]
      /\ \A o \in Requests \ {r} : request'[o] = request[o]
      /\ request'[r] = [request[r] EXCEPT !.at = next] /\ request[r] \in RequestRecord
  BY <1>1, <1>2 DEF SearchTypes, RequestRecord
<1>4. /\ request'[r].at = next /\ request'[r].history = request[r].history
      /\ request'[r].lexical = request[r].lexical /\ request'[r].text = request[r].text
      /\ request'[r].visual = request[r].visual /\ request'[r].ranked = request[r].ranked
      /\ request'[r].results = request[r].results
  BY <1>3 DEF RequestRecord
<1>5. UNCHANGED <<catalogue, watched>> /\ key' = key
  BY DEF Look, budgetVars
<1>6. RequestFits(r)'
  <2>1. Findable(request[r].history)' = Findable(request[r].history)
    BY <1>4, <1>5 DEF Findable, catalogue
  <2>2. RequestFits(r) /\ Running(r)
    BY <1>1 DEF SearchInv, Running, Channels
  <2>3. fresh'[r] = fresh[r] /\ steady'[r] = steady[r] /\ request[r].at # "answered"
    BY <1>1, <1>5 DEF watched, Channels
  <2> QED
    BY <1>2, <1>4, <2>1, <2>2, <2>3 DEF RequestFits, Running
<1>7. ~key => ~Ready(request[r].at)
  BY <1>1 DEF SearchInv, KeylessFits, Ready
<1>8. LexicalKept(r)'
  BY <1>2, <1>4 DEF LexicalKept
<1>9. ~key => request[r].text = <<>> /\ request[r].visual = <<>>
  BY DEF SearchInv, KeylessFits
<1> QED
  BY <1>1, <1>2, <1>3, <1>4, <1>5, <1>6, <1>7, <1>8, <1>9, OneRequestChanges DEF SearchTypes, watched

LEMMA QueryKeepsRequests ==
    ASSUME SearchInv, KeylessCalls, NEW r \in Requests, NEW ch \in Channels, Query(r, ch)
    PROVE  SearchInv'
<1> USE SearchAssumption
<1>1. SearchTypes /\ request[r].at = Calling(ch) /\ request[r] \in RequestRecord
  BY DEF SearchInv, SearchTypes, Query
<1>2. PICK ranking \in IF call[r].step = "returned" THEN Rankings(ChunksOf(embedded[ch])) ELSE {<<>>} :
        request' = [request EXCEPT ![r].at = After(ch), ![r][ch] = ranking]
  BY DEF Query
<1>3. ranking \in Seq(Chunks) /\ IsInjective(ranking)
  <2>1. ChunksOf(embedded[ch]) \in SUBSET Chunks
    BY DEF ChunksOf
  <2>2. <<>> \in Seq(Chunks) /\ IsInjective(<<>>)
    BY DEF IsInjective
  <2> QED
    BY <1>2, <2>1, <2>2, RankingFits
<1>4. ~key => ranking = <<>>
  BY <1>2 DEF KeylessCalls
<1>5. UNCHANGED <<catalogue, watched>> /\ key' = key
  BY DEF Query, Return
<1>6. /\ request' \in [Requests -> RequestRecord]
      /\ \A o \in Requests \ {r} : request'[o] = request[o]
      /\ request'[r].at \in {"visual", "load"} /\ request'[r].history = request[r].history
      /\ request'[r].lexical = request[r].lexical /\ request'[r].ranked = request[r].ranked
      /\ request'[r].results = request[r].results
      /\ request'[r].text \in {request[r].text, ranking}
      /\ request'[r].visual \in {request[r].visual, ranking}
  <2>1. CASE ch = "text"
    <3>1. request' = [request EXCEPT ![r].at = "visual", ![r].text = ranking]
      BY <1>2, <2>1 DEF After
    <3>2. request'[r] = [request[r] EXCEPT !.at = "visual", !.text = ranking]
      BY <1>1, <3>1 DEF SearchTypes
    <3>3. /\ request'[r] \in RequestRecord
          /\ \A o \in Requests \ {r} : request'[o] = request[o]
      BY <1>1, <1>3, <3>1, <3>2 DEF SearchTypes, RequestRecord
    <3> QED
      BY <1>1, <3>1, <3>2, <3>3 DEF SearchTypes, RequestRecord
  <2>2. CASE ch = "visual"
    <3>1. request' = [request EXCEPT ![r].at = "load", ![r].visual = ranking]
      BY <1>2, <2>2 DEF After
    <3>2. request'[r] = [request[r] EXCEPT !.at = "load", !.visual = ranking]
      BY <1>1, <3>1 DEF SearchTypes
    <3>3. /\ request'[r] \in RequestRecord
          /\ \A o \in Requests \ {r} : request'[o] = request[o]
      BY <1>1, <1>3, <3>1, <3>2 DEF SearchTypes, RequestRecord
    <3> QED
      BY <1>1, <3>1, <3>2, <3>3 DEF SearchTypes, RequestRecord
  <2> QED
    BY <2>1, <2>2 DEF Channels
<1>7. RequestFits(r)'
  <2>1. Findable(request[r].history)' = Findable(request[r].history)
    BY <1>5, <1>6 DEF Findable, catalogue
  <2>2. RequestFits(r) /\ Running(r) /\ request[r].at # "answered"
    BY <1>1 DEF SearchInv, Running, Calling
  <2>3. fresh'[r] = fresh[r] /\ steady'[r] = steady[r]
    BY <1>5 DEF watched
  <2> QED
    BY <1>3, <1>6, <2>1, <2>2, <2>3 DEF RequestFits, Running
<1>8. LexicalKept(r)'
  BY <1>6 DEF LexicalKept
<1>9. ~key => request'[r].text = <<>> /\ request'[r].visual = <<>>
  BY <1>4, <1>6 DEF SearchInv, KeylessFits
<1> QED
  BY <1>1, <1>5, <1>6, <1>7, <1>8, <1>9, OneRequestChanges DEF SearchTypes, watched

\* The answer is selected from candidates that were shown.
LEMMA AnswerKeepsRequests ==
    ASSUME SearchInv, NEW r \in Requests, NEW ranked \in Seq(Chunks), IsInjective(ranked),
           \A c \in ToSet(ranked) : <<c.doc, c.version>> \in fresh[r],
           Answer(r, ranked), UNCHANGED <<catalogue, watched>>, key' = key,
           ~key => \A i \in 1..Min({Fusion, Len(request[r].lexical)}) :
               LET c == request[r].lexical[i]
               IN  <<c.doc, c.version>> \in steady[r] => c \in ToSet(ranked)
    PROVE  SearchInv'
<1> USE SearchAssumption
<1>1. /\ SearchTypes /\ request[r] \in RequestRecord /\ request[r].limit \in Nat
      /\ RequestFits(r)
  <2>1. SearchTypes /\ RequestFits(r)
    BY DEF SearchInv
  <2>2. request[r] \in RequestRecord
    BY <2>1 DEF SearchTypes
  <2>3. request[r].limit \in Limits \cup {0}
    BY <2>2 DEF RequestRecord
  <2>4. request[r].limit \in Nat
    BY <2>3, LimitsAreNumbers
  <2> QED
    BY <2>1, <2>2, <2>4
<1> DEFINE results == Select(request[r].limit, ranked)
<1>2. results \in Seq(Chunks)
  BY <1>1, SelectionOfAll DEF SelectedFrom
<1>3. request' = [request EXCEPT
          ![r].at = "answered", ![r].text = <<>>, ![r].visual = <<>>,
          ![r].ranked = ranked, ![r].results = results]
  BY DEF Answer
<1> HIDE DEF results
<1>4. request'[r] = [request[r] EXCEPT !.at = "answered", !.text = <<>>, !.visual = <<>>,
                                       !.ranked = ranked, !.results = results]
  BY <1>1, <1>3 DEF SearchTypes
<1>5. \A o \in Requests \ {r} : request'[o] = request[o]
  BY <1>1, <1>3 DEF SearchTypes
<1>6. request'[r] \in RequestRecord
  <2>1. <<>> \in Seq(Chunks) /\ request[r] \in RequestRecord
    BY <1>1
  <2> QED
    BY <1>2, <1>4, <2>1 DEF RequestRecord
<1>7. request' \in [Requests -> RequestRecord]
  <2>1. request' = [o \in Requests |-> request'[o]]
    BY <1>1, <1>3 DEF SearchTypes
  <2>2. \A o \in Requests : request'[o] \in RequestRecord
    BY <1>1, <1>5, <1>6 DEF SearchTypes
  <2> QED
    BY <2>1, <2>2
<1>8. /\ request'[r].at = "answered" /\ request'[r].text = <<>> /\ request'[r].visual = <<>>
      /\ request'[r].ranked = ranked /\ request'[r].results = results
  BY <1>1, <1>4 DEF RequestRecord
<1>9. request'[r].lexical = request[r].lexical /\ request'[r].limit = request[r].limit
  BY <1>1, <1>4 DEF RequestRecord
<1>10. fresh' = fresh /\ steady' = steady
  BY DEF watched
<1>11. RequestFits(r)'
  <2>1. IsInjective(<<>>)
    BY DEF IsInjective
  <2> QED
    BY <1>1, <1>8, <1>9, <1>10, <2>1 DEF RequestFits, Running, results
<1>12. ~key => LexicalKept(r)'
  BY <1>8, <1>9, <1>10 DEF LexicalKept
<1> QED
  BY <1>1, <1>5, <1>7, <1>8, <1>10, <1>11, <1>12, OneRequestChanges DEF SearchTypes

\* _load_chunks shows what can be found at that moment, and without a key the fusion keeps
\* the best of the lexical channel.
LEMMA LoadKeepsRequests ==
    ASSUME SearchInv, NEW r \in Requests, Load(r)
    PROVE  SearchInv'
<1> USE SearchAssumption
<1> DEFINE q == request[r]
           kept == {c \in Fused(q) : Shown(q, c)}
<1>1. SearchTypes /\ q \in RequestRecord /\ q.at = "load" /\ RequestFits(r)
  BY DEF SearchInv, SearchTypes, Load
<1>2. IsFiniteSet(kept) /\ kept \in SUBSET Chunks
  BY <1>1, FusedFits, FS_Subset
<1>3. PICK ranked \in Bijection(1..Cardinality(kept), kept) :
        \/ Answer(r, ranked)
        \/ request' = [request EXCEPT ![r].at = "rerank", ![r].text = <<>>,
                                     ![r].visual = <<>>, ![r].ranked = ranked]
  BY DEF Load
<1>4. ranked \in Seq(Chunks) /\ IsInjective(ranked) /\ ToSet(ranked) = kept
  <2> HIDE DEF kept
  <2>1. Cardinality(kept) \in Nat
    BY <1>2, FS_CardinalityType
  <2>2. ranked \in Injection(1..Cardinality(kept), kept) /\ ranked \in Surjection(1..Cardinality(kept), kept)
    BY DEF Bijection
  <2> QED
    BY <1>2, <2>1, <2>2, ArrangementFits
<1>5. /\ steady[r] \subseteq Findable(q.history) /\ Findable(q.history) \subseteq fresh[r]
  BY <1>1 DEF RequestFits, Running
<1>6. \A c \in ToSet(ranked) : <<c.doc, c.version>> \in fresh[r]
  BY <1>4, <1>5 DEF Shown
<1>7. UNCHANGED <<catalogue, watched>> /\ key' = key
  BY DEF Load, budgetVars
<1>8. ASSUME ~key, NEW i \in 1..Min({Fusion, Len(q.lexical)}),
             <<q.lexical[i].doc, q.lexical[i].version>> \in steady[r]
      PROVE  q.lexical[i] \in ToSet(ranked)
  <2>1. q.text = <<>> /\ q.visual = <<>>
    BY <1>8 DEF SearchInv, KeylessFits
  <2>2. q.lexical[i] \in Fused(q)
    BY <1>1, <2>1, LexicalIsFused DEF RequestFits
  <2> QED
    BY <1>4, <1>5, <1>8, <2>2 DEF Shown
<1>9. CASE Answer(r, ranked)
  BY <1>4, <1>6, <1>7, <1>8, <1>9, AnswerKeepsRequests
<1>10. CASE request' = [request EXCEPT ![r].at = "rerank", ![r].text = <<>>,
                                      ![r].visual = <<>>, ![r].ranked = ranked]
  <2> HIDE DEF kept
  <2>1. request'[r] = [q EXCEPT !.at = "rerank", !.text = <<>>, !.visual = <<>>, !.ranked = ranked]
    BY <1>1, <1>10 DEF SearchTypes
  <2>2. \A o \in Requests \ {r} : request'[o] = request[o]
    BY <1>1, <1>10 DEF SearchTypes
  <2> HIDE DEF q
  <2>3. request'[r] \in RequestRecord
    <3>1. <<>> \in Seq(Chunks) /\ q \in RequestRecord /\ ranked \in Seq(Chunks)
      BY <1>1, <1>4
    <3> QED
      BY <2>1, <3>1 DEF RequestRecord
  <2>4. request' \in [Requests -> RequestRecord]
    <3>1. request' = [o \in Requests |-> request'[o]]
      BY <1>1, <1>10 DEF SearchTypes
    <3>2. \A o \in Requests : request'[o] \in RequestRecord
      BY <1>1, <2>2, <2>3 DEF SearchTypes
    <3> QED
      BY <3>1, <3>2
  <2>5. /\ request'[r].at = "rerank" /\ request'[r].text = <<>> /\ request'[r].visual = <<>>
        /\ request'[r].ranked = ranked /\ request'[r].history = q.history
    BY <1>1, <2>1 DEF RequestRecord
  <2>6. request'[r].lexical = q.lexical /\ request'[r].results = q.results
    BY <1>1, <2>1 DEF RequestRecord
  <2>7. fresh' = fresh /\ steady' = steady
    BY <1>7 DEF watched
  <2>8. RequestFits(r)'
    <3>1. Findable(q.history)' = Findable(q.history)
      BY <1>7, <2>5 DEF Findable, catalogue, q
    <3>2. IsInjective(<<>>)
      BY DEF IsInjective
    <3> QED
      BY <1>1, <1>4, <1>5, <1>6, <2>5, <2>6, <2>7, <3>1, <3>2 DEF RequestFits, Running, q
  <2>9. ~key => LexicalKept(r)'
    BY <1>8, <2>5, <2>6, <2>7 DEF LexicalKept
  <2> QED
    BY <1>1, <1>7, <2>2, <2>4, <2>5, <2>7, <2>8, <2>9, OneRequestChanges DEF SearchTypes
<1> QED
  BY <1>3, <1>9, <1>10

LEMMA RerankKeepsRequests ==
    ASSUME SearchInv, KeylessCalls, NEW r \in Requests, Rerank(r)
    PROVE  SearchInv'
<1> USE SearchAssumption
<1> DEFINE q == request[r]
           top == Min({Len(q.ranked), Max({q.limit * 3, Reranked})})
<1>1. /\ SearchTypes /\ q \in RequestRecord /\ q.at = "rerank" /\ RequestFits(r)
      /\ q.ranked \in Seq(Chunks) /\ q.limit \in Nat /\ Reranked \in Nat
  <2>1. SearchTypes /\ RequestFits(r) /\ q.at = "rerank"
    BY DEF SearchInv, Rerank
  <2>2. q \in RequestRecord
    BY <2>1 DEF SearchTypes
  <2> HIDE DEF q
  <2>3. q.ranked \in Seq(Chunks) /\ q.limit \in Limits \cup {0}
    BY <2>2 DEF RequestRecord
  <2>4. q.limit \in Nat /\ Reranked \in Nat
    BY <2>3, LimitsAreNumbers
  <2> QED
    BY <2>1, <2>2, <2>3, <2>4
<1>2. UNCHANGED <<catalogue, watched>> /\ key' = key
  BY DEF Rerank, Return
<1>3. CASE Answer(r, q.ranked)
  BY <1>1, <1>2, <1>3, AnswerKeepsRequests DEF RequestFits, SearchInv, KeylessFits, LexicalKept
<1>4. CASE ~Answer(r, q.ranked)
  <2>1. PICK s \in Injection(1..top, ToSet(q.ranked)) : Answer(r, s)
    BY <1>4 DEF Rerank
  <2>2. top \in Nat
    <3> DEFINE m == Max({q.limit * 3, Reranked})
    <3>1. PICK x \in {q.limit * 3, Reranked} : \A y \in {q.limit * 3, Reranked} : x >= y
      BY <1>1
    <3>2. m \in {q.limit * 3, Reranked}
      BY <3>1, Zenon DEF Max
    <3>3. m \in Nat /\ Len(q.ranked) \in Nat
      BY <1>1, <3>2
    <3> HIDE DEF m
    <3>4. PICK z \in {Len(q.ranked), m} : \A y \in {Len(q.ranked), m} : z <= y
      BY <3>3
    <3>5. Min({Len(q.ranked), m}) \in {Len(q.ranked), m}
      BY <3>4, Zenon DEF Min
    <3> QED
      BY <3>3, <3>5 DEF m
  <2>3. ToSet(q.ranked) \in SUBSET Chunks
    BY <1>1, ElementsAreFinite
  <2>4. s \in Seq(Chunks) /\ IsInjective(s) /\ ToSet(s) \subseteq ToSet(q.ranked)
    <3> HIDE DEF top
    <3> QED
      BY <2>1, <2>2, <2>3, ArrangementFits
  <2>5. key
    BY <1>4 DEF Rerank, KeylessCalls
  <2> QED
    BY <1>1, <1>2, <2>1, <2>4, <2>5, AnswerKeepsRequests DEF RequestFits
<1> QED
  BY <1>3, <1>4

\* A request whose process dies forgets everything.
LEMMA DieKeepsRequests ==
    ASSUME SearchInv, NEW r \in Requests, Die(r)
    PROVE  SearchInv'
<1>1. SearchTypes /\ UNCHANGED catalogue /\ key' = key
  BY DEF SearchInv, Die, Return
<1>2. NoRequest \in RequestRecord
  BY DEF NoRequest, RequestRecord
<1>3. /\ request' \in [Requests -> RequestRecord] /\ request'[r] = NoRequest
      /\ \A o \in Requests \ {r} : request'[o] = request[o]
  BY <1>1, <1>2 DEF SearchTypes, Die
<1>4. /\ fresh' \in [Requests -> SUBSET (Documents \X Versions)]
      /\ steady' \in [Requests -> SUBSET (Documents \X Versions)]
      /\ \A o \in Requests \ {r} : fresh'[o] = fresh[o] /\ steady'[o] = steady[o]
  BY <1>1 DEF SearchTypes, Die
<1>5. /\ request'[r].at = "no" /\ request'[r].lexical = <<>> /\ request'[r].text = <<>>
      /\ request'[r].visual = <<>> /\ request'[r].ranked = <<>> /\ request'[r].results = <<>>
  BY <1>3 DEF NoRequest
<1>6. RequestFits(r)'
  <2>1. IsInjective(<<>>) /\ ToSet(<<>>) = {} /\ Len(<<>>) = 0
    BY DEF IsInjective, ToSet
  <2>2. Candidates \in Nat
    BY SearchAssumption
  <2> QED
    BY <1>5, <2>1, <2>2 DEF RequestFits, Running
<1>7. LexicalKept(r)'
  BY <1>5 DEF LexicalKept
<1> QED
  BY <1>1, <1>3, <1>4, <1>5, <1>6, <1>7, OneRequestChanges

\* A key that was set is never cleared: what holds without one has less to say with one.
LEMMA OthersKeepRequests ==
    ASSUME SearchInv, UNCHANGED searchVars, ~key' => ~key
    PROVE  SearchInv'
<1>1. /\ extracted' = extracted /\ current' = current /\ deleted' = deleted
      /\ ready' = ready /\ embedded' = embedded /\ changes' = changes
      /\ request' = request /\ fresh' = fresh /\ steady' = steady
  BY DEF searchVars, catalogue, watched
<1>2. SearchTypes'
  BY <1>1 DEF SearchInv, SearchTypes
<1>3. ASSUME NEW r \in Requests PROVE RequestFits(r)'
  <2>1. RequestFits(r)
    BY DEF SearchInv
  <2>2. Findable(request[r].history)' = Findable(request[r].history)
    BY <1>1 DEF Findable
  <2> QED
    BY <1>1, <2>1, <2>2 DEF RequestFits, Running
<1>4. KeylessFits'
  BY <1>1 DEF SearchInv, KeylessFits, LexicalKept
<1> QED
  BY <1>2, <1>3, <1>4 DEF SearchInv

LEMMA RequestsKept ==
    ASSUME BInv, SearchInv, KeylessCalls, [QNext]_vars
    PROVE  SearchInv'
<1>1. CASE UNCHANGED vars
  BY <1>1, OthersKeepRequests DEF vars, budgetVars
<1>2. ASSUME NEW r \in Requests, RequestStep(r) PROVE SearchInv'
  <2>1. CASE Call(r)
    BY <2>1, OthersKeepRequests DEF Call, CallStep
  <2> QED
    BY <1>2, <2>1, BeginKeepsRequests, LookKeepsRequests, LoadKeepsRequests,
       RerankKeepsRequests, DieKeepsRequests, QueryKeepsRequests DEF RequestStep
<1>3. ASSUME NEW w \in Workers, WorkerStep(w) PROVE SearchInv'
  <2>1. UNCHANGED searchVars /\ key' = key
    BY <1>3 DEF WorkerStep, CallStep, Return
  <2> QED
    BY <2>1, OthersKeepRequests
<1>4. CASE Change /\ changes + events < MaxChanges
  BY <1>4, ChangeKeepsRequests
<1>5. CASE (Set \/ TurnMonth) /\ UNCHANGED searchVars
  <2>1. key \in BOOLEAN /\ key' \in {key, TRUE}
    BY <1>5 DEF Set, TurnMonth, BInv, BTypeOK
  <2>2. ~key' => ~key
    BY <2>1, Zenon
  <2> QED
    BY <1>5, <2>2, OthersKeepRequests
<1> QED
  BY <1>1, <1>2, <1>3, <1>4, <1>5 DEF QNext

\* The results of a request are none, or the selection from its candidates.
LEMMA ResultsAreSelected ==
    ASSUME SearchInv, NEW r \in Requests
    PROVE  LET q == request[r]
           IN  /\ IsInjective(q.results) /\ ToSet(q.results) \subseteq ToSet(q.ranked)
               /\ q.ranked \in Seq(Chunks) /\ q.limit \in Nat
               /\ q.at = "answered" => SelectedFrom(q.limit, q.ranked, q.results, Len(q.ranked))
<1> DEFINE q == request[r]
<1>1. SearchTypes /\ RequestFits(r)
  BY DEF SearchInv
<1>2. q \in RequestRecord
  BY <1>1 DEF SearchTypes
<1>3. IF q.at = "answered" THEN q.results = Select(q.limit, q.ranked) ELSE q.results = <<>>
  BY <1>1 DEF RequestFits
<1>4. IsInjective(q.ranked)
  BY <1>1 DEF RequestFits
<1> HIDE DEF q
<1>5. q.ranked \in Seq(Chunks) /\ q.limit \in Limits \cup {0}
  BY <1>2 DEF RequestRecord
<1>6. q.limit \in Nat
  BY <1>5, LimitsAreNumbers
<1>7. CASE q.at = "answered"
  <2>1. SelectedFrom(q.limit, q.ranked, q.results, Len(q.ranked))
    BY <1>3, <1>4, <1>5, <1>6, <1>7, SelectionOfAll
  <2>2. IsInjective(q.results) /\ q.results \in Seq(Chunks)
    BY <2>1 DEF SelectedFrom
  <2>3. ToSet(q.results) \subseteq ToSet(q.ranked)
    <3>1. \A i \in 1..Len(q.results) : \E k \in 1..Len(q.ranked) : q.results[i] = q.ranked[k]
      BY <2>1 DEF SelectedFrom
    <3> QED
      BY <1>5, <2>2, <3>1 DEF ToSet
  <2> QED
    BY <1>5, <1>6, <2>1, <2>2, <2>3 DEF q
<1>8. CASE q.at # "answered"
  <2>1. q.results = <<>> /\ IsInjective(<<>>) /\ ToSet(<<>>) = {}
    BY <1>3, <1>8 DEF IsInjective, ToSet
  <2> QED
    BY <1>5, <1>6, <1>8, <2>1 DEF q
<1> QED
  BY <1>7, <1>8

\* The inductive invariant of the requests: everything a request has kept was findable when
\* it was looked up, no ranking names a chunk twice, the answer is the selection from what
\* was ranked, and without a key the lexical matches are all there is.
THEOREM RequestInvariant == QSpec => [](BInv /\ SearchInv /\ KeylessCalls)
<1>1. BInv /\ SearchInv /\ KeylessCalls /\ [QNext]_vars => SearchInv' /\ KeylessCalls'
  BY RequestsKept, CallsNeedKey, BudgetStep
<1> QED
  BY InitRequests, LedgerInvariant, <1>1, PTL DEF QSpec

\* The variables keep their types, and no channel, fusion, reranker or selection of search
\* (app/retrieval.py) names a chunk twice; the ledger is that of LedgerInvariant.
THEOREM SearchTypeOK == QSpec => []QTypeOK
<1>1. BInv /\ SearchInv => QTypeOK
  <2> SUFFICES ASSUME BInv, SearchInv PROVE QTypeOK
    OBVIOUS
  <2>1. BTypeOK /\ SearchTypes
    BY DEF BInv, SearchInv
  <2>2. ASSUME NEW r \in Requests
        PROVE  LET q == request[r] IN
               \A seq \in {q.lexical, q.text, q.visual, q.ranked, q.results} : IsInjective(seq)
    <3>1. RequestFits(r)
      BY DEF SearchInv
    <3>2. IsInjective(request[r].results)
      BY <2>1, ResultsAreSelected
    <3> QED
      BY <3>1, <3>2 DEF RequestFits
  <2> QED
    BY <2>1, <2>2 DEF QTypeOK, SearchTypes
<1> QED
  BY RequestInvariant, <1>1, PTL

\* A result belongs to a version that could be found while the request ran, whatever the
\* worker and reconciliation did between the ranking of a channel and the answer, and
\* whatever Qdrant still marks: _load_chunks checks every candidate against SQLite, and
\* neither the reranking nor the selection brings in another chunk.
THEOREM AnswersAreFresh == QSpec => []AnswerIsFresh
<1>1. SearchInv => AnswerIsFresh
  <2> SUFFICES ASSUME SearchInv, NEW r \in Requests, NEW c \in ToSet(request[r].results)
               PROVE  <<c.doc, c.version>> \in fresh[r]
    BY DEF AnswerIsFresh
  <2>1. c \in ToSet(request[r].ranked)
    BY ResultsAreSelected
  <2> QED
    BY <2>1 DEF SearchInv, RequestFits
<1> QED
  BY RequestInvariant, <1>1, PTL

\* Search works without a provider key: no request fails, and the lexical matches that
\* stayed findable are among the candidates of the answer, as far as the fusion has room.
\* _dense and _visual return early without coverage, reserve refuses every call, and rerank
\* falls back to the order of the fusion.
THEOREM LexicalSearchStays == QSpec => []LexicalStays
<1>1. SearchInv => LexicalStays
  BY DEF SearchInv, KeylessFits, LexicalKept, LexicalStays
<1> QED
  BY RequestInvariant, <1>1, PTL

\* The selection of search shows at most three results of a document in the first half of
\* the limit, and leaves a candidate out only when the answer is full or its document has
\* its share.
THEOREM AnswersAreDiverse == QSpec => []Diverse
<1>1. SearchInv => Diverse
  <2> SUFFICES ASSUME SearchInv, NEW r \in Requests, request[r].at = "answered"
               PROVE  LET q == request[r]
                      IN  /\ \A d \in Documents, n \in 1..Min({Len(q.results), q.limit \div 2}) :
                                Of(d, q.results, n) <= PerDocument
                          /\ \A c \in ToSet(q.ranked) \ ToSet(q.results) :
                                \/ Len(q.results) = q.limit
                                \/ Of(c.doc, q.results, Len(q.results)) >= PerDocument
    BY DEF Diverse
  <2> DEFINE q == request[r]
  <2>1. /\ q.ranked \in Seq(Chunks) /\ q.limit \in Nat
        /\ SelectedFrom(q.limit, q.ranked, q.results, Len(q.ranked))
    BY ResultsAreSelected
  <2> HIDE DEF q
  <2>2. q.results \in Seq(Chunks) /\ Len(q.results) \in Nat /\ q.limit \div 2 \in Nat
    <3>1. q.results \in Seq(Chunks)
      BY <2>1 DEF SelectedFrom
    <3> QED
      BY <2>1, <3>1
  <2>3. ASSUME NEW d \in Documents, NEW n \in 1..Min({Len(q.results), q.limit \div 2})
        PROVE  Of(d, q.results, n) <= PerDocument
    <3>1. PICK x \in {Len(q.results), q.limit \div 2} :
            \A y \in {Len(q.results), q.limit \div 2} : x <= y
      BY <2>2
    <3>2. Min({Len(q.results), q.limit \div 2}) = x
      <4>1. \A z \in {Len(q.results), q.limit \div 2} :
              (\A y \in {Len(q.results), q.limit \div 2} : z <= y) => z = x
        BY <2>2, <3>1
      <4> QED
        BY <3>1, <4>1, Zenon DEF Min
    <3>3. n \in 1..Len(q.results) /\ n <= q.limit \div 2
      BY <2>2, <3>1, <3>2
    <3> QED
      BY <2>1, <3>3 DEF SelectedFrom
  <2>4. ASSUME NEW c \in ToSet(q.ranked) \ ToSet(q.results)
        PROVE  \/ Len(q.results) = q.limit
               \/ Of(c.doc, q.results, Len(q.results)) >= PerDocument
    <3>1. PICK k \in 1..Len(q.ranked) : c = q.ranked[k]
      BY <2>1 DEF ToSet
    <3>2. \A i \in 1..Len(q.results) : q.results[i] # c
      BY <2>2 DEF ToSet
    <3> QED
      BY <2>1, <3>1, <3>2 DEF SelectedFrom
  <2> QED
    BY <2>3, <2>4 DEF q
<1> QED
  BY RequestInvariant, <1>1, PTL
=============================================================================
