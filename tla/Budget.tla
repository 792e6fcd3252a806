------------------------------- MODULE Budget -------------------------------
(***************************************************************************)
(* The paid calls of one vault: app/budget.py keeps a row of usage_ledger  *)
(* for every attempt, and embed_texts, rerank and embed_visual_inputs of   *)
(* app/provider.py reserve, call the provider and settle.  Callers are     *)
(* search requests and worker jobs; each has at most one call at a time,   *)
(* and any of them may die between two statements.                         *)
(*                                                                         *)
(* A reservation is assumed to be an upper bound of what the provider      *)
(* bills (UTF-8 bytes for tokens, capped pixels).                          *)
(***************************************************************************)
EXTENDS Naturals, FiniteSets, FiniteSetsExt

CONSTANTS
    Callers,
    Costs,      \* estimates of a call, in micro-dollars
    Allowances, \* values an administrator gives the monthly allowance
    Unknown,    \* a cost that was not reported
    MaxCalls, MaxEvents \* bounds on attempts, and on changes of the settings and of the month

ASSUME BudgetAssumption ==
    /\ Costs \subseteq Nat \ {0} /\ Allowances \subseteq Nat /\ 0 \in Allowances
    /\ Unknown \notin Nat
    /\ {MaxCalls, MaxEvents} \subseteq Nat

Rows == 1..MaxCalls
Months == 0..MaxEvents
Operations == {"text", "visual", "rerank"}

VARIABLES
    key,       \* has the vault a provider key?
    allowance, \* monthly_budget_microusd
    month,
    ledger,    \* table "usage_ledger"
    call,      \* the call a caller is making
    events,    \* changes of the settings and of the month so far
    billed,    \* the provider's side: what it bills for an attempt
    highest    \* history: the highest allowance in force in a month

budgetVars == <<key, allowance, month, ledger, call, events, billed, highest>>

LedgerRow == [state : {"none", "reserved", "complete", "uncertain", "released"},
              month : Months, reserved : Costs \cup {0}, actual : Nat \cup {Unknown}]
CallRecord == [step : {"idle", "reserved", "good", "odd", "lost", "broken", "returned", "failed"},
               op : Operations, row : {0} \cup Rows]

NoRow == [state |-> "none", month |-> 0, reserved |-> 0, actual |-> Unknown]
NoCall == [step |-> "idle", op |-> "text", row |-> 0]

BInit ==
    /\ key \in BOOLEAN
    /\ allowance \in Allowances
    /\ month = 0 /\ events = 0
    /\ ledger = [i \in Rows |-> NoRow]
    /\ call = [c \in Callers |-> NoCall]
    /\ billed = [i \in Rows |-> 0]
    /\ highest = [m \in Months |-> IF m = 0 THEN allowance ELSE 0]

-----------------------------------------------------------------------------
(* Settings and calendar                                                   *)

\* PUT /api/settings/provider: a key may be set, never cleared.
Set ==
    /\ events < MaxEvents
    /\ events' = events + 1
    /\ allowance' \in Allowances
    /\ key' \in {key, TRUE} /\ <<key, allowance>>' # <<key, allowance>>
    /\ highest' = [highest EXCEPT ![month] = IF @ < allowance' THEN allowance' ELSE @]
    /\ UNCHANGED <<month, ledger, call, billed>>

TurnMonth ==
    /\ events < MaxEvents
    /\ events' = events + 1
    /\ month' = month + 1
    /\ highest' = [highest EXCEPT ![month'] = allowance]
    /\ UNCHANGED <<key, allowance, ledger, call, billed>>

-----------------------------------------------------------------------------
(* One call                                                                *)

Amount(row) == IF row.actual = Unknown THEN row.reserved ELSE row.actual

MutantCounted(row) == row.state \in {"reserved", "complete"}
Counted(row) == row.state \in {"reserved", "complete", "uncertain"}

Total(f) ==
    LET sum[n \in 0..MaxCalls] == IF n = 0 THEN 0 ELSE sum[n - 1] + f[n]
    IN  sum[MaxCalls]

Charged(m) ==
    [i \in Rows |-> IF Counted(ledger[i]) /\ ledger[i].month = m THEN Amount(ledger[i]) ELSE 0]
Spent == Total(Charged(month))

MutantAllows(cost) == allowance > 0 /\ Spent <= allowance
Allows(cost) == allowance > 0 /\ Spent + cost <= allowance

To(c, step) == call' = [call EXCEPT ![c].step = step]
InRow(c, state, actual) ==
    ledger' = [ledger EXCEPT ![call[c].row].state = state, ![call[c].row].actual = actual]

Started(c, op) == call[c].step = "idle" /\ op \in Operations

\* Each attempt has a row of its own, whatever it repeats.
MutantFresh(row) == row.state \in {"none", "uncertain"}
Fresh(row) == row.state = "none"

\* reserve: the sum, the two checks and the INSERT are one immediate transaction.
Reserve(c, op, cost) ==
    /\ Started(c, op) /\ key /\ Allows(cost)
    /\ \E i \in Rows :
          /\ Fresh(ledger[i]) /\ \A j \in 1..(i - 1) : ~Fresh(ledger[j])
          /\ ledger' = [ledger EXCEPT ![i] =
                [state |-> "reserved", month |-> month, reserved |-> cost, actual |-> Unknown]]
          /\ call' = [call EXCEPT ![c] = [step |-> "reserved", op |-> op, row |-> i]]
    /\ UNCHANGED billed

\* BudgetUnavailable: no key, no allowance, or not enough of it left.
Refuse(c, op, cost) ==
    /\ Started(c, op) /\ ~(key /\ Allows(cost))
    /\ call' = [call EXCEPT ![c].step = "failed", ![c].op = op]
    /\ UNCHANGED <<ledger, billed>>

\* The constructor of the visual client fails before anything is sent.
Release(c) ==
    /\ call[c].step = "reserved" /\ call[c].op = "visual"
    /\ InRow(c, "released", Unknown) /\ To(c, "failed")
    /\ UNCHANGED billed

\* The request goes out: it is billed or not, and the answer is good, turns out to be
\* malformed after complete, or never comes.
Post(c) ==
    /\ call[c].step = "reserved"
    /\ \E bill \in 0..ledger[call[c].row].reserved, reply \in {"good", "odd", "lost"} :
          /\ billed' = [billed EXCEPT ![call[c].row] = bill]
          /\ To(c, reply)
    /\ UNCHANGED ledger

\* The estimate of the usage that the answer reports is at least 1.
Complete(c) ==
    /\ call[c].step \in {"good", "odd"}
    /\ InRow(c, "complete", Max({1, billed[call[c].row]}))
    /\ To(c, IF call[c].step = "good" THEN "returned" ELSE "broken")
    /\ UNCHANGED billed

\* An exception after the request went out, an error of complete among them: the row
\* keeps the actual cost it has.
MutantFailure == "released"
Failure == "uncertain"
MarkUncertain(c) ==
    /\ call[c].step \in {"good", "odd", "lost", "broken"}
    /\ InRow(c, Failure, ledger[call[c].row].actual) /\ To(c, "failed")
    /\ UNCHANGED billed

\* An error of mark_uncertain itself, or of release.
Leave(c) ==
    /\ call[c].step \in {"reserved", "good", "odd", "lost", "broken"}
    /\ To(c, "failed")
    /\ UNCHANGED <<ledger, billed>>

CallStep(c) ==
    /\ \/ \E op \in Operations, cost \in Costs : Reserve(c, op, cost) \/ Refuse(c, op, cost)
       \/ Release(c) \/ Post(c) \/ Complete(c) \/ MarkUncertain(c) \/ Leave(c)
    /\ UNCHANGED <<key, allowance, month, events, highest>>

\* The caller takes the result, or its process dies.
Return(c) ==
    /\ call' = [call EXCEPT ![c] = NoCall]
    /\ UNCHANGED <<key, allowance, month, ledger, events, billed, highest>>

-----------------------------------------------------------------------------
\* The variables keep their types, and no two callers settle the same row of the ledger.
BTypeOK ==
    /\ key \in BOOLEAN /\ allowance \in Allowances
    /\ month \in Months /\ events \in 0..MaxEvents
    /\ ledger \in [Rows -> LedgerRow] /\ call \in [Callers -> CallRecord]
    /\ billed \in [Rows -> Nat] /\ highest \in [Months -> Nat]
    /\ \A c, d \in Callers : c # d /\ call[c].row # 0 => call[c].row # call[d].row

\* Whatever answer was lost, malformed or not written down: what the provider may have
\* billed stays in the ledger, as a row that counts and is not smaller.  ("possibly
\* billed failures remain `uncertain` and count against the allowance", DECISIONS.md)
BilledIsCounted ==
    \A i \in Rows : billed[i] > 0 => Counted(ledger[i]) /\ billed[i] <= Amount(ledger[i])

\* Calls reserved at the same time by requests and jobs together never cost more than the
\* highest allowance that was in force in the month they were reserved in.
WithinAllowance ==
    \A m \in Months :
        Total([i \in Rows |-> IF ledger[i].month = m THEN billed[i] ELSE 0]) <= highest[m]
=============================================================================
