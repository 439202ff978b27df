------------------------- MODULE TransactionLedger -------------------------
(***************************************************************************)
(* process_payment: a payment is booked under the write lock, which is     *)
(* then downgraded, so that the audit reports the balance it has made.     *)
(***************************************************************************)
EXTENDS ConditionPrograms, Integers

CONSTANTS InitialBalance, Amounts

\* made is what a payment has made of the balance; the code does not keep it.
\* Every caller books one payment, of one of the amounts.
LedgerInit ==
  /\ program = "ledger"
  /\ pc = [t \in Caller |-> "pay"]
  /\ \E amount \in [Caller -> Amounts] :
       data = [balance |-> InitialBalance, log |-> << >>, amount |-> amount,
               made |-> [t \in Caller |-> None], audited |-> [t \in Caller |-> None]]

StartPayment(t) == Move(t, "pay", "book") /\ Acquire(t, "write") /\ UNCHANGED data

Funded(t) == data.balance + data.amount[t] >= 0

Book(t) ==
  /\ Funded(t)
  /\ Move(t, "book", "booked")
  /\ data' = [data EXCEPT !.balance = @ + data.amount[t],
                          !.log = Append(@, t),
                          !.made[t] = data.balance + data.amount[t]]
  /\ NoCondition

\* ValueError: the finally clause releases the write lock.
Refuse(t) == ~Funded(t) /\ Move(t, "book", "leave") /\ NoCondition /\ UNCHANGED data

\* Mutant: the write lock is released and the read lock taken later.
ReleaseBeforeAudit(t) == Move(t, "booked", "audit") /\ Release(t) /\ UNCHANGED data

KeepReading(t) == Move(t, "booked", "audit") /\ Downgrade(t) /\ UNCHANGED data

\* _dispatch_audit_event is called with the balance, and takes its time.
Audit(t) ==
  /\ Move(t, "audit", "leave")
  /\ data' = [data EXCEPT !.audited[t] = data.balance]
  /\ NoCondition

EndPayment(t) == Move(t, "leave", "end") /\ Release(t) /\ UNCHANGED data

LedgerStep(t) ==
  \/ StartPayment(t)
  \/ Book(t)
  \/ Refuse(t)
  \/ KeepReading(t)
  \/ Audit(t)
  \/ EndPayment(t)

\* The downgrade "strictly blocks other writers until auditing is done": the audit
\* of a payment reports the balance that this very payment has made, and nothing is
\* booked between the two.
AuditSeesOwnPayment ==
  program = "ledger" =>
    \A t \in Caller :
      /\ data.audited[t] \in {None, data.made[t]}
      /\ pc[t] \in {"booked", "audit"} => data.log[Len(data.log)] = t

=============================================================================
