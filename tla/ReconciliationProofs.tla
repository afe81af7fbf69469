------------------------ MODULE ReconciliationProofs ------------------------
(***************************************************************************)
(* Proofs about Reconciliation, for any number of sessions and rows.       *)
(*                                                                         *)
(* The argument: the period locks of the sessions that hold theirs are     *)
(* disjoint, every operation holds the period of the payment (and, unless  *)
(* it is a credit dated elsewhere, of the charges) it will write, so what  *)
(* it read under the locks still is the row when it commits, although      *)
(* nothing compares versions.                                              *)
(***************************************************************************)
EXTENDS Reconciliation, FiniteSums, SequenceTheorems

AllocationRow == [payment : Payment, charge : Charge, amount : Nat \ {0},
                  status : {"ACTIVE", "REVERSED"}]

PaymentShape == payment = [m \in Payment |-> payment[m]]

Shapes ==
    /\ PaymentShape
    /\ allocation \in Seq(AllocationRow)
    /\ pc \in [Session -> {"idle", "waiting", "holding"}]
    /\ op = [t \in Session |-> op[t]]
    /\ locks = [t \in Session |-> locks[t]]
    /\ fresh = [t \in Session |-> fresh[t]]

(* The payment an operation writes, and the charges it reads. *)
PaymentOf(t) ==
    IF op[t].kind = "reverse" THEN allocation[op[t].allocation].payment ELSE op[t].payment
ChargesRead(t) ==
    IF op[t].kind = "approve" THEN DOMAIN op[t].lines
    ELSE IF op[t].kind = "reverse" THEN {allocation[op[t].allocation].charge}
    ELSE {op[t].charge}

(* What an operation under way was asked, and which periods it locks. *)
Asked(t) ==
    /\ op[t].kind \in Operations
    /\ op[t].kind = "approve" => op[t].lines \in Lines
    /\ op[t].kind = "reverse" => op[t].allocation \in DOMAIN allocation
    /\ op[t].kind = "providerReversal" => op[t].rows \subseteq DOMAIN allocation
    /\ op[t].kind \in {"credit", "datedCredit"} => op[t].charge \in Charge /\ op[t].amount \in Nat \ {0}
    /\ op[t].kind \in {"approve", "reverse", "providerReversal"} =>
          PaymentOf(t) \in Payment /\ PaymentPeriod[PaymentOf(t)] \in locks[t]
    /\ op[t].kind \in {"approve", "reverse", "credit"} =>
          \A c \in ChargesRead(t) : c \in Charge /\ ChargePeriod[c] \in locks[t]

Requests == \A t \in Session : pc[t] # "idle" => Asked(t)

LocksDisjoint ==
    \A t, u \in Session :
        t # u /\ pc[t] = "holding" /\ pc[u] = "holding" => locks[t] \cap locks[u] = {}

(* The payment read under the locks still is the row, and it is live. *)
PaymentStands ==
    \A t \in Session :
        pc[t] = "holding" /\ op[t].kind \in {"approve", "reverse"} =>
            /\ fresh[t].payment = payment[PaymentOf(t)]
            /\ payment[PaymentOf(t)].status # "REVERSED"

(* What was read under the locks has the versions of the approver's page. *)
SeenIsRead ==
    \A t \in Session :
        pc[t] = "holding" /\ op[t].kind = "approve" =>
            /\ fresh[t].payment.version = op[t].seenPayment
            /\ \A c \in DOMAIN op[t].lines : fresh[t].charges[c].version = op[t].seenCharges[c]

ReversedIsEmpty ==
    \A m \in Payment : payment[m].status = "REVERSED" => payment[m].allocated = 0

IInv ==
    /\ Shapes
    /\ Requests
    /\ LocksDisjoint
    /\ PaymentStands
    /\ SeenIsRead
    /\ ReversedIsEmpty

----------------------------------------------------------------------------
(* A sequence of all the elements of a finite set. *)
LEMMA SetToSeqType ==
  ASSUME NEW S, IsFiniteSet(S)
  PROVE  SetToSeq(S) \in [1..Cardinality(S) -> S] /\ Cardinality(S) \in Nat
<1>1. Cardinality(S) \in Nat /\ ExistsBijection(1..Cardinality(S), S)
  BY FS_CardinalityType
<1>2. PICK f \in [1..Cardinality(S) -> S] : IsInjective(f)
  BY <1>1 DEF ExistsBijection, Bijection, Injection
<1> QED
  BY <1>1, <1>2 DEF SetToSeq

(* The lines of an approval are amounts above zero for some charges. *)
LEMMA LinesType ==
  ASSUME NEW f \in Lines
  PROVE  /\ DOMAIN f \subseteq Charge
         /\ \A c \in DOMAIN f : f[c] \in Nat \ {0} /\ f[c] <= ChargeAmount[c]
         /\ IsFiniteSet(DOMAIN f)
<1>1. PICK S \in SUBSET Charge \ {{}} : f \in [S -> Cents] /\ \A c \in S : f[c] <= ChargeAmount[c]
  BY DEF Lines
<1>2. Cents \subseteq Nat \ {0}
  BY ColumnAssumption DEF Cents
<1> QED
  BY <1>1, <1>2, FS_Subset, ColumnAssumption

(* approve inserts well-formed rows. *)
LEMMA NewAllocationsType ==
  ASSUME NEW m \in Payment, NEW f \in Lines
  PROVE  NewAllocations(m, f) \in Seq(AllocationRow)
<1> DEFINE order == SetToSeq(DOMAIN f)
<1> DEFINE n == Cardinality(DOMAIN f)
<1>1. order \in [1..n -> DOMAIN f] /\ n \in Nat
  BY LinesType, SetToSeqType
<1> HIDE DEF order, n
<1>2. \A i \in 1..n : order[i] \in Charge /\ f[order[i]] \in Nat \ {0}
  BY <1>1, LinesType
<1> DEFINE rows == [i \in 1..n |-> [payment |-> m, charge |-> order[i],
                                    amount |-> f[order[i]], status |-> "ACTIVE"]]
<1>3. rows \in [1..n -> AllocationRow]
  BY <1>2 DEF AllocationRow
<1>4. rows \in Seq(AllocationRow)
  BY <1>1, <1>3, IsASeq
<1>5. NewAllocations(m, f) = rows
  BY <1>1 DEF NewAllocations, order
<1> QED
  BY <1>4, <1>5

(* Rows are added and never changed but in their status. *)
Grows ==
    /\ allocation' \in Seq(AllocationRow)
    /\ DOMAIN allocation \subseteq DOMAIN allocation'
    /\ \A i \in DOMAIN allocation :
          /\ allocation'[i].payment = allocation[i].payment
          /\ allocation'[i].charge = allocation[i].charge
          /\ allocation'[i].amount = allocation[i].amount

(* The insert of an approval adds rows after those there are. *)
LEMMA AppendingGrows ==
  ASSUME Shapes, NEW rows \in Seq(AllocationRow), allocation' = allocation \o rows
  PROVE  Grows
<1>1. /\ DOMAIN allocation = 1..Len(allocation) /\ Len(allocation) \in Nat
      /\ Len(rows) \in Nat
  BY LenProperties DEF Shapes, PaymentShape
<1>2. /\ allocation' \in Seq(AllocationRow)
      /\ Len(allocation') = Len(allocation) + Len(rows)
      /\ \A i \in 1..Len(allocation) : allocation'[i] = allocation[i]
  BY <1>1, ConcatProperties DEF Shapes, PaymentShape
<1>3. DOMAIN allocation' = 1..Len(allocation')
  BY <1>2, LenProperties
<1> QED
  BY <1>1, <1>2, <1>3 DEF Grows

(* Unwinding marks rows and leaves as many as there are. *)
LEMMA UnwindingGrows ==
  ASSUME Shapes, NEW S, allocation' = Unwind(S)
  PROVE  Grows /\ Len(allocation') = Len(allocation)
<1>1. /\ DOMAIN allocation = 1..Len(allocation) /\ Len(allocation) \in Nat
      /\ allocation \in [1..Len(allocation) -> AllocationRow]
  BY LenProperties DEF Shapes, PaymentShape
<1>2. \A i \in 1..Len(allocation) :
         /\ Unwind(S)[i] \in AllocationRow
         /\ Unwind(S)[i].payment = allocation[i].payment
         /\ Unwind(S)[i].charge = allocation[i].charge
         /\ Unwind(S)[i].amount = allocation[i].amount
  BY <1>1 DEF Unwind, AllocationRow
<1>3. Unwind(S) \in [1..Len(allocation) -> AllocationRow]
  BY <1>1, <1>2 DEF Unwind
<1>4. Unwind(S) \in Seq(AllocationRow) /\ Len(Unwind(S)) = Len(allocation)
  BY <1>1, <1>3, IsASeq, LenProperties
<1> QED
  BY <1>1, <1>2, <1>3, <1>4 DEF Grows

(* A step that leaves the allocations alone. *)
LEMMA StandingGrows ==
  ASSUME Shapes, UNCHANGED allocation
  PROVE  Grows
  BY DEF Grows, Shapes, PaymentShape

----------------------------------------------------------------------------
(* The three shapes of a step of one session. *)

(* A session starts to wait for the locks of its request. *)
LEMMA LoadIInv ==
  ASSUME IInv, NEW t \in Session, NEW r, NEW P, Load(t, r, P), Asked(t)'
  PROVE  IInv'
<1>1. /\ pc[t] = "idle" /\ pc' = Put(pc, t, "waiting") /\ op' = Put(op, t, r)
      /\ locks' = Put(locks, t, P)
      /\ fresh' = fresh /\ payment' = payment /\ allocation' = allocation
  BY DEF Load, tables
<1>2. pc'[t] = "waiting" /\ \A u \in Session \ {t} :
         pc'[u] = pc[u] /\ op'[u] = op[u] /\ locks'[u] = locks[u]
  BY <1>1 DEF IInv, Shapes, PaymentShape, Put
<1>3. Shapes'
  BY <1>1 DEF IInv, Shapes, PaymentShape, Put
<1>4. Requests'
  <2>1. ASSUME NEW u \in Session \ {t}, pc'[u] # "idle" PROVE Asked(u)'
    BY <1>1, <1>2, <2>1 DEF IInv, Requests, Asked, PaymentOf, ChargesRead
  <2> QED
    BY <2>1 DEF Requests
<1>5. LocksDisjoint'
  BY <1>2 DEF IInv, LocksDisjoint
<1>6. PaymentStands'
  BY <1>1, <1>2 DEF IInv, PaymentStands, PaymentOf
<1>7. SeenIsRead'
  BY <1>1, <1>2 DEF IInv, SeenIsRead
<1>8. ReversedIsEmpty'
  BY <1>1 DEF IInv, ReversedIsEmpty
<1> QED
  BY <1>3, <1>4, <1>5, <1>6, <1>7, <1>8 DEF IInv

(* A session gets its locks and keeps what it reads, or is refused. *)
LEMMA KeepIInv ==
  ASSUME IInv, NEW t \in Session, NEW kinds, NEW accepted, NEW row, NEW rows,
         Granted(t, kinds), Keep(t, accepted, row, rows),
         accepted /\ op[t].kind \in {"approve", "reverse"} =>
             row = payment[PaymentOf(t)] /\ row.status # "REVERSED",
         accepted /\ op[t].kind = "approve" =>
             /\ row.version = op[t].seenPayment
             /\ \A c \in DOMAIN op[t].lines : rows[c].version = op[t].seenCharges[c]
  PROVE  IInv'
<1>1. payment' = payment /\ allocation' = allocation
  BY DEF Keep, tables
<1>2. pc[t] = "waiting" /\ LocksFree(locks[t], t)
  BY DEF Granted
<1>3. CASE accepted
  <2>1. /\ pc' = Put(pc, t, "holding") /\ op' = op /\ locks' = locks
        /\ fresh' = Put(fresh, t, [payment |-> row, charges |-> rows])
    BY <1>3 DEF Keep
  <2>2. /\ pc'[t] = "holding" /\ fresh'[t] = [payment |-> row, charges |-> rows]
        /\ \A u \in Session \ {t} : pc'[u] = pc[u] /\ fresh'[u] = fresh[u]
    BY <2>1 DEF IInv, Shapes, PaymentShape, Put
  <2>3. Shapes'
    BY <1>1, <2>1 DEF IInv, Shapes, PaymentShape, Put
  <2>4. Requests'
    <3>1. ASSUME NEW u \in Session, pc'[u] # "idle" PROVE Asked(u)'
      <4>1. Asked(u)
        BY <1>2, <2>2, <3>1 DEF IInv, Requests
      <4> QED
        BY <1>1, <2>1, <4>1 DEF Asked, PaymentOf, ChargesRead
    <3> QED
      BY <3>1 DEF Requests
  <2>5. LocksDisjoint'
    BY <1>2, <2>1, <2>2 DEF IInv, LocksDisjoint, LocksFree
  <2>6. PaymentStands'
    BY <1>1, <1>3, <2>1, <2>2 DEF IInv, PaymentStands, PaymentOf
  <2>7. SeenIsRead'
    BY <1>3, <2>1, <2>2 DEF IInv, SeenIsRead
  <2>8. ReversedIsEmpty'
    BY <1>1 DEF IInv, ReversedIsEmpty
  <2> QED
    BY <2>3, <2>4, <2>5, <2>6, <2>7, <2>8 DEF IInv
<1>4. CASE ~accepted
  <2>1. /\ pc' = Put(pc, t, "idle") /\ op' = Put(op, t, Idle) /\ locks' = Put(locks, t, {})
        /\ fresh' = Put(fresh, t, NothingRead)
    BY <1>4 DEF Keep, Finish
  <2>2. /\ pc'[t] = "idle"
        /\ \A u \in Session \ {t} : pc'[u] = pc[u] /\ op'[u] = op[u]
              /\ locks'[u] = locks[u] /\ fresh'[u] = fresh[u]
    BY <2>1 DEF IInv, Shapes, PaymentShape, Put
  <2>3. Shapes'
    BY <1>1, <2>1 DEF IInv, Shapes, PaymentShape, Put
  <2>4. Requests'
    BY <1>1, <2>2 DEF IInv, Requests, Asked, PaymentOf, ChargesRead
  <2>5. LocksDisjoint'
    BY <2>2 DEF IInv, LocksDisjoint
  <2>6. PaymentStands' /\ SeenIsRead' /\ ReversedIsEmpty'
    BY <1>1, <2>2 DEF IInv, PaymentStands, SeenIsRead, ReversedIsEmpty, PaymentOf
  <2> QED
    BY <2>3, <2>4, <2>5, <2>6 DEF IInv
<1> QED
  BY <1>3, <1>4

(* A step of a session writes only payments whose period it has locked. *)
WritesLocked(t) ==
    \A m \in Payment :
        payment'[m] # payment[m] => pc[t] = "holding" /\ PaymentPeriod[m] \in locks[t]

(* A session ends, having written at most the payments it has locked. *)
LEMMA FinishIInv ==
  ASSUME IInv, NEW t \in Session, Finish(t), Grows,
         PaymentShape', WritesLocked(t), ReversedIsEmpty'
  PROVE  IInv'
<1>1. /\ pc' = Put(pc, t, "idle") /\ op' = Put(op, t, Idle) /\ locks' = Put(locks, t, {})
      /\ fresh' = Put(fresh, t, NothingRead)
  BY DEF Finish
<1>2. /\ pc'[t] = "idle"
      /\ \A u \in Session \ {t} : pc'[u] = pc[u] /\ op'[u] = op[u]
            /\ locks'[u] = locks[u] /\ fresh'[u] = fresh[u]
  BY <1>1 DEF IInv, Shapes, PaymentShape, Put
<1>3. Shapes'
  BY <1>1 DEF IInv, Shapes, PaymentShape, Put, Grows
<1>4. ASSUME NEW u \in Session \ {t}, Asked(u)
      PROVE  /\ op[u].kind = "reverse" => allocation'[op[u].allocation].payment
                                            = allocation[op[u].allocation].payment
             /\ op[u].kind = "reverse" => allocation'[op[u].allocation].charge
                                            = allocation[op[u].allocation].charge
  BY <1>4 DEF Asked, Grows
<1>5. ASSUME NEW u \in Session \ {t}, Asked(u)
      PROVE  Asked(u)' /\ PaymentOf(u)' = PaymentOf(u)
  <2>1. PaymentOf(u)' = PaymentOf(u) /\ ChargesRead(u)' = ChargesRead(u)
    BY <1>2, <1>4, <1>5 DEF PaymentOf, ChargesRead
  <2> QED
    BY <1>2, <1>5, <2>1 DEF Asked, Grows
<1>6. Requests'
  BY <1>2, <1>5 DEF IInv, Requests
<1>7. LocksDisjoint'
  BY <1>2 DEF IInv, LocksDisjoint
<1>8. PaymentStands'
  <2> SUFFICES ASSUME NEW u \in Session, pc'[u] = "holding", op'[u].kind \in {"approve", "reverse"}
               PROVE  /\ fresh'[u].payment = payment'[PaymentOf(u)']
                      /\ payment'[PaymentOf(u)'].status # "REVERSED"
    BY DEF PaymentStands
  <2>1. u # t /\ pc[u] = "holding" /\ op[u].kind \in {"approve", "reverse"} /\ Asked(u)
    BY <1>2 DEF IInv, Requests
  <2>2. PaymentOf(u) \in Payment /\ PaymentPeriod[PaymentOf(u)] \in locks[u]
    BY <2>1 DEF Asked
  <2>3. payment'[PaymentOf(u)] = payment[PaymentOf(u)]
    BY <2>1, <2>2 DEF IInv, LocksDisjoint, WritesLocked
  <2> QED
    BY <1>2, <1>5, <2>1, <2>3 DEF IInv, PaymentStands
<1>9. SeenIsRead'
  BY <1>2 DEF IInv, SeenIsRead
<1> QED
  BY <1>3, <1>6, <1>7, <1>8, <1>9 DEF IInv

----------------------------------------------------------------------------
(* The actions. *)

(* Init satisfies the invariant. *)
LEMMA InitIInv == Init => IInv
<1> SUFFICES ASSUME Init PROVE IInv
  OBVIOUS
<1>1. Shapes
  BY EmptySeq DEF Init, Shapes, PaymentShape
<1>2. Requests /\ LocksDisjoint /\ PaymentStands /\ SeenIsRead
  BY DEF Init, Requests, LocksDisjoint, PaymentStands, SeenIsRead
<1>3. ReversedIsEmpty
  BY DEF Init, ReversedIsEmpty, NoPayment
<1> QED
  BY <1>1, <1>2, <1>3 DEF IInv

(* What Load records of a request. *)
LEMMA LoadRecords ==
  ASSUME IInv, NEW t \in Session, NEW r, NEW P, Load(t, r, P)
  PROVE  op'[t] = r /\ locks'[t] = P /\ allocation' = allocation /\ r.kind \in Operations
  BY DEF Load, IInv, Shapes, PaymentShape, Put, tables

(* approve, before its locks. *)
LEMMA LoadApprovalIInv ==
  ASSUME IInv, NEW t \in Session, LoadApproval(t)
  PROVE  IInv'
<1>1. PICK m \in Payment, f \in Lines :
        Load(t,
             [kind |-> "approve", payment |-> m, lines |-> f,
              seenPayment |-> payment[m].version,
              seenCharges |-> [c \in DOMAIN f |-> charge[c].version]],
             {PaymentPeriod[m]} \cup {ChargePeriod[c] : c \in DOMAIN f})
  BY DEF LoadApproval
<1>2. /\ op'[t].kind = "approve" /\ op'[t].payment = m /\ op'[t].lines = f
      /\ locks'[t] = {PaymentPeriod[m]} \cup {ChargePeriod[c] : c \in DOMAIN f}
      /\ op'[t].kind \in Operations
  BY <1>1, LoadRecords
<1>3. Asked(t)'
  BY <1>2, LinesType DEF Asked, PaymentOf, ChargesRead
<1> QED
  BY <1>1, <1>3, LoadIInv

(* reverse, before its locks. *)
LEMMA LoadReversalIInv ==
  ASSUME IInv, NEW t \in Session, LoadReversal(t)
  PROVE  IInv'
<1>1. PICK i \in DOMAIN allocation, posting \in Period :
        Load(t, [kind |-> "reverse", allocation |-> i], {posting} \cup ReversalLocks(i))
  BY DEF LoadReversal
<1>2. /\ op'[t].kind = "reverse" /\ op'[t].allocation = i /\ allocation' = allocation
      /\ locks'[t] = {posting} \cup ReversalLocks(i) /\ op'[t].kind \in Operations
  BY <1>1, LoadRecords
<1>3. allocation[i] \in AllocationRow
  BY LenProperties DEF IInv, Shapes, PaymentShape
<1>4. Asked(t)'
  BY <1>2, <1>3 DEF Asked, PaymentOf, ChargesRead, ReversalLocks, AllocationRow
<1> QED
  BY <1>1, <1>4, LoadIInv

(* createCredit, before its lock. *)
LEMMA LoadCreditIInv ==
  ASSUME IInv, NEW t \in Session, LoadCredit(t)
  PROVE  IInv'
<1>1. PICK c \in Charge, n \in Cents, posting \in Period, kind \in {"credit", "datedCredit"} :
        /\ kind = "credit" => posting = ChargePeriod[c]
        /\ Load(t, [kind |-> kind, charge |-> c, amount |-> n], {posting})
  BY DEF LoadCredit
<1>2. /\ op'[t].kind = kind /\ op'[t].charge = c /\ op'[t].amount = n
      /\ locks'[t] = {posting} /\ op'[t].kind \in Operations
  BY <1>1, LoadRecords
<1>3. n \in Nat \ {0}
  BY ColumnAssumption DEF Cents
<1>4. Asked(t)'
  BY <1>1, <1>2, <1>3 DEF Asked, PaymentOf, ChargesRead
<1> QED
  BY <1>1, <1>4, LoadIInv

(* applyProviderReversal, before its locks. *)
LEMMA LoadProviderReversalIInv ==
  ASSUME IInv, NEW t \in Session, LoadProviderReversal(t)
  PROVE  IInv'
<1>1. PICK m \in Payment :
        Load(t,
             [kind |-> "providerReversal", payment |-> m, rows |-> ActiveOf(m),
              charges |-> [c \in ChargesOf(ActiveOf(m)) |-> charge[c]]],
             {PaymentPeriod[m]} \cup {ChargePeriod[c] : c \in ChargesOf(ActiveOf(m))})
  BY DEF LoadProviderReversal
<1>2. /\ op'[t].kind = "providerReversal" /\ op'[t].payment = m /\ op'[t].rows = ActiveOf(m)
      /\ locks'[t] = {PaymentPeriod[m]} \cup {ChargePeriod[c] : c \in ChargesOf(ActiveOf(m))}
      /\ allocation' = allocation /\ op'[t].kind \in Operations
  BY <1>1, LoadRecords
<1>3. Asked(t)'
  BY <1>2 DEF Asked, PaymentOf, ActiveOf
<1> QED
  BY <1>1, <1>3, LoadIInv

(* The four operations under their locks. *)
LEMMA EnterIInv ==
  ASSUME IInv, NEW t \in Session,
         EnterApproval(t) \/ EnterReversal(t) \/ EnterCredit(t) \/ EnterProviderReversal(t)
  PROVE  IInv'
<1>1. CASE EnterApproval(t)
  <2> DEFINE row == payment[op[t].payment]
  <2> DEFINE rows == [c \in DOMAIN op[t].lines |-> charge[c]]
  <2> DEFINE accepted == VersionsUnchanged(t) /\ planAllocation(op[t].payment, row, op[t].lines, rows)
  <2>1. Granted(t, {"approve"}) /\ Keep(t, accepted, row, rows)
    BY <1>1 DEF EnterApproval
  <2>2. op[t].kind = "approve" /\ PaymentOf(t) = op[t].payment
    BY <2>1 DEF Granted, PaymentOf
  <2>3. accepted => row.status # "REVERSED"
    BY DEF planAllocation
  <2>4. accepted => /\ row.version = op[t].seenPayment
                    /\ \A c \in DOMAIN op[t].lines : rows[c].version = op[t].seenCharges[c]
    BY DEF VersionsUnchanged
  <2> HIDE DEF accepted, row, rows
  <2>5. row = payment[PaymentOf(t)]
    BY <2>2 DEF row
  <2> QED
    BY <2>1, <2>3, <2>4, <2>5, KeepIInv
<1>2. CASE EnterReversal(t)
  <2> DEFINE a == allocation[op[t].allocation]
  <2> DEFINE row == payment[a.payment]
  <2> DEFINE rows == [c \in {a.charge} |-> charge[c]]
  <2> DEFINE accepted == planReversal(a.amount, row, rows, a.charge)
  <2>1. Granted(t, {"reverse"}) /\ Keep(t, accepted, row, rows)
    BY <1>2 DEF EnterReversal
  <2>2. op[t].kind = "reverse" /\ PaymentOf(t) = a.payment /\ Asked(t)
    BY <2>1 DEF Granted, PaymentOf, IInv, Requests
  <2>3. a \in AllocationRow
    BY <2>2, LenProperties DEF IInv, Shapes, PaymentShape, Asked
  <2>4. accepted => row.status # "REVERSED"
    BY <2>3 DEF planReversal, IInv, ReversedIsEmpty, AllocationRow
  <2>5. row = payment[PaymentOf(t)]
    BY <2>2
  <2> HIDE DEF accepted, row, rows
  <2> QED
    BY <2>1, <2>2, <2>4, <2>5, KeepIInv
<1>3. CASE EnterCredit(t)
  <2>1. /\ Granted(t, {"credit", "datedCredit"})
        /\ Keep(t, op[t].amount <= Creditable(charge[op[t].charge], op[t].charge),
                NoPayment, [c \in {op[t].charge} |-> charge[c]])
    BY <1>3 DEF EnterCredit
  <2>2. op[t].kind \notin {"approve", "reverse"}
    BY <2>1 DEF Granted
  <2> QED
    BY <2>1, <2>2, KeepIInv
<1>4. CASE EnterProviderReversal(t)
  <2>1. Granted(t, {"providerReversal"}) /\ Keep(t, TRUE, NoPayment, <<>>)
    BY <1>4 DEF EnterProviderReversal
  <2>2. op[t].kind \notin {"approve", "reverse"}
    BY <2>1 DEF Granted
  <2> QED
    BY <2>1, <2>2, KeepIInv
<1> QED
  BY <1>1, <1>2, <1>3, <1>4

(* A session ends and writes neither payments nor allocations. *)
LEMMA UntouchedIInv ==
  ASSUME IInv, NEW t \in Session, Finish(t), UNCHANGED <<payment, allocation>>
  PROVE  IInv'
<1>1. Grows
  BY StandingGrows DEF IInv
<1>2. PaymentShape' /\ WritesLocked(t) /\ ReversedIsEmpty'
  BY DEF PaymentShape, WritesLocked, ReversedIsEmpty, IInv, Shapes
<1> QED
  BY <1>1, <1>2, FinishIInv

(* The commit of an approval. *)
LEMMA CommitApprovalIInv ==
  ASSUME IInv, NEW t \in Session, CommitApproval(t)
  PROVE  IInv'
<1>1. pc[t] = "holding" /\ op[t].kind = "approve" /\ Finish(t) /\ Asked(t)
  BY DEF CommitApproval, IInv, Requests
<1>2. CASE ~SwapSucceeds(t)
  BY <1>1, <1>2, UntouchedIInv DEF CommitApproval, tables
<1>3. CASE SwapSucceeds(t)
  <2> DEFINE m == op[t].payment
  <2>1. ApproveRows(t)
    BY <1>3 DEF CommitApproval
  <2>2. /\ m \in Payment /\ PaymentPeriod[m] \in locks[t] /\ op[t].lines \in Lines
        /\ PaymentOf(t) = m
    BY <1>1 DEF Asked, PaymentOf
  <2>3. Grows
    BY <2>1, <2>2, NewAllocationsType, AppendingGrows DEF ApproveRows, IInv
  <2>4. \E n, v : payment' = Put(payment, m, PaymentRow(m, fresh[t].payment.status, n, v))
    BY <2>1 DEF ApproveRows
  <2>5. fresh[t].payment.status # "REVERSED"
    BY <1>1, <2>2 DEF IInv, PaymentStands
  <2>6. /\ PaymentShape'
        /\ \A x \in Payment \ {m} : payment'[x] = payment[x]
        /\ payment'[m].status # "REVERSED"
    <3>1. \E row : payment' = Put(payment, m, row) /\ row.status # "REVERSED"
      <4>1. PICK n, v : payment' = Put(payment, m, PaymentRow(m, fresh[t].payment.status, n, v))
        BY <2>4
      <4>2. PaymentRow(m, fresh[t].payment.status, n, v).status # "REVERSED"
        BY <2>5 DEF PaymentRow, nextTransactionStatus
      <4> QED
        BY <4>1, <4>2
    <3>2. PICK row : payment' = [payment EXCEPT ![m] = row] /\ row.status # "REVERSED"
      BY <3>1 DEF Put
    <3>3. payment = [x \in Payment |-> payment[x]]
      BY DEF IInv, Shapes, PaymentShape
    <3> HIDE DEF m
    <3> QED
      BY <2>2, <3>2, <3>3 DEF PaymentShape
  <2>7. ReversedIsEmpty'
    BY <2>6 DEF IInv, ReversedIsEmpty
  <2>8. WritesLocked(t)
    BY <1>1, <2>2, <2>6 DEF WritesLocked
  <2> QED
    BY <1>1, <2>3, <2>6, <2>7, <2>8, FinishIInv
<1> QED
  BY <1>2, <1>3

(* The commit of a reversal. *)
LEMMA CommitReversalIInv ==
  ASSUME IInv, NEW t \in Session, CommitReversal(t)
  PROVE  IInv'
<1>1. pc[t] = "holding" /\ op[t].kind = "reverse" /\ Finish(t) /\ Asked(t)
  BY DEF CommitReversal, IInv, Requests
<1>2. CASE allocation[op[t].allocation].status # "ACTIVE"
  BY <1>1, <1>2, UntouchedIInv DEF CommitReversal, tables
<1>3. CASE allocation[op[t].allocation].status = "ACTIVE"
  <2> DEFINE m == allocation[op[t].allocation].payment
  <2>1. ReverseRows(t)
    BY <1>3 DEF CommitReversal
  <2>2. m \in Payment /\ PaymentPeriod[m] \in locks[t] /\ PaymentOf(t) = m
    BY <1>1 DEF Asked, PaymentOf
  <2>3. Grows
    BY <2>1, UnwindingGrows DEF ReverseRows, IInv
  <2>4. \E n, v : payment' = Put(payment, m, PaymentRow(m, fresh[t].payment.status, n, v))
    BY <2>1 DEF ReverseRows
  <2>5. fresh[t].payment.status # "REVERSED"
    BY <1>1, <2>2 DEF IInv, PaymentStands
  <2>6. /\ PaymentShape'
        /\ \A x \in Payment \ {m} : payment'[x] = payment[x]
        /\ payment'[m].status # "REVERSED"
    <3>1. \E row : payment' = Put(payment, m, row) /\ row.status # "REVERSED"
      <4>1. PICK n, v : payment' = Put(payment, m, PaymentRow(m, fresh[t].payment.status, n, v))
        BY <2>4
      <4>2. PaymentRow(m, fresh[t].payment.status, n, v).status # "REVERSED"
        BY <2>5 DEF PaymentRow, nextTransactionStatus
      <4> QED
        BY <4>1, <4>2
    <3>2. PICK row : payment' = [payment EXCEPT ![m] = row] /\ row.status # "REVERSED"
      BY <3>1 DEF Put
    <3>3. payment = [x \in Payment |-> payment[x]]
      BY DEF IInv, Shapes, PaymentShape
    <3> HIDE DEF m
    <3> QED
      BY <2>2, <3>2, <3>3 DEF PaymentShape
  <2>7. ReversedIsEmpty'
    BY <2>6 DEF IInv, ReversedIsEmpty
  <2>8. WritesLocked(t)
    BY <1>1, <2>2, <2>6 DEF WritesLocked
  <2> QED
    BY <1>1, <2>3, <2>6, <2>7, <2>8, FinishIInv
<1> QED
  BY <1>2, <1>3

(* The commit of a provider reversal: its payment ends REVERSED and empty. *)
LEMMA CommitProviderReversalIInv ==
  ASSUME IInv, NEW t \in Session, CommitProviderReversal(t)
  PROVE  IInv'
<1> DEFINE m == op[t].payment
<1>1. /\ pc[t] = "holding" /\ op[t].kind = "providerReversal" /\ Finish(t) /\ Asked(t)
      /\ allocation' = Unwind(StillActive(t))
      /\ payment' = Put(payment, m, PaymentRow(m, "REVERSED", 0, payment[m].version + 1))
  BY DEF CommitProviderReversal, IInv, Requests
<1>2. m \in Payment /\ PaymentPeriod[m] \in locks[t]
  BY <1>1 DEF Asked, PaymentOf
<1>3. Grows
  BY <1>1, UnwindingGrows DEF IInv
<1>4. /\ PaymentShape'
      /\ \A x \in Payment \ {m} : payment'[x] = payment[x]
      /\ payment'[m].allocated = 0
  BY <1>1, <1>2 DEF IInv, Shapes, PaymentShape, Put, PaymentRow
<1>5. ReversedIsEmpty'
  BY <1>4 DEF IInv, ReversedIsEmpty
<1>6. WritesLocked(t)
  BY <1>1, <1>2, <1>4 DEF WritesLocked
<1> QED
  BY <1>1, <1>3, <1>4, <1>5, <1>6, FinishIInv

(* A credit, a rollback and the births of charges leave payments alone. *)
LEMMA OtherIInv ==
  ASSUME IInv, NEW t \in Session, CommitCredit(t) \/ Rollback(t)
  PROVE  IInv'
  BY UntouchedIInv DEF CommitCredit, Rollback, tables

(* The births of charges and payments. *)
LEMMA BirthIInv ==
  ASSUME IInv, (\E p \in Period : Generate(p)) \/ (\E m \in Payment : Ingest(m))
  PROVE  IInv'
<1>1. UNCHANGED <<allocation, session>>
  BY DEF Generate, Ingest
<1>2. CASE \E p \in Period : Generate(p)
  <2>1. UNCHANGED <<payment, allocation, session>>
    BY <1>2 DEF Generate
  <2> QED
    BY <2>1 DEF IInv, Shapes, PaymentShape, Requests, Asked, LocksDisjoint, PaymentStands, SeenIsRead,
                ReversedIsEmpty, PaymentOf, ChargesRead, session
<1>3. CASE \E m \in Payment : Ingest(m)
  <2>1. PICK m \in Payment : Ingest(m)
    BY <1>3
  <2>2. /\ payment' = Put(payment, m, PaymentRow(m, "UNAPPLIED", 0, 1))
        /\ \A t \in Session : pc[t] = "holding" => PaymentPeriod[m] \notin locks[t]
    BY <2>1 DEF Ingest
  <2>3. /\ PaymentShape'
        /\ \A x \in Payment \ {m} : payment'[x] = payment[x]
        /\ payment'[m].allocated = 0
    BY <2>2 DEF IInv, Shapes, PaymentShape, Put, PaymentRow
  <2>4. Shapes' /\ ReversedIsEmpty'
    BY <1>1, <2>3 DEF IInv, Shapes, PaymentShape, ReversedIsEmpty, session
  <2>5. Requests' /\ LocksDisjoint' /\ SeenIsRead'
    BY <1>1 DEF IInv, Requests, Asked, LocksDisjoint, SeenIsRead, PaymentOf, ChargesRead, session
  <2>6. PaymentStands'
    <3>1. ASSUME NEW t \in Session, pc[t] = "holding", op[t].kind \in {"approve", "reverse"}
          PROVE  payment'[PaymentOf(t)] = payment[PaymentOf(t)]
      BY <2>2, <2>3, <3>1 DEF IInv, Requests, Asked
    <3> QED
      BY <1>1, <3>1 DEF IInv, PaymentStands, PaymentOf, session
  <2> QED
    BY <2>4, <2>5, <2>6 DEF IInv
<1> QED
  BY <1>2, <1>3

(* Every action preserves the invariant. *)
LEMMA NextIInv == IInv /\ [Next]_vars => IInv'
<1> SUFFICES ASSUME IInv, [Next]_vars PROVE IInv'
  OBVIOUS
<1>1. CASE (\E p \in Period : Generate(p)) \/ (\E m \in Payment : Ingest(m))
  BY <1>1, BirthIInv
<1>2. ASSUME NEW t \in Session, LoadApproval(t) PROVE IInv'
  BY <1>2, LoadApprovalIInv
<1>3. ASSUME NEW t \in Session, LoadReversal(t) PROVE IInv'
  BY <1>3, LoadReversalIInv
<1>4. ASSUME NEW t \in Session, LoadCredit(t) PROVE IInv'
  BY <1>4, LoadCreditIInv
<1>5. ASSUME NEW t \in Session, LoadProviderReversal(t) PROVE IInv'
  BY <1>5, LoadProviderReversalIInv
<1>6. ASSUME NEW t \in Session,
             EnterApproval(t) \/ EnterReversal(t) \/ EnterCredit(t) \/ EnterProviderReversal(t)
      PROVE  IInv'
  BY <1>6, EnterIInv
<1>7. ASSUME NEW t \in Session, CommitApproval(t) PROVE IInv'
  BY <1>7, CommitApprovalIInv
<1>8. ASSUME NEW t \in Session, CommitReversal(t) PROVE IInv'
  BY <1>8, CommitReversalIInv
<1>9. ASSUME NEW t \in Session, CommitProviderReversal(t) PROVE IInv'
  BY <1>9, CommitProviderReversalIInv
<1>10. ASSUME NEW t \in Session, CommitCredit(t) \/ Rollback(t) PROVE IInv'
  BY <1>10, OtherIInv
<1>11. CASE UNCHANGED vars
  <2>1. charge' = charge /\ payment' = payment /\ allocation' = allocation /\ credit' = credit
        /\ journal' = journal /\ pc' = pc /\ op' = op /\ locks' = locks /\ fresh' = fresh
    BY <1>11 DEF vars, tables, session
  <2>2. \A t \in Session : Asked(t)' <=> Asked(t)
    BY <2>1 DEF Asked, PaymentOf, ChargesRead
  <2>3. Shapes' /\ Requests' /\ LocksDisjoint'
    BY <2>1, <2>2 DEF IInv, Shapes, PaymentShape, Requests, LocksDisjoint
  <2>4. PaymentStands' /\ SeenIsRead' /\ ReversedIsEmpty'
    BY <2>1 DEF IInv, PaymentStands, SeenIsRead, ReversedIsEmpty, PaymentOf
  <2> QED
    BY <2>3, <2>4 DEF IInv
<1> QED
  BY <1>1, <1>2, <1>3, <1>4, <1>5, <1>6, <1>7, <1>8, <1>9, <1>10, <1>11 DEF Next

(* The invariant holds in every behaviour. *)
LEMMA Invariance == Spec => []IInv
  BY InitIInv, NextIInv, PTL DEF Spec

----------------------------------------------------------------------------
(* Only commits write tables: what is read or asked for changes no row.    *)
LEMMA TableWriters ==
  ASSUME [Next]_vars, tables' # tables
  PROVE  \/ \E p \in Period : Generate(p)
         \/ \E m \in Payment : Ingest(m)
         \/ \E t \in Session : CommitApproval(t) /\ SwapSucceeds(t)
         \/ \E t \in Session : CommitReversal(t) /\ allocation[op[t].allocation].status = "ACTIVE"
         \/ \E t \in Session : CommitCredit(t)
         \/ \E t \in Session : CommitProviderReversal(t)
<1>1. ASSUME NEW t \in Session, NEW r, NEW P, Load(t, r, P) PROVE FALSE
  BY <1>1 DEF Load
<1>2. ASSUME NEW t \in Session, NEW a, NEW row, NEW rows, Keep(t, a, row, rows) PROVE FALSE
  BY <1>2 DEF Keep
<1>3. ASSUME NEW t \in Session,
             LoadApproval(t) \/ LoadReversal(t) \/ LoadCredit(t) \/ LoadProviderReversal(t)
      PROVE  FALSE
  BY <1>1, <1>3 DEF LoadApproval, LoadReversal, LoadCredit, LoadProviderReversal
<1>4. ASSUME NEW t \in Session, EnterApproval(t) PROVE FALSE
  BY <1>2, <1>4 DEF EnterApproval
<1>5. ASSUME NEW t \in Session, EnterReversal(t) PROVE FALSE
  BY <1>2, <1>5 DEF EnterReversal
<1>6. ASSUME NEW t \in Session, EnterCredit(t) \/ EnterProviderReversal(t) PROVE FALSE
  BY <1>2, <1>6 DEF EnterCredit, EnterProviderReversal
<1>7. ASSUME NEW t \in Session, Rollback(t) PROVE FALSE
  BY <1>7 DEF Rollback
<1>8. ASSUME NEW t \in Session, CommitApproval(t) PROVE SwapSucceeds(t)
  BY <1>8 DEF CommitApproval
<1>9. ASSUME NEW t \in Session, CommitReversal(t)
      PROVE  allocation[op[t].allocation].status = "ACTIVE"
  BY <1>9 DEF CommitReversal
<1>10. CASE UNCHANGED vars
  BY <1>10 DEF vars
<1> QED
  BY <1>3, <1>4, <1>5, <1>6, <1>7, <1>8, <1>9, <1>10 DEF Next

(* A payment taken back by its provider stays REVERSED and empty, whatever *)
(* approvals and reversals of it were under way (transactions.service.ts,  *)
(* applyProviderReversal; allocations.service.ts, approve and reverse).    *)
THEOREM ReversalsAreFinal == Spec => ReversalIsFinal
<1> DEFINE Final == \A m \in Payment :
                       payment[m].status = "REVERSED"
                         => payment'[m].status = "REVERSED" /\ payment'[m].allocated = 0
<1>1. IInv /\ [Next]_vars => Final
  <2> SUFFICES ASSUME IInv, [Next]_vars, NEW m \in Payment, payment[m].status = "REVERSED"
               PROVE  payment'[m].status = "REVERSED" /\ payment'[m].allocated = 0
    OBVIOUS
  <2>1. CASE payment' = payment
    BY <2>1 DEF IInv, ReversedIsEmpty
  <2>2. CASE payment' # payment
    <3>1. ASSUME NEW x \in Payment, Ingest(x) PROVE payment'[m] = payment[m]
      BY <3>1 DEF Ingest, Put, IInv, Shapes, PaymentShape
    <3>2. ASSUME NEW t \in Session, CommitApproval(t), SwapSucceeds(t)
          PROVE  payment'[m] = payment[m]
      <4>1. PaymentOf(t) = op[t].payment /\ payment[op[t].payment].status # "REVERSED"
        BY <3>2 DEF CommitApproval, IInv, PaymentStands, PaymentOf
      <4> QED
        BY <3>2, <4>1 DEF CommitApproval, ApproveRows, Put, IInv, Shapes, PaymentShape
    <3>3. ASSUME NEW t \in Session, CommitReversal(t),
                 allocation[op[t].allocation].status = "ACTIVE"
          PROVE  payment'[m] = payment[m]
      <4>1. /\ PaymentOf(t) = allocation[op[t].allocation].payment
            /\ payment[PaymentOf(t)].status # "REVERSED"
        BY <3>3 DEF CommitReversal, IInv, PaymentStands, PaymentOf
      <4> QED
        BY <3>3, <4>1 DEF CommitReversal, ReverseRows, Put, IInv, Shapes, PaymentShape
    <3>4. ASSUME NEW t \in Session, CommitProviderReversal(t)
          PROVE  \/ payment'[m] = payment[m]
                 \/ payment'[m].status = "REVERSED" /\ payment'[m].allocated = 0
      <4>1. payment' = Put(payment, op[t].payment,
                           PaymentRow(op[t].payment, "REVERSED", 0, payment[op[t].payment].version + 1))
        BY <3>4 DEF CommitProviderReversal
      <4> QED
        BY <4>1 DEF Put, PaymentRow, nextTransactionStatus, IInv, Shapes, PaymentShape
    <3>5. payment'[m] = payment[m] => payment'[m].status = "REVERSED" /\ payment'[m].allocated = 0
      BY DEF IInv, ReversedIsEmpty
    <3>6. (\A t \in Session : ~CommitCredit(t)) /\ (\A p \in Period : ~Generate(p))
      BY <2>2 DEF CommitCredit, Generate
    <3>7. tables' # tables
      BY <2>2 DEF tables
    <3> QED
      BY <3>1, <3>2, <3>3, <3>4, <3>5, <3>6, <3>7, TableWriters
  <2> QED
    BY <2>1, <2>2
<1> QED
  BY <1>1, Invariance, PTL DEF Spec, ReversalIsFinal

(* Allocations are added by approvals alone. *)
LEMMA AllocationWriters ==
  ASSUME IInv, [Next]_vars, Len(allocation') > Len(allocation)
  PROVE  \E t \in Session : CommitApproval(t) /\ SwapSucceeds(t)
<1>1. allocation' # allocation
  BY LenProperties DEF IInv, Shapes
<1>2. tables' # tables
  BY <1>1 DEF tables
<1>3. ASSUME NEW S PROVE allocation' # Unwind(S)
  BY <1>3, LenProperties, UnwindingGrows DEF IInv, Shapes
<1>4. \A t \in Session : ~CommitCredit(t)
  BY <1>1 DEF CommitCredit
<1>5. (\A p \in Period : ~Generate(p)) /\ (\A m \in Payment : ~Ingest(m))
  BY <1>1 DEF Generate, Ingest
<1>6. \A t \in Session : CommitReversal(t) => allocation[op[t].allocation].status # "ACTIVE"
  BY <1>3 DEF CommitReversal, ReverseRows
<1>7. \A t \in Session : ~CommitProviderReversal(t)
  BY <1>3 DEF CommitProviderReversal
<1> QED
  BY <1>2, <1>4, <1>5, <1>6, <1>7, TableWriters

(* An approval commits against the rows its approver saw: the versions it  *)
(* was sent with are those of the rows at the moment of the commit         *)
(* (allocations.service.ts, approve).                                      *)
THEOREM ApprovalsMatchThePage == Spec => ApprovedAsSeen
<1> DEFINE AsSeen ==
      Len(allocation') > Len(allocation) =>
          \E t \in Session :
              /\ op[t].kind = "approve" /\ pc[t] = "holding" /\ pc'[t] = "idle"
              /\ payment[op[t].payment].version = op[t].seenPayment
              /\ \A c \in DOMAIN op[t].lines : charge[c].version = op[t].seenCharges[c]
<1>1. IInv /\ [Next]_vars => AsSeen
  <2> SUFFICES ASSUME IInv, [Next]_vars, Len(allocation') > Len(allocation)
               PROVE  AsSeen
    OBVIOUS
  <2>1. PICK t \in Session : CommitApproval(t) /\ SwapSucceeds(t)
    BY AllocationWriters
  <2>2. pc[t] = "holding" /\ op[t].kind = "approve" /\ pc'[t] = "idle"
    BY <2>1 DEF CommitApproval, Finish, Put, IInv, Shapes
  <2>3. /\ fresh[t].payment.version = op[t].seenPayment
        /\ \A c \in DOMAIN op[t].lines : fresh[t].charges[c].version = op[t].seenCharges[c]
    BY <2>2 DEF IInv, SeenIsRead
  <2>4. /\ payment[op[t].payment].version = op[t].seenPayment
        /\ \A c \in DOMAIN op[t].lines : charge[c].version = op[t].seenCharges[c]
    BY <2>1, <2>3 DEF SwapSucceeds
  <2> QED
    BY <2>2, <2>4
<1> QED
  BY <1>1, Invariance, PTL DEF Spec, ApprovedAsSeen

----------------------------------------------------------------------------
(* The columns of charges, when no credit is dated into another period and *)
(* no provider reversal occurs: those two write charges whose period they  *)
(* do not hold, or from rows read before they held it.                     *)

InPeriodOnly == Operations \cap {"datedCredit", "providerReversal"} = {}

RowFits(row, c) ==
    /\ row \in ChargeFields
    /\ row.allocated + row.credited <= ChargeAmount[c]
    /\ row.status # "ABSENT" =>
          /\ row.open = ChargeAmount[c] - row.allocated - row.credited
          /\ row.open >= 0
          /\ row.status = nextChargeStatus(c, row.allocated, row.credited)

ChargesFit ==
    /\ charge = [c \in Charge |-> charge[c]]
    /\ \A c \in Charge : RowFits(charge[c], c)

(* The charges read under the locks still are the rows, and the plan that  *)
(* was accepted still fits them.                                           *)
ChargeStands(t) ==
    /\ op[t].kind = "approve" =>
          \A c \in DOMAIN op[t].lines :
              /\ fresh[t].charges[c] = charge[c]
              /\ op[t].lines[c] <= ChargeAmount[c] - charge[c].allocated - charge[c].credited
    /\ op[t].kind = "reverse" =>
          LET a == allocation[op[t].allocation] IN
          /\ fresh[t].charges[a.charge] = charge[a.charge]
          /\ charge[a.charge].allocated >= a.amount
    /\ op[t].kind = "credit" =>
          /\ fresh[t].charges[op[t].charge] = charge[op[t].charge]
          /\ op[t].amount <= Creditable(charge[op[t].charge], op[t].charge)

ChargesStand == \A t \in Session : pc[t] = "holding" => ChargeStands(t)

CInv == IInv /\ ChargesFit /\ ChargesStand

(* Writing an allocated total that fits gives a row in step. *)
LEMMA ReallocatedFits ==
  ASSUME NEW c \in Charge, charge[c] \in ChargeFields, NEW n \in Nat, NEW u \in Nat,
         n + charge[c].credited <= ChargeAmount[c]
  PROVE  RowFits(Reallocated(c, charge[c], n, u), c)
<1>1. ChargeAmount[c] \in Nat \ {0} /\ charge[c].credited \in Nat /\ charge[c].version \in Nat
  BY ColumnAssumption DEF ChargeFields
<1>2. Floor(n) = n
  BY DEF Floor
<1>3. nextChargeStatus(c, n, charge[c].credited) \in {"POSTED", "SETTLED", "VOIDED"}
  BY <1>1 DEF nextChargeStatus
<1> QED
  BY <1>1, <1>2, <1>3 DEF Reallocated, RowFits, ChargeFields

(* So does a credited total. *)
LEMMA RecreditedFits ==
  ASSUME NEW c \in Charge, charge[c] \in ChargeFields, NEW n \in Nat,
         charge[c].allocated + n <= ChargeAmount[c]
  PROVE  RowFits(Recredited(c, charge[c], n), c)
<1>1. ChargeAmount[c] \in Nat \ {0} /\ charge[c].allocated \in Nat /\ charge[c].version \in Nat
  BY ColumnAssumption DEF ChargeFields
<1>2. nextChargeStatus(c, charge[c].allocated, n) \in {"POSTED", "SETTLED", "VOIDED"}
  BY <1>1 DEF nextChargeStatus
<1> QED
  BY <1>1, <1>2 DEF Recredited, RowFits, ChargeFields

(* A charge is born in step. *)
LEMMA NewChargeFits ==
  ASSUME NEW c \in Charge
  PROVE  RowFits(NewCharge(c), c)
  BY ColumnAssumption DEF NewCharge, RowFits, ChargeFields, nextChargeStatus

(* A step writes only charges whose period its session has locked. *)
WritesLockedCharges(t) ==
    \A c \in Charge :
        charge'[c] # charge[c] => pc[t] = "holding" /\ ChargePeriod[c] \in locks[t]

(* A session ends: what the others read of charges still stands. *)
LEMMA FinishCInv ==
  ASSUME InPeriodOnly, CInv, NEW t \in Session, Finish(t), Grows, IInv',
         ChargesFit', WritesLockedCharges(t)
  PROVE  CInv'
<1>1. /\ pc'[t] = "idle"
      /\ \A u \in Session \ {t} : pc'[u] = pc[u] /\ op'[u] = op[u]
            /\ locks'[u] = locks[u] /\ fresh'[u] = fresh[u]
  BY DEF Finish, CInv, IInv, Shapes, Put
<1>2. ASSUME NEW u \in Session, pc'[u] = "holding" PROVE ChargeStands(u)'
  <2>1. u # t /\ pc[u] = "holding" /\ Asked(u) /\ ChargeStands(u)
    BY <1>1, <1>2 DEF CInv, ChargesStand, IInv, Requests
  <2>2. op[u].kind \in {"approve", "reverse", "credit"}
    BY <2>1, OperationAssumption DEF Asked, InPeriodOnly, OperationKind
  <2>3. \A c \in ChargesRead(u) : c \in Charge /\ ChargePeriod[c] \in locks[u]
    BY <2>1, <2>2 DEF Asked
  <2>4. \A c \in ChargesRead(u) : charge'[c] = charge[c]
    BY <2>1, <2>3 DEF WritesLockedCharges, CInv, IInv, LocksDisjoint
  <2>5. op[u].kind = "reverse" =>
           /\ allocation'[op[u].allocation].charge = allocation[op[u].allocation].charge
           /\ allocation'[op[u].allocation].amount = allocation[op[u].allocation].amount
    BY <2>1 DEF Asked, Grows
  <2>6. op'[u] = op[u] /\ fresh'[u] = fresh[u]
    BY <1>1, <2>1
  <2>7. CASE op[u].kind = "approve"
    <3>1. \A c \in DOMAIN op[u].lines : charge'[c] = charge[c]
      BY <2>4, <2>7 DEF ChargesRead
    <3>2. \A c \in DOMAIN op[u].lines :
            /\ fresh[u].charges[c] = charge[c]
            /\ op[u].lines[c] <= ChargeAmount[c] - charge[c].allocated - charge[c].credited
      BY <2>1, <2>7 DEF ChargeStands
    <3> QED BY <2>6, <2>7, <3>1, <3>2 DEF ChargeStands
  <2>8. CASE op[u].kind = "reverse"
    <3>1. charge'[allocation[op[u].allocation].charge] = charge[allocation[op[u].allocation].charge]
      BY <2>4, <2>8 DEF ChargesRead
    <3>2. /\ fresh[u].charges[allocation[op[u].allocation].charge]
               = charge[allocation[op[u].allocation].charge]
          /\ charge[allocation[op[u].allocation].charge].allocated
               >= allocation[op[u].allocation].amount
      BY <2>1, <2>8 DEF ChargeStands
    <3> QED BY <2>5, <2>6, <2>8, <3>1, <3>2 DEF ChargeStands
  <2>9. CASE op[u].kind = "credit"
    <3>1. charge'[op[u].charge] = charge[op[u].charge]
      BY <2>4, <2>9 DEF ChargesRead
    <3>2. /\ fresh[u].charges[op[u].charge] = charge[op[u].charge]
          /\ op[u].amount <= Creditable(charge[op[u].charge], op[u].charge)
      BY <2>1, <2>9 DEF ChargeStands
    <3> QED BY <2>6, <2>9, <3>1, <3>2 DEF ChargeStands
  <2> QED BY <2>2, <2>7, <2>8, <2>9
<1> QED
  BY <1>2 DEF CInv, ChargesStand

(* A session that reads and writes nothing keeps what the others read.     *)
LEMMA ReadingCInv ==
  ASSUME CInv, NEW t \in Session, UNCHANGED tables, IInv',
         \A u \in Session \ {t} : pc'[u] = pc[u] /\ op'[u] = op[u] /\ fresh'[u] = fresh[u],
         pc'[t] = "holding" => ChargeStands(t)'
  PROVE  CInv'
<1>1. charge' = charge /\ allocation' = allocation
  BY DEF tables
<1>2. ChargesFit'
  BY <1>1 DEF CInv, ChargesFit
<1>3. ASSUME NEW u \in Session \ {t}, pc'[u] = "holding" PROVE ChargeStands(u)'
  BY <1>1, <1>3 DEF CInv, ChargesStand, ChargeStands
<1> QED
  BY <1>2, <1>3 DEF CInv, ChargesStand

(* Load and Rollback. *)
LEMMA LoadCInv ==
  ASSUME CInv, IInv', NEW t \in Session,
         (\E r, P : Load(t, r, P)) \/ Rollback(t)
  PROVE  CInv'
<1>1. CASE \E r, P : Load(t, r, P)
  <2>1. PICK r, P : Load(t, r, P)
    BY <1>1
  <2>2. /\ UNCHANGED tables /\ pc'[t] = "waiting"
        /\ \A u \in Session \ {t} : pc'[u] = pc[u] /\ op'[u] = op[u] /\ fresh'[u] = fresh[u]
    BY <2>1 DEF Load, tables, Put, CInv, IInv, Shapes
  <2> QED
    BY <2>2, ReadingCInv
<1>2. CASE Rollback(t)
  <2>1. /\ UNCHANGED tables /\ pc'[t] = "idle"
        /\ \A u \in Session \ {t} : pc'[u] = pc[u] /\ op'[u] = op[u] /\ fresh'[u] = fresh[u]
    BY <1>2 DEF Rollback, Finish, Put, CInv, IInv, Shapes
  <2> QED
    BY <2>1, ReadingCInv
<1> QED
  BY <1>1, <1>2

(* What Keep leaves behind: either the rows it was given, or nothing. *)
LEMMA KeepRecords ==
  ASSUME IInv, NEW t \in Session, NEW accepted, NEW row, NEW rows, Keep(t, accepted, row, rows)
  PROVE  /\ UNCHANGED tables
         /\ \A u \in Session \ {t} : pc'[u] = pc[u] /\ op'[u] = op[u] /\ fresh'[u] = fresh[u]
         /\ pc'[t] = "holding" => accepted /\ op'[t] = op[t] /\ fresh'[t].charges = rows
<1>1. CASE accepted
  <2>1. /\ pc' = Put(pc, t, "holding") /\ op' = op /\ UNCHANGED tables
        /\ fresh' = Put(fresh, t, [payment |-> row, charges |-> rows])
    BY <1>1 DEF Keep
  <2>2. /\ fresh'[t] = [payment |-> row, charges |-> rows]
        /\ \A u \in Session \ {t} : pc'[u] = pc[u] /\ op'[u] = op[u] /\ fresh'[u] = fresh[u]
    BY <2>1 DEF Put, IInv, Shapes
  <2> QED
    BY <1>1, <2>1, <2>2
<1>2. CASE ~accepted
  BY <1>2 DEF Keep, Finish, Put, IInv, Shapes
<1> QED
  BY <1>1, <1>2

(* The operations under their locks: the plan fits the rows they read. *)
LEMMA EnterCInv ==
  ASSUME CInv, IInv', NEW t \in Session,
         EnterApproval(t) \/ EnterReversal(t) \/ EnterCredit(t) \/ EnterProviderReversal(t)
  PROVE  CInv'
<1> USE DEF CInv
<1>1. CASE EnterApproval(t)
  <2> DEFINE row == payment[op[t].payment]
  <2> DEFINE rows == [c \in DOMAIN op[t].lines |-> charge[c]]
  <2> DEFINE accepted == VersionsUnchanged(t) /\ planAllocation(op[t].payment, row, op[t].lines, rows)
  <2>1. op[t].kind = "approve" /\ Keep(t, accepted, row, rows)
    BY <1>1 DEF EnterApproval, Granted
  <2>2. accepted => \A c \in DOMAIN op[t].lines :
                       op[t].lines[c] <= ChargeAmount[c] - charge[c].allocated - charge[c].credited
    BY DEF planAllocation
  <2>3. \A c \in DOMAIN op[t].lines : rows[c] = charge[c]
    OBVIOUS
  <2> HIDE DEF accepted, row, rows
  <2>4. /\ UNCHANGED tables
        /\ \A u \in Session \ {t} : pc'[u] = pc[u] /\ op'[u] = op[u] /\ fresh'[u] = fresh[u]
        /\ pc'[t] = "holding" => accepted /\ op'[t] = op[t] /\ fresh'[t].charges = rows
    BY <2>1, KeepRecords
  <2>5. pc'[t] = "holding" => ChargeStands(t)'
    BY <2>1, <2>2, <2>3, <2>4 DEF ChargeStands, tables
  <2> QED
    BY <2>4, <2>5, ReadingCInv
<1>2. CASE EnterReversal(t)
  <2> DEFINE a == allocation[op[t].allocation]
  <2> DEFINE row == payment[a.payment]
  <2> DEFINE rows == [c \in {a.charge} |-> charge[c]]
  <2> DEFINE accepted == planReversal(a.amount, row, rows, a.charge)
  <2>1. op[t].kind = "reverse" /\ Keep(t, accepted, row, rows)
    BY <1>2 DEF EnterReversal, Granted
  <2>2. rows[a.charge] = charge[a.charge] /\ (accepted => charge[a.charge].allocated >= a.amount)
    BY DEF planReversal
  <2> HIDE DEF accepted, row, rows
  <2>3. /\ UNCHANGED tables
        /\ \A u \in Session \ {t} : pc'[u] = pc[u] /\ op'[u] = op[u] /\ fresh'[u] = fresh[u]
        /\ pc'[t] = "holding" => accepted /\ op'[t] = op[t] /\ fresh'[t].charges = rows
    BY <2>1, KeepRecords
  <2>4. pc'[t] = "holding" => ChargeStands(t)'
    BY <2>1, <2>2, <2>3 DEF ChargeStands, tables
  <2> QED
    BY <2>3, <2>4, ReadingCInv
<1>3. CASE EnterCredit(t)
  <2> DEFINE c == op[t].charge
  <2> DEFINE rows == [x \in {c} |-> charge[x]]
  <2> DEFINE accepted == op[t].amount <= Creditable(charge[c], c)
  <2>1. op[t].kind \in {"credit", "datedCredit"} /\ Keep(t, accepted, NoPayment, rows)
    BY <1>3 DEF EnterCredit, Granted
  <2>2. rows[c] = charge[c]
    OBVIOUS
  <2> HIDE DEF accepted, rows
  <2>3. /\ UNCHANGED tables
        /\ \A u \in Session \ {t} : pc'[u] = pc[u] /\ op'[u] = op[u] /\ fresh'[u] = fresh[u]
        /\ pc'[t] = "holding" => accepted /\ op'[t] = op[t] /\ fresh'[t].charges = rows
    BY <2>1, KeepRecords
  <2>4. pc'[t] = "holding" => ChargeStands(t)'
    BY <2>1, <2>2, <2>3 DEF ChargeStands, tables, accepted, Creditable
  <2> QED
    BY <2>3, <2>4, ReadingCInv
<1>4. CASE EnterProviderReversal(t)
  <2>1. op[t].kind = "providerReversal" /\ Keep(t, TRUE, NoPayment, <<>>)
    BY <1>4 DEF EnterProviderReversal, Granted
  <2>2. /\ UNCHANGED tables
        /\ \A u \in Session \ {t} : pc'[u] = pc[u] /\ op'[u] = op[u] /\ fresh'[u] = fresh[u]
        /\ pc'[t] = "holding" => op'[t] = op[t]
    BY <2>1, KeepRecords
  <2>3. pc'[t] = "holding" => ChargeStands(t)'
    BY <2>1, <2>2 DEF ChargeStands
  <2> QED
    BY <2>2, <2>3, ReadingCInv
<1> QED
  BY <1>1, <1>2, <1>3, <1>4

(* The commit of an approval adds what the plan allowed. *)
LEMMA CommitApprovalCInv ==
  ASSUME InPeriodOnly, CInv, IInv', NEW t \in Session, CommitApproval(t)
  PROVE  CInv'
<1> DEFINE f == op[t].lines
<1>1. pc[t] = "holding" /\ op[t].kind = "approve" /\ Finish(t) /\ Asked(t) /\ ChargeStands(t)
  BY DEF CommitApproval, CInv, ChargesStand, IInv, Requests
<1>2. CASE ~SwapSucceeds(t)
  <2>1. UNCHANGED <<charge, allocation>>
    BY <1>2 DEF CommitApproval, tables
  <2>2. Grows /\ ChargesFit' /\ WritesLockedCharges(t)
    BY <2>1, StandingGrows DEF CInv, IInv, ChargesFit, WritesLockedCharges
  <2> QED
    BY <1>1, <2>2, FinishCInv
<1>3. CASE SwapSucceeds(t)
  <2>1. ApproveRows(t)
    BY <1>3 DEF CommitApproval
  <2>2. op[t].lines \in Lines /\ op[t].payment \in Payment
    BY <1>1 DEF Asked, PaymentOf
  <2>3. Grows
    BY <2>1, <2>2, NewAllocationsType, AppendingGrows DEF ApproveRows, CInv, IInv
  <2>4. charge' = [c \in Charge |->
           IF c \in DOMAIN f
           THEN Reallocated(c, fresh[t].charges[c], fresh[t].charges[c].allocated + f[c], 1)
           ELSE charge[c]]
    BY <2>1 DEF ApproveRows
  <2>5. ASSUME NEW c \in DOMAIN f, c \in Charge
        PROVE  RowFits(charge'[c], c)
    <3>1. fresh[t].charges[c] = charge[c]
      BY <1>1 DEF ChargeStands
    <3>2. f[c] \in Nat /\ charge[c] \in ChargeFields /\ ChargeAmount[c] \in Nat
      BY <2>2, <2>5, LinesType, ColumnAssumption DEF CInv, ChargesFit, RowFits
    <3>3. f[c] <= ChargeAmount[c] - charge[c].allocated - charge[c].credited
      BY <1>1 DEF ChargeStands
    <3>4. charge[c].allocated \in Nat /\ charge[c].credited \in Nat
      BY <3>2 DEF ChargeFields
    <3>5. /\ charge[c].allocated + f[c] \in Nat
          /\ charge[c].allocated + f[c] + charge[c].credited <= ChargeAmount[c]
      BY <3>2, <3>3, <3>4
    <3>6. RowFits(Reallocated(c, charge[c], charge[c].allocated + f[c], 1), c)
      BY <2>5, <3>2, <3>5, ReallocatedFits
    <3> QED
      BY <2>4, <2>5, <3>1, <3>6
  <2>6. ChargesFit'
    BY <2>4, <2>5 DEF CInv, ChargesFit
  <2>7. WritesLockedCharges(t)
    BY <1>1, <2>4 DEF WritesLockedCharges, Asked, ChargesRead
  <2> QED
    BY <1>1, <2>3, <2>6, <2>7, FinishCInv
<1> QED
  BY <1>2, <1>3

(* The commit of a reversal subtracts what the charge still holds. *)
LEMMA CommitReversalCInv ==
  ASSUME InPeriodOnly, CInv, IInv', NEW t \in Session, CommitReversal(t)
  PROVE  CInv'
<1> DEFINE a == allocation[op[t].allocation]
<1> DEFINE c == a.charge
<1>1. pc[t] = "holding" /\ op[t].kind = "reverse" /\ Finish(t) /\ Asked(t) /\ ChargeStands(t)
  BY DEF CommitReversal, CInv, ChargesStand, IInv, Requests
<1>2. CASE a.status # "ACTIVE"
  <2>1. UNCHANGED <<charge, allocation>>
    BY <1>2 DEF CommitReversal, tables
  <2>2. Grows /\ ChargesFit' /\ WritesLockedCharges(t)
    BY <2>1, StandingGrows DEF CInv, IInv, ChargesFit, WritesLockedCharges
  <2> QED
    BY <1>1, <2>2, FinishCInv
<1>3. CASE a.status = "ACTIVE"
  <2>1. ReverseRows(t)
    BY <1>3 DEF CommitReversal
  <2>2. Grows
    BY <2>1, UnwindingGrows DEF ReverseRows, CInv, IInv
  <2>3. charge' = Put(charge, c, Reallocated(c, fresh[t].charges[c],
                                             fresh[t].charges[c].allocated - a.amount, 1))
    BY <2>1 DEF ReverseRows
  <2>4. a \in AllocationRow
    BY <1>1, LenProperties DEF CInv, IInv, Shapes, Asked
  <2>5. c \in Charge /\ a.amount \in Nat \ {0}
    BY <2>4 DEF AllocationRow
  <2>6. fresh[t].charges[c] = charge[c] /\ charge[c].allocated >= a.amount
    BY <1>1 DEF ChargeStands
  <2>7. charge[c] \in ChargeFields /\ charge[c].allocated + charge[c].credited <= ChargeAmount[c]
    BY <2>5 DEF CInv, ChargesFit, RowFits
  <2>8. charge[c].allocated \in Nat /\ charge[c].credited \in Nat /\ ChargeAmount[c] \in Nat
    BY <2>5, <2>7, ColumnAssumption DEF ChargeFields
  <2>9. /\ charge[c].allocated - a.amount \in Nat
        /\ charge[c].allocated - a.amount + charge[c].credited <= ChargeAmount[c]
    <3> HIDE DEF a, c
    <3> QED
      BY <2>5, <2>6, <2>7, <2>8
  <2>10. RowFits(Reallocated(c, charge[c], charge[c].allocated - a.amount, 1), c)
    BY <2>5, <2>7, <2>9, ReallocatedFits
  <2>11. ChargesFit'
    BY <2>3, <2>6, <2>10 DEF CInv, ChargesFit, Put
  <2>12. WritesLockedCharges(t)
    BY <1>1, <2>3 DEF WritesLockedCharges, Asked, ChargesRead, Put, CInv, ChargesFit
  <2> QED
    BY <1>1, <2>2, <2>11, <2>12, FinishCInv
<1> QED
  BY <1>2, <1>3

(* The commit of a credit adds no more than the charge is creditable for. *)
LEMMA CommitCreditCInv ==
  ASSUME InPeriodOnly, CInv, IInv', NEW t \in Session, CommitCredit(t)
  PROVE  CInv'
<1> DEFINE c == op[t].charge
<1> DEFINE n == op[t].amount
<1>1. pc[t] = "holding" /\ Finish(t) /\ Asked(t) /\ ChargeStands(t)
  BY DEF CommitCredit, CInv, ChargesStand, IInv, Requests
<1>2. op[t].kind = "credit"
  BY <1>1 DEF CommitCredit, Asked, InPeriodOnly
<1>3. /\ allocation' = allocation
      /\ charge' = Put(charge, c, Recredited(c, fresh[t].charges[c],
                                             fresh[t].charges[c].credited + n))
  BY DEF CommitCredit
<1>4. c \in Charge /\ n \in Nat /\ ChargePeriod[c] \in locks[t]
  BY <1>1, <1>2 DEF Asked, ChargesRead
<1>5. /\ fresh[t].charges[c] = charge[c]
      /\ n <= ChargeAmount[c] - charge[c].credited - charge[c].allocated
  BY <1>1, <1>2 DEF ChargeStands, Creditable
<1>6. charge[c] \in ChargeFields
  BY <1>4 DEF CInv, ChargesFit, RowFits
<1>7. charge[c].allocated \in Nat /\ charge[c].credited \in Nat /\ ChargeAmount[c] \in Nat
  BY <1>4, <1>6, ColumnAssumption DEF ChargeFields
<1>8. /\ charge[c].credited + n \in Nat
      /\ charge[c].allocated + (charge[c].credited + n) <= ChargeAmount[c]
  BY <1>4, <1>5, <1>7
<1>9. RowFits(Recredited(c, charge[c], charge[c].credited + n), c)
  BY <1>4, <1>6, <1>8, RecreditedFits
<1>10. ChargesFit'
  BY <1>3, <1>5, <1>9 DEF CInv, ChargesFit, Put
<1>11. WritesLockedCharges(t)
  BY <1>1, <1>3, <1>4 DEF WritesLockedCharges, Put, CInv, ChargesFit
<1>12. Grows
  BY <1>3, StandingGrows DEF CInv, IInv
<1> QED
  BY <1>1, <1>10, <1>11, <1>12, FinishCInv

(* Charges are born under the lock of their period; payments leave them.   *)
LEMMA BirthCInv ==
  ASSUME InPeriodOnly, CInv, IInv', (\E p \in Period : Generate(p)) \/ (\E m \in Payment : Ingest(m))
  PROVE  CInv'
<1>1. CASE \E p \in Period : Generate(p)
  <2>1. PICK p \in Period : Generate(p)
    BY <1>1
  <2> DEFINE new == {c \in Charge : ChargePeriod[c] = p /\ charge[c].status = "ABSENT"}
  <2>2. /\ charge' = [c \in Charge |-> IF c \in new THEN NewCharge(c) ELSE charge[c]]
        /\ \A t \in Session : pc[t] = "holding" => p \notin locks[t]
        /\ UNCHANGED <<allocation, session>>
    BY <2>1 DEF Generate
  <2>3. ChargesFit'
    BY <2>2, NewChargeFits DEF CInv, ChargesFit
  <2>4. ASSUME NEW t \in Session, pc[t] = "holding" PROVE ChargeStands(t)'
    <3>1. Asked(t) /\ ChargeStands(t)
      BY <2>4 DEF CInv, IInv, Requests, ChargesStand
    <3>2. op[t].kind \in {"approve", "reverse", "credit"}
      BY <3>1, OperationAssumption DEF Asked, InPeriodOnly, OperationKind
    <3>3. \A c \in ChargesRead(t) : c \in Charge /\ charge'[c] = charge[c]
      BY <2>2, <2>4, <3>1, <3>2 DEF Asked
    <3> QED
      BY <2>2, <3>1, <3>2, <3>3 DEF ChargeStands, ChargesRead, Creditable, session
  <2>5. ChargesStand'
    BY <2>2, <2>4 DEF ChargesStand, session
  <2> QED
    BY <2>3, <2>5 DEF CInv
<1>2. CASE \E m \in Payment : Ingest(m)
  <2>1. UNCHANGED <<charge, allocation, session>>
    BY <1>2 DEF Ingest
  <2> QED
    BY <2>1 DEF CInv, ChargesFit, ChargesStand, ChargeStands, session
<1> QED
  BY <1>1, <1>2

(* Nothing is in the tables at first. *)
LEMMA InitCInv == Init => CInv
<1> SUFFICES ASSUME Init PROVE CInv
  OBVIOUS
<1>1. ChargesFit
  BY ColumnAssumption DEF Init, ChargesFit, RowFits, NoCharge, ChargeFields
<1> QED
  BY <1>1, InitIInv DEF Init, CInv, ChargesStand

(* Every action that can occur keeps the columns in step. *)
LEMMA NextCInv ==
  ASSUME InPeriodOnly
  PROVE  CInv /\ [Next]_vars => CInv'
<1> SUFFICES ASSUME CInv, [Next]_vars PROVE CInv'
  OBVIOUS
<1> IInv'
  BY NextIInv DEF CInv
<1>1. CASE (\E p \in Period : Generate(p)) \/ (\E m \in Payment : Ingest(m))
  BY <1>1, BirthCInv
<1>2. ASSUME NEW t \in Session,
             LoadApproval(t) \/ LoadReversal(t) \/ LoadCredit(t) \/ LoadProviderReversal(t)
      PROVE  CInv'
  <2>1. \E r, P : Load(t, r, P)
    BY <1>2 DEF LoadApproval, LoadReversal, LoadCredit, LoadProviderReversal
  <2> QED
    BY <2>1, LoadCInv
<1>3. ASSUME NEW t \in Session,
             EnterApproval(t) \/ EnterReversal(t) \/ EnterCredit(t) \/ EnterProviderReversal(t)
      PROVE  CInv'
  BY <1>3, EnterCInv
<1>4. ASSUME NEW t \in Session, CommitApproval(t) PROVE CInv'
  BY <1>4, CommitApprovalCInv
<1>5. ASSUME NEW t \in Session, CommitReversal(t) PROVE CInv'
  BY <1>5, CommitReversalCInv
<1>6. ASSUME NEW t \in Session, CommitCredit(t) PROVE CInv'
  BY <1>6, CommitCreditCInv
<1>7. ASSUME NEW t \in Session, CommitProviderReversal(t) PROVE FALSE
  BY <1>7 DEF CommitProviderReversal, CInv, IInv, Requests, Asked, InPeriodOnly
<1>8. ASSUME NEW t \in Session, Rollback(t) PROVE CInv'
  BY <1>8, LoadCInv
<1>9. CASE UNCHANGED vars
  BY <1>9 DEF vars, tables, session, CInv, ChargesFit, ChargesStand, ChargeStands
<1> QED
  BY <1>1, <1>2, <1>3, <1>4, <1>5, <1>6, <1>7, <1>8, <1>9 DEF Next

(* The columns of every charge agree and its open balance is never         *)
(* negative, although reverse and createCredit write totals without        *)
(* comparing versions: the period locks suffice as long as credits are     *)
(* dated in their charge's period and no provider reversal occurs.         *)
THEOREM ColumnsStayInStep ==
  ASSUME InPeriodOnly
  PROVE  Spec => []RowsInStep
<1>1. CInv => RowsInStep
  BY DEF CInv, ChargesFit, RowFits, RowsInStep
<1>2. CInv /\ [Next]_vars => CInv'
  BY NextCInv
<1> QED
  BY <1>1, <1>2, InitCInv, PTL DEF Spec

----------------------------------------------------------------------------
(***************************************************************************)
(* Proofs about the totals of Reconciliation, for any number of rows:      *)
(* types, payments in step with their allocations, open balances, and the  *)
(* journal.                                                                *)
(*                                                                         *)
(* The journal argument: the journal is at all times exactly the entries   *)
(* that the rows call for, one per charge, receipt, allocation, unwound    *)
(* allocation, returned receipt and credit.  The balances follow from that *)
(* by adding up each kind of entry, in any state and for any set of rows.  *)
(***************************************************************************)

CreditRow == [charge : Charge, amount : Nat \ {0}]

(* The rows that call for journal entries. *)
Posted == {c \in Charge : charge[c].status # "ABSENT"}
Received == {m \in Payment : payment[m].status # "ABSENT"}
Returned == {m \in Payment : payment[m].status = "REVERSED"}
Undone == {i \in DOMAIN allocation : allocation[i].status = "REVERSED"}

ChargeEntries == {Entry("charge", c, ChargeAmount[c]) : c \in Posted}
ReceiptEntries == {Entry("receipt", m, PaymentAmount[m]) : m \in Received}
ReturnEntries == {Entry("returned", m, PaymentAmount[m]) : m \in Returned}
AllocationEntries == {Entry("allocated", i, allocation[i].amount) : i \in DOMAIN allocation}
UnwoundEntries == {Entry("unwound", i, allocation[i].amount) : i \in Undone}
CreditEntries == {Entry("credit", i, credit[i].amount) : i \in DOMAIN credit}

(* The journal holds the entries the rows call for and no other. *)
JournalOfRows ==
    journal = ChargeEntries \cup ReceiptEntries \cup ReturnEntries
                \cup AllocationEntries \cup UnwoundEntries \cup CreditEntries

----------------------------------------------------------------------------
(* E holds one entry for each of the rows S, and value has their amounts. *)
EntriesOf(E, event, S, amount, value) ==
    /\ IsFiniteSet(S)
    /\ \A x \in S : amount[x] \in Int
    /\ E = {Entry(event, x, amount[x]) : x \in S}
    /\ \A e \in E : value[e] = e.amount

(* The entries of one kind add up to the amounts of their rows. *)
LEMMA EntriesAddUp ==
  ASSUME NEW event, NEW S, NEW amount, NEW E, NEW value,
         EntriesOf(E, event, S, amount, value)
  PROVE  /\ IsFiniteSet(E)
         /\ \A e \in E : value[e] \in Int /\ e.event = event
         /\ SumFunctionOnSet(value, E) = SumFunctionOnSet(amount, S)
         /\ SumFunctionOnSet(amount, S) \in Int
<1> DEFINE h == [x \in S |-> Entry(event, x, amount[x])]
<1> USE DEF EntriesOf
<1>1. h \in Surjection(S, E)
  BY DEF Surjection
<1>2. IsFiniteSet(E)
  BY <1>1, FS_Surjection
<1>3. \A y \in S : h[y] \in E /\ value[h[y]] = amount[y]
  BY DEF Entry
<1>4. \A x \in E : \E y \in S : h[y] = x
  OBVIOUS
<1>5. \A y, z \in S : h[y] = h[z] => y = z
  BY DEF Entry
<1>6. \A y \in S : value[h[y]] \in Int /\ amount[y] = value[h[y]]
  BY <1>3
<1>7. SumFunctionOnSet(amount, S) = SumFunctionOnSet(value, E)
  <2> HIDE DEF h
  <2>1. Renames(h, amount, S, value, E)
    BY <1>3, <1>4, <1>5, <1>6 DEF Renames
  <2> QED BY <2>1, SumRenamed
<1>8. \A e \in E : value[e] \in Int /\ e.event = event
  BY <1>3, <1>4 DEF Entry
<1> QED
  BY <1>2, <1>7, <1>8, SumInt

(* Finite sets of entries of one kind each. *)
OfKinds(A, a, B, b, value) ==
    /\ a # b /\ IsFiniteSet(A) /\ IsFiniteSet(B)
    /\ \A e \in A : value[e] \in Int /\ e.event = a
    /\ \A e \in B : value[e] \in Int /\ e.event = b

(* The sum over two kinds of entries that have different events. *)
LEMMA KindsAddUp ==
  ASSUME NEW A, NEW B, NEW a, NEW b, NEW value, OfKinds(A, a, B, b, value)
  PROVE  SumFunctionOnSet(value, A \cup B)
           = SumFunctionOnSet(value, A) + SumFunctionOnSet(value, B)
<1>1. A \cap B = {} /\ IsFiniteSet(A) /\ IsFiniteSet(B) /\ \A e \in A \cup B : value[e] \in Int
  BY DEF OfKinds
<1> QED
  BY <1>1, SumUnion

(* A journal of the rows has the balances the rows call for. *)
LEMMA BalancesOfRows ==
  ASSUME JournalOfRows, allocation \in Seq(AllocationRow), credit \in Seq(CreditRow),
         IsFiniteSet(Received), \A i \in DOMAIN credit : credit[i].charge \in Posted
  PROVE  LedgerFollowsRows
<1> DEFINE value == [e \in journal |-> e.amount]
           paid == [i \in DOMAIN allocation |-> allocation[i].amount]
           forgiven == [i \in DOMAIN credit |-> credit[i].amount]
<1>1. /\ DOMAIN allocation = 1..Len(allocation) /\ Len(allocation) \in Nat
      /\ DOMAIN credit = 1..Len(credit) /\ Len(credit) \in Nat
      /\ \A i \in DOMAIN allocation : allocation[i] \in AllocationRow
      /\ \A i \in DOMAIN credit : credit[i] \in CreditRow
  BY LenProperties
<1>2. /\ IsFiniteSet(DOMAIN allocation) /\ IsFiniteSet(DOMAIN credit)
      /\ IsFiniteSet(Undone) /\ IsFiniteSet(Posted) /\ IsFiniteSet(Returned)
  <2>1. IsFiniteSet(DOMAIN allocation) /\ IsFiniteSet(DOMAIN credit)
    BY <1>1, FS_Interval
  <2>2. Undone \in SUBSET DOMAIN allocation /\ Posted \in SUBSET Charge /\ Returned \in SUBSET Received
    BY DEF Undone, Posted, Returned, Received
  <2> QED BY <2>1, <2>2, FS_Subset, ColumnAssumption
<1>3. /\ \A i \in DOMAIN allocation : paid[i] \in Nat
      /\ \A i \in DOMAIN credit : forgiven[i] \in Nat
  BY <1>1 DEF AllocationRow, CreditRow
<1>4. /\ \A c \in Posted : ChargeAmount[c] \in Nat
      /\ \A m \in Received : PaymentAmount[m] \in Nat
      /\ Returned \subseteq Received
  BY ColumnAssumption DEF Posted, Received, Returned
<1>5. /\ \A e \in ChargeEntries : value[e] = e.amount
      /\ \A e \in ReceiptEntries : value[e] = e.amount
      /\ \A e \in ReturnEntries : value[e] = e.amount
      /\ \A e \in AllocationEntries : value[e] = e.amount
      /\ \A e \in UnwoundEntries : value[e] = e.amount
      /\ \A e \in CreditEntries : value[e] = e.amount
  BY DEF JournalOfRows
<1>6. /\ AllocationEntries = {Entry("allocated", i, paid[i]) : i \in DOMAIN allocation}
      /\ UnwoundEntries = {Entry("unwound", i, paid[i]) : i \in Undone}
      /\ CreditEntries = {Entry("credit", i, forgiven[i]) : i \in DOMAIN credit}
  BY DEF AllocationEntries, UnwoundEntries, CreditEntries, Undone
<1> DEFINE sum(E) == SumFunctionOnSet(value, E)
<1> HIDE DEF value, paid, forgiven
<1>10. /\ IsFiniteSet(ChargeEntries)
       /\ \A e \in ChargeEntries : value[e] \in Int /\ e.event = "charge"
       /\ sum(ChargeEntries) = SumFunctionOnSet(ChargeAmount, Posted)
  <2>1. EntriesOf(ChargeEntries, "charge", Posted, ChargeAmount, value)
    BY <1>2, <1>4, <1>5 DEF EntriesOf, ChargeEntries
  <2> QED BY <2>1, EntriesAddUp
<1>11. /\ IsFiniteSet(ReceiptEntries)
       /\ \A e \in ReceiptEntries : value[e] \in Int /\ e.event = "receipt"
       /\ sum(ReceiptEntries) = SumFunctionOnSet(PaymentAmount, Received)
  <2>1. EntriesOf(ReceiptEntries, "receipt", Received, PaymentAmount, value)
    BY <1>4, <1>5 DEF EntriesOf, ReceiptEntries
  <2> QED BY <2>1, EntriesAddUp
<1>12. /\ IsFiniteSet(ReturnEntries)
       /\ \A e \in ReturnEntries : value[e] \in Int /\ e.event = "returned"
       /\ sum(ReturnEntries) = SumFunctionOnSet(PaymentAmount, Returned)
  <2>1. EntriesOf(ReturnEntries, "returned", Returned, PaymentAmount, value)
    BY <1>2, <1>4, <1>5 DEF EntriesOf, ReturnEntries
  <2> QED BY <2>1, EntriesAddUp
<1>13. /\ IsFiniteSet(AllocationEntries)
       /\ \A e \in AllocationEntries : value[e] \in Int /\ e.event = "allocated"
       /\ sum(AllocationEntries) = SumFunctionOnSet(paid, DOMAIN allocation)
  <2>1. EntriesOf(AllocationEntries, "allocated", DOMAIN allocation, paid, value)
    BY <1>2, <1>3, <1>5, <1>6 DEF EntriesOf
  <2> QED BY <2>1, EntriesAddUp
<1>14. /\ IsFiniteSet(UnwoundEntries)
       /\ \A e \in UnwoundEntries : value[e] \in Int /\ e.event = "unwound"
       /\ sum(UnwoundEntries) = SumFunctionOnSet(paid, Undone)
  <2>1. EntriesOf(UnwoundEntries, "unwound", Undone, paid, value)
    BY <1>2, <1>3, <1>5, <1>6 DEF EntriesOf, Undone
  <2> QED BY <2>1, EntriesAddUp
<1>15. /\ IsFiniteSet(CreditEntries)
       /\ \A e \in CreditEntries : value[e] \in Int /\ e.event = "credit"
       /\ sum(CreditEntries) = SumFunctionOnSet(forgiven, DOMAIN credit)
  <2>1. EntriesOf(CreditEntries, "credit", DOMAIN credit, forgiven, value)
    BY <1>2, <1>3, <1>5, <1>6 DEF EntriesOf
  <2> QED BY <2>1, EntriesAddUp
<1> DEFINE debits(a) == {e \in journal : Debited[e.event] = a}
           credits(a) == {e \in journal : Credited[e.event] = a}
<1>20. /\ debits("CASH") = ReceiptEntries /\ credits("CASH") = ReturnEntries
  BY <1>10, <1>11, <1>12, <1>13, <1>14, <1>15 DEF JournalOfRows, Debited, Credited
<1>21. /\ debits("UNAPPLIED") = AllocationEntries \cup ReturnEntries
       /\ credits("UNAPPLIED") = ReceiptEntries \cup UnwoundEntries
  BY <1>10, <1>11, <1>12, <1>13, <1>14, <1>15 DEF JournalOfRows, Debited, Credited
<1>22. /\ debits("AR") = ChargeEntries \cup UnwoundEntries
       /\ credits("AR") = CreditEntries \cup AllocationEntries
  BY <1>10, <1>11, <1>12, <1>13, <1>14, <1>15 DEF JournalOfRows, Debited, Credited
<1>23. \A a : LedgerBalance(a) = sum(debits(a)) - sum(credits(a))
  BY DEF LedgerBalance, value
<1> DEFINE kept == {m \in Payment : payment[m].status \notin {"ABSENT", "REVERSED"}}
           standing == {i \in DOMAIN allocation : allocation[i].status = "ACTIVE"}
           billed == [c \in Charge |-> ChargeAmount[c] - CreditsOn(c)]
<1>30. SumFunctionOnSet(PaymentAmount, Received)
         = SumFunctionOnSet(PaymentAmount, Returned) + SumFunctionOnSet(PaymentAmount, kept)
  <2>1. Received \ Returned = kept /\ Returned \in SUBSET Received
    BY DEF Received, Returned
  <2> HIDE DEF kept
  <2>2. SumFunctionOnSet(PaymentAmount, Received)
          = SumFunctionOnSet(PaymentAmount, Returned)
            + SumFunctionOnSet(PaymentAmount, Received \ Returned)
    BY <1>4, <2>1, SumPart
  <2> QED BY <2>1, <2>2
<1>31. SumFunctionOnSet(paid, DOMAIN allocation)
         = SumFunctionOnSet(paid, Undone) + AmountOf(standing)
  <2>1. DOMAIN allocation \ Undone = standing /\ Undone \in SUBSET DOMAIN allocation
    BY <1>1 DEF Undone, AllocationRow
  <2>2. AmountOf(standing) = SumFunctionOnSet(paid, standing)
    BY DEF AmountOf, paid
  <2> HIDE DEF standing
  <2> QED BY <1>2, <1>3, <2>1, <2>2, SumPart
<1>32. SumFunctionOnSet(billed, Posted)
         = SumFunctionOnSet(ChargeAmount, Posted) - SumFunctionOnSet(forgiven, DOMAIN credit)
  <2> DEFINE k == [i \in DOMAIN credit |-> credit[i].charge]
             g == [c \in Charge |-> CreditsOn(c)]
  <2>1. \A i \in DOMAIN credit : k[i] \in Posted
    OBVIOUS
  <2>2. ASSUME NEW c \in Posted
        PROVE  g[c] = SumFunctionOnSet(forgiven, {i \in DOMAIN credit : k[i] = c})
    <3>1. {i \in DOMAIN credit : k[i] = c} = {i \in DOMAIN credit : credit[i].charge = c}
      OBVIOUS
    <3>2. g[c] = CreditsOn(c)
      BY DEF Posted
    <3> HIDE DEF k, g
    <3> QED BY <3>1, <3>2 DEF CreditsOn, forgiven
  <2>3. \A i \in DOMAIN credit : forgiven[i] \in Int
    BY <1>3
  <2>4. SumFunctionOnSet(g, Posted) = SumFunctionOnSet(forgiven, DOMAIN credit)
    <3> HIDE DEF k, g
    <3>1. Groups(k, g, Posted, forgiven, DOMAIN credit)
      BY <2>1, <2>2, <2>3 DEF Groups
    <3> QED BY <1>2, <3>1, SumByGroup
  <2>5. ASSUME NEW c \in Posted
        PROVE  ChargeAmount[c] \in Int /\ g[c] \in Int /\ billed[c] = ChargeAmount[c] - g[c]
    <3>1. billed[c] = ChargeAmount[c] - g[c] /\ ChargeAmount[c] \in Int
      BY <1>4 DEF Posted
    <3>2. IsFiniteSet({i \in DOMAIN credit : k[i] = c})
      BY <1>2, FS_Subset
    <3>3. g[c] \in Int
      <4>1. \A i \in {i \in DOMAIN credit : k[i] = c} : forgiven[i] \in Int
        BY <2>3
      <4>2. g[c] = SumFunctionOnSet(forgiven, {i \in DOMAIN credit : k[i] = c})
        BY <2>2
      <4> DEFINE mine == {i \in DOMAIN credit : k[i] = c}
      <4> HIDE DEF k, g, mine
      <4>3. SumFunctionOnSet(forgiven, mine) \in Int
        BY <3>2, <4>1, SumInt DEF mine
      <4> QED BY <4>2, <4>3 DEF mine
    <3> QED BY <3>1, <3>3
  <2> HIDE DEF k, g, billed
  <2>6. SumFunctionOnSet(billed, Posted)
          = SumFunctionOnSet(ChargeAmount, Posted) - SumFunctionOnSet(g, Posted)
    BY <1>2, <2>5, SumMinus
  <2> QED BY <2>4, <2>6
<1>33. /\ SumFunctionOnSet(PaymentAmount, kept) \in Int
       /\ SumFunctionOnSet(PaymentAmount, Returned) \in Int
       /\ SumFunctionOnSet(ChargeAmount, Posted) \in Int
       /\ SumFunctionOnSet(forgiven, DOMAIN credit) \in Int
       /\ SumFunctionOnSet(paid, Undone) \in Int
       /\ AmountOf(standing) \in Int
  <2>1. kept \in SUBSET Received /\ IsFiniteSet(kept)
    BY FS_Subset DEF Received
  <2>2. standing \in SUBSET DOMAIN allocation /\ IsFiniteSet(standing)
    BY <1>2, FS_Subset
  <2>3. AmountOf(standing) = SumFunctionOnSet(paid, standing)
    BY DEF AmountOf, paid
  <2>4. /\ \A i \in Undone : paid[i] \in Int
        /\ \A i \in standing : paid[i] \in Int
        /\ \A i \in DOMAIN credit : forgiven[i] \in Int
        /\ \A m \in kept : PaymentAmount[m] \in Int
        /\ \A m \in Returned : PaymentAmount[m] \in Int
        /\ \A c \in Posted : ChargeAmount[c] \in Int
    BY <1>3, <1>4, <2>1 DEF Undone
  <2> HIDE DEF kept, standing
  <2> QED BY <1>2, <2>1, <2>2, <2>3, <2>4, SumInt
<1> HIDE DEF kept, standing, billed, debits, credits
<1>40. LedgerBalance("CASH") = SumFunctionOnSet(PaymentAmount, kept)
  BY <1>11, <1>12, <1>20, <1>23, <1>30, <1>33
<1>41. LedgerBalance("UNAPPLIED") = AmountOf(standing) - SumFunctionOnSet(PaymentAmount, kept)
  <2>1. /\ sum(AllocationEntries \cup ReturnEntries) = sum(AllocationEntries) + sum(ReturnEntries)
        /\ sum(ReceiptEntries \cup UnwoundEntries) = sum(ReceiptEntries) + sum(UnwoundEntries)
    <3>1. /\ OfKinds(AllocationEntries, "allocated", ReturnEntries, "returned", value)
          /\ OfKinds(ReceiptEntries, "receipt", UnwoundEntries, "unwound", value)
      BY <1>11, <1>12, <1>13, <1>14 DEF OfKinds
    <3> QED BY <3>1, KindsAddUp
  <2>2. LedgerBalance("UNAPPLIED")
          = sum(AllocationEntries \cup ReturnEntries) - sum(ReceiptEntries \cup UnwoundEntries)
    BY <1>21, <1>23
  <2> QED BY <1>11, <1>12, <1>13, <1>14, <1>30, <1>31, <1>33, <2>1, <2>2
<1>42. LedgerBalance("AR") = SumFunctionOnSet(billed, Posted) - AmountOf(standing)
  <2>1. /\ sum(ChargeEntries \cup UnwoundEntries) = sum(ChargeEntries) + sum(UnwoundEntries)
        /\ sum(CreditEntries \cup AllocationEntries) = sum(CreditEntries) + sum(AllocationEntries)
    <3>1. /\ OfKinds(ChargeEntries, "charge", UnwoundEntries, "unwound", value)
          /\ OfKinds(CreditEntries, "credit", AllocationEntries, "allocated", value)
      BY <1>10, <1>13, <1>14, <1>15 DEF OfKinds
    <3> QED BY <3>1, KindsAddUp
  <2>2. LedgerBalance("AR")
          = sum(ChargeEntries \cup UnwoundEntries) - sum(CreditEntries \cup AllocationEntries)
    BY <1>22, <1>23
  <2> QED BY <1>10, <1>13, <1>14, <1>15, <1>31, <1>32, <1>33, <2>1, <2>2
<1> QED
  BY <1>40, <1>41, <1>42 DEF LedgerFollowsRows, kept, standing, billed, Posted

----------------------------------------------------------------------------
(* The inductive invariant of the totals. *)

Tables ==
    /\ charge \in [Charge -> ChargeFields]
    /\ payment \in [Payment -> PaymentFields]
    /\ credit \in Seq(CreditRow)

(* Allocations and credits are of rows that exist. *)
RowsNamed ==
    /\ \A i \in DOMAIN allocation :
          allocation[i].payment \in Received /\ allocation[i].charge \in Posted
    /\ \A i \in DOMAIN credit : credit[i].charge \in Posted
    /\ IsFiniteSet(Received)

(* What an operation under way names exists, and a provider reversal       *)
(* recorded charges for all the allocations it recorded.                   *)
Known(t) ==
    /\ op[t].kind = "approve" =>
          op[t].payment \in Received /\ \A c \in DOMAIN op[t].lines : c \in Posted
    /\ op[t].kind \in {"credit", "datedCredit"} => op[t].charge \in Posted
    /\ op[t].kind = "providerReversal" =>
          /\ op[t].payment \in Received
          /\ \A i \in op[t].rows :
                /\ allocation[i].payment = op[t].payment
                /\ op[t].charges[allocation[i].charge] \in ChargeFields

(* What was read under the locks are rows, and the payment's still has the *)
(* room, or the cents, the plan was accepted for.                          *)
Planned(t) ==
    /\ op[t].kind = "approve" =>
          /\ \A c \in DOMAIN op[t].lines : fresh[t].charges[c] \in ChargeFields
          /\ Total(op[t].lines) <= PaymentAmount[op[t].payment] - payment[op[t].payment].allocated
    /\ op[t].kind = "reverse" =>
          LET a == allocation[op[t].allocation] IN
          /\ fresh[t].charges[a.charge] \in ChargeFields
          /\ payment[a.payment].allocated >= a.amount
    /\ op[t].kind \in {"credit", "datedCredit"} => fresh[t].charges[op[t].charge] \in ChargeFields

LInv ==
    /\ IInv
    /\ Tables
    /\ RowsNamed
    /\ JournalOfRows
    /\ PaymentsInStep
    /\ \A t \in Session : pc[t] # "idle" => Known(t)
    /\ \A t \in Session : pc[t] = "holding" => Planned(t)

----------------------------------------------------------------------------
(* The amounts of allocations, as rows are added and unwound. *)

Paid == [i \in DOMAIN allocation |-> allocation[i].amount]

(* The rows of a table of allocations. *)
LEMMA AllocationRows ==
  ASSUME allocation \in Seq(AllocationRow)
  PROVE  /\ DOMAIN allocation = 1..Len(allocation) /\ Len(allocation) \in Nat
         /\ IsFiniteSet(DOMAIN allocation)
         /\ \A i \in DOMAIN allocation :
               /\ allocation[i] \in AllocationRow
               /\ allocation[i].payment \in Payment /\ allocation[i].charge \in Charge
               /\ allocation[i].amount \in Nat \ {0} /\ allocation[i].status \in {"ACTIVE", "REVERSED"}
               /\ Paid[i] = allocation[i].amount
         /\ \A m : ActiveOf(m) \in SUBSET DOMAIN allocation /\ IsFiniteSet(ActiveOf(m))
         /\ \A c : ActiveOn(c) \in SUBSET DOMAIN allocation /\ IsFiniteSet(ActiveOn(c))
<1>1. DOMAIN allocation = 1..Len(allocation) /\ Len(allocation) \in Nat
  BY LenProperties
<1>2. IsFiniteSet(DOMAIN allocation)
  BY <1>1, FS_Interval
<1>3. \A i \in DOMAIN allocation : allocation[i] \in AllocationRow
  BY LenProperties
<1>4. \A m : ActiveOf(m) \in SUBSET DOMAIN allocation /\ IsFiniteSet(ActiveOf(m))
  <2> SUFFICES ASSUME NEW m
               PROVE  ActiveOf(m) \in SUBSET DOMAIN allocation /\ IsFiniteSet(ActiveOf(m))
    OBVIOUS
  <2>1. ActiveOf(m) \in SUBSET DOMAIN allocation
    BY DEF ActiveOf
  <2> QED BY <1>2, <2>1, FS_Subset
<1>5. \A c : ActiveOn(c) \in SUBSET DOMAIN allocation /\ IsFiniteSet(ActiveOn(c))
  <2> SUFFICES ASSUME NEW c
               PROVE  ActiveOn(c) \in SUBSET DOMAIN allocation /\ IsFiniteSet(ActiveOn(c))
    OBVIOUS
  <2>1. ActiveOn(c) \in SUBSET DOMAIN allocation
    BY DEF ActiveOn
  <2> QED BY <1>2, <2>1, FS_Subset
<1> QED
  BY <1>1, <1>2, <1>3, <1>4, <1>5 DEF AllocationRow, Paid

(* Sums over rows that were there before. *)
LEMMA AmountsStand ==
  ASSUME allocation \in Seq(AllocationRow), Grows, NEW S \in SUBSET DOMAIN allocation
  PROVE  /\ SumFunctionOnSet(Paid', S) = SumFunctionOnSet(Paid, S)
         /\ SumFunctionOnSet(Paid, S) \in Nat
<1>1. IsFiniteSet(S)
  BY AllocationRows, FS_Subset
<1>2. \A i \in S : Paid'[i] = Paid[i]
  BY DEF Paid, Grows
<1>3. \A i \in S : Paid[i] \in Nat
  BY AllocationRows
<1> QED
  BY <1>1, <1>2, <1>3, SumSame, SumNat

(* approve adds the rows New, g saying the charge of each. *)
Adds(m, f, New, g) ==
    /\ New = (Len(allocation) + 1)..Len(allocation')
    /\ IsFiniteSet(New) /\ New \cap DOMAIN allocation = {}
    /\ DOMAIN allocation' = DOMAIN allocation \cup New
    /\ \A i \in DOMAIN allocation : allocation'[i] = allocation[i]
    /\ \A i \in New : /\ g[i] \in DOMAIN f
                      /\ allocation'[i] = [payment |-> m, charge |-> g[i],
                                           amount |-> f[g[i]], status |-> "ACTIVE"]
    /\ \A c \in DOMAIN f : \E i \in New : g[i] = c
    /\ \A i, j \in New : g[i] = g[j] => i = j

(* A sequence of a finite set has each element once. *)
LEMMA SetToSeqBijects ==
  ASSUME NEW S, IsFiniteSet(S)
  PROVE  /\ SetToSeq(S) \in [1..Cardinality(S) -> S] /\ Cardinality(S) \in Nat
         /\ \A i, j \in 1..Cardinality(S) : SetToSeq(S)[i] = SetToSeq(S)[j] => i = j
         /\ \A x \in S : \E i \in 1..Cardinality(S) : SetToSeq(S)[i] = x
<1>1. Cardinality(S) \in Nat /\ ExistsBijection(1..Cardinality(S), S)
  BY FS_CardinalityType
<1>2. PICK f \in [1..Cardinality(S) -> S] : IsInjective(f)
  BY <1>1 DEF ExistsBijection, Bijection, Injection
<1>3. SetToSeq(S) \in [1..Cardinality(S) -> S] /\ IsInjective(SetToSeq(S))
  BY <1>1, <1>2 DEF SetToSeq
<1>4. SetToSeq(S) \in Injection(1..Cardinality(S), S)
  BY <1>3 DEF Injection
<1>5. Cardinality(1..Cardinality(S)) = Cardinality(S)
  BY <1>1, FS_Interval
<1>6. SetToSeq(S) \in Surjection(1..Cardinality(S), S)
  BY <1>4, <1>5, FS_Injection
<1> QED
  BY <1>1, <1>3, <1>6 DEF Surjection, IsInjective

(* An approval appends rows of its payment with the amounts of its lines, *)
(* and the entries it writes are theirs.                                  *)
LEMMA ApprovalAdds ==
  ASSUME allocation \in Seq(AllocationRow), NEW m \in Payment, NEW f \in Lines,
         allocation' = allocation \o NewAllocations(m, f)
  PROVE  /\ \E New, g : Adds(m, f, New, g)
         /\ Grows
         /\ {Entry("allocated", Len(allocation) + i, NewAllocations(m, f)[i].amount) :
                i \in DOMAIN NewAllocations(m, f)}
              = {Entry("allocated", i, allocation'[i].amount) :
                    i \in DOMAIN allocation' \ DOMAIN allocation}
<1> DEFINE order == SetToSeq(DOMAIN f)
           n == Cardinality(DOMAIN f)
           rows == NewAllocations(m, f)
           L == Len(allocation)
           New == (L + 1)..(L + n)
           g == [i \in New |-> order[i - L]]
<1>1. /\ order \in [1..n -> DOMAIN f] /\ n \in Nat
      /\ \A i, j \in 1..n : order[i] = order[j] => i = j
      /\ \A x \in DOMAIN f : \E i \in 1..n : order[i] = x
  BY LinesType, SetToSeqBijects
<1>2. /\ DOMAIN allocation = 1..L /\ L \in Nat
  BY AllocationRows
<1>3. rows \in Seq(AllocationRow)
  BY NewAllocationsType
<1> HIDE DEF order, n
<1>4. /\ rows = [i \in 1..n |-> [payment |-> m, charge |-> order[i],
                                 amount |-> f[order[i]], status |-> "ACTIVE"]]
  BY <1>1 DEF NewAllocations, order
<1>5. Len(rows) = n /\ DOMAIN rows = 1..n
  BY <1>1, <1>3, <1>4, LenProperties
<1> HIDE DEF rows
<1>6. /\ allocation' \in Seq(AllocationRow) /\ Len(allocation') = L + n
      /\ \A i \in 1..L : allocation'[i] = allocation[i]
      /\ \A i \in New : allocation'[i] = rows[i - L]
  <2>1. /\ allocation' \in Seq(AllocationRow) /\ Len(allocation') = L + Len(rows)
        /\ \A i \in 1..L : allocation'[i] = allocation[i]
        /\ \A i \in (L + 1)..(L + Len(rows)) : allocation'[i] = rows[i - L]
    BY <1>3, ConcatProperties DEF rows
  <2> QED BY <1>5, <2>1
<1>7. DOMAIN allocation' = 1..(L + n)
  BY <1>6, LenProperties
<1>8. /\ New \cap DOMAIN allocation = {} /\ DOMAIN allocation' = DOMAIN allocation \cup New
      /\ DOMAIN allocation' \ DOMAIN allocation = New
  BY <1>1, <1>2, <1>7
<1>9. IsFiniteSet(New)
  BY <1>1, <1>2, FS_Interval
<1>10. ASSUME NEW i \in New
       PROVE  /\ i - L \in 1..n /\ g[i] = order[i - L] /\ g[i] \in DOMAIN f
              /\ allocation'[i] = [payment |-> m, charge |-> g[i],
                                   amount |-> f[g[i]], status |-> "ACTIVE"]
  <2>1. i - L \in 1..n /\ g[i] = order[i - L]
    BY <1>1, <1>2
  <2>2. order[i - L] \in DOMAIN f
    BY <1>1, <2>1
  <2>3. allocation'[i] = rows[i - L]
    BY <1>6
  <2> QED BY <1>4, <2>1, <2>2, <2>3
<1>11. \A c \in DOMAIN f : \E i \in New : g[i] = c
  <2> SUFFICES ASSUME NEW c \in DOMAIN f PROVE \E i \in New : g[i] = c
    OBVIOUS
  <2>1. PICK i \in 1..n : order[i] = c
    BY <1>1
  <2>2. L + i \in New /\ (L + i) - L = i
    BY <1>1, <1>2
  <2> QED BY <2>1, <2>2
<1>12. ASSUME NEW i \in New, NEW j \in New, g[i] = g[j] PROVE i = j
  <2>1. order[i - L] = order[j - L] /\ i - L \in 1..n /\ j - L \in 1..n
    BY <1>10, <1>12
  <2>2. i - L = j - L
    BY <1>1, <2>1
  <2> QED BY <1>1, <1>2, <2>2
<1> HIDE DEF g
<1>13. Adds(m, f, New, g)
  BY <1>6, <1>8, <1>9, <1>10, <1>11, <1>12, <1>2 DEF Adds
<1>14. Grows
  BY <1>2, <1>6, <1>8 DEF Grows
<1>15. {Entry("allocated", L + i, rows[i].amount) : i \in DOMAIN rows}
         = {Entry("allocated", i, allocation'[i].amount) : i \in New}
  <2>1. ASSUME NEW i \in 1..n PROVE L + i \in New /\ allocation'[L + i] = rows[i]
    <3>1. L + i \in New /\ (L + i) - L = i
      BY <1>1, <1>2
    <3> QED BY <1>6, <3>1
  <2>2. ASSUME NEW i \in New PROVE i - L \in 1..n /\ L + (i - L) = i /\ allocation'[i] = rows[i - L]
    BY <1>1, <1>2, <1>6
  <2> HIDE DEF New
  <2>3. \A e : e \in {Entry("allocated", L + i, rows[i].amount) : i \in DOMAIN rows}
                 => e \in {Entry("allocated", i, allocation'[i].amount) : i \in New}
    BY <1>5, <2>1
  <2>4. \A e : e \in {Entry("allocated", i, allocation'[i].amount) : i \in New}
                 => e \in {Entry("allocated", L + i, rows[i].amount) : i \in DOMAIN rows}
    <3> SUFFICES ASSUME NEW i \in New
                 PROVE  Entry("allocated", i, allocation'[i].amount)
                          \in {Entry("allocated", L + j, rows[j].amount) : j \in DOMAIN rows}
      OBVIOUS
    <3>1. Entry("allocated", i, allocation'[i].amount)
            = Entry("allocated", L + (i - L), rows[i - L].amount)
      BY <2>2
    <3> QED BY <1>5, <2>2, <3>1
  <2> QED BY <2>3, <2>4
<1> QED
  BY <1>8, <1>13, <1>14, <1>15 DEF rows

(* A payment's approval adds the lines' total to what draws on it, and     *)
(* changes what draws on no other.                                         *)
LEMMA PaymentGains ==
  ASSUME allocation \in Seq(AllocationRow), NEW m \in Payment, NEW f \in Lines,
         NEW New, NEW g, Adds(m, f, New, g), Grows
  PROVE  /\ AmountOf(ActiveOf(m))' = AmountOf(ActiveOf(m)) + Total(f)
         /\ \A x \in Payment \ {m} : AmountOf(ActiveOf(x))' = AmountOf(ActiveOf(x))
         /\ Total(f) \in Nat
<1>1. /\ \A i \in DOMAIN allocation : allocation'[i] = allocation[i]
      /\ DOMAIN allocation' = DOMAIN allocation \cup New /\ New \cap DOMAIN allocation = {}
      /\ IsFiniteSet(New)
      /\ \A i \in New : /\ g[i] \in DOMAIN f
                        /\ allocation'[i] = [payment |-> m, charge |-> g[i],
                                             amount |-> f[g[i]], status |-> "ACTIVE"]
  BY DEF Adds
<1>2. ActiveOf(m)' = ActiveOf(m) \cup New /\ ActiveOf(m) \cap New = {}
  BY <1>1 DEF ActiveOf
<1>3. \A x \in Payment \ {m} : ActiveOf(x)' = ActiveOf(x)
  BY <1>1 DEF ActiveOf
<1>4. /\ \A x \in DOMAIN f : f[x] \in Int /\ f[x] \in Nat
      /\ \A i \in New : Paid'[i] = f[g[i]]
  BY <1>1, LinesType DEF Paid
<1>5. Renames(g, Paid', New, f, DOMAIN f)
  BY <1>1, <1>4 DEF Renames, Adds
<1>6. SumFunctionOnSet(Paid', New) = Total(f)
  BY <1>1, <1>5, SumRenamed DEF Total, SumFunction
<1>7. Total(f) \in Nat
  BY <1>4, LinesType, SumNat DEF Total, SumFunction
<1>8. /\ ActiveOf(m) \in SUBSET DOMAIN allocation /\ IsFiniteSet(ActiveOf(m))
      /\ \A x \in Payment : ActiveOf(x) \in SUBSET DOMAIN allocation
  BY AllocationRows
<1>9. \A i \in ActiveOf(m) \cup New : Paid'[i] \in Int
  <2>1. \A i \in ActiveOf(m) : Paid'[i] = Paid[i] /\ Paid[i] \in Int
    BY <1>1, <1>8, AllocationRows DEF Paid
  <2> QED BY <1>1, <1>4, <2>1
<1>10. SumFunctionOnSet(Paid', ActiveOf(m) \cup New)
         = SumFunctionOnSet(Paid', ActiveOf(m)) + SumFunctionOnSet(Paid', New)
  BY <1>1, <1>2, <1>8, <1>9, SumUnion
<1>11. SumFunctionOnSet(Paid', ActiveOf(m)) = SumFunctionOnSet(Paid, ActiveOf(m))
  BY <1>8, AmountsStand
<1>12. AmountOf(ActiveOf(m))' = SumFunctionOnSet(Paid', ActiveOf(m) \cup New)
  BY <1>2 DEF AmountOf, Paid
<1>13. ASSUME NEW x \in Payment \ {m} PROVE AmountOf(ActiveOf(x))' = AmountOf(ActiveOf(x))
  <2>1. SumFunctionOnSet(Paid', ActiveOf(x)) = SumFunctionOnSet(Paid, ActiveOf(x))
    BY <1>8, AmountsStand
  <2>2. ActiveOf(x)' = ActiveOf(x)
    BY <1>3
  <2> QED BY <2>1, <2>2 DEF AmountOf, Paid
<1>14. AmountOf(ActiveOf(m)) = SumFunctionOnSet(Paid, ActiveOf(m))
  BY DEF AmountOf, Paid
<1> QED
  BY <1>6, <1>7, <1>10, <1>11, <1>12, <1>13, <1>14

(* It adds its line to what settles each of its charges, and nothing to    *)
(* any other charge.                                                       *)
LEMMA ChargeGains ==
  ASSUME allocation \in Seq(AllocationRow), NEW m \in Payment, NEW f \in Lines,
         NEW New, NEW g, Adds(m, f, New, g), Grows
  PROVE  /\ \A c \in DOMAIN f : AmountOf(ActiveOn(c))' = AmountOf(ActiveOn(c)) + f[c]
         /\ \A c \in Charge \ DOMAIN f : AmountOf(ActiveOn(c))' = AmountOf(ActiveOn(c))
<1>1. /\ \A i \in DOMAIN allocation : allocation'[i] = allocation[i]
      /\ DOMAIN allocation' = DOMAIN allocation \cup New /\ New \cap DOMAIN allocation = {}
      /\ \A i \in New : /\ g[i] \in DOMAIN f
                        /\ allocation'[i] = [payment |-> m, charge |-> g[i],
                                             amount |-> f[g[i]], status |-> "ACTIVE"]
      /\ \A c \in DOMAIN f : \E i \in New : g[i] = c
      /\ \A i, j \in New : g[i] = g[j] => i = j
  BY DEF Adds
<1>2. ASSUME NEW c \in DOMAIN f
      PROVE  AmountOf(ActiveOn(c))' = AmountOf(ActiveOn(c)) + f[c]
  <2>1. PICK i \in New : g[i] = c
    BY <1>1
  <2>2. ActiveOn(c)' = ActiveOn(c) \cup {i} /\ i \notin ActiveOn(c)
    BY <1>1, <2>1 DEF ActiveOn
  <2>3. Paid'[i] = f[c] /\ f[c] \in Nat
    BY <1>1, <2>1, LinesType DEF Paid
  <2>4. ActiveOn(c) \in SUBSET DOMAIN allocation /\ IsFiniteSet(ActiveOn(c))
    BY AllocationRows
  <2>5. \A j \in ActiveOn(c) \cup {i} : Paid'[j] \in Int
    <3>1. \A j \in ActiveOn(c) : Paid'[j] = Paid[j] /\ Paid[j] \in Int
      BY <1>1, <2>4, AllocationRows DEF Paid
    <3> QED BY <2>3, <3>1
  <2>6. SumFunctionOnSet(Paid', ActiveOn(c) \cup {i})
          = Paid'[i] + SumFunctionOnSet(Paid', ActiveOn(c))
    BY <2>2, <2>4, <2>5, SumAdd
  <2>7. /\ SumFunctionOnSet(Paid', ActiveOn(c)) = SumFunctionOnSet(Paid, ActiveOn(c))
        /\ SumFunctionOnSet(Paid, ActiveOn(c)) \in Nat
    BY <2>4, AmountsStand
  <2>8. AmountOf(ActiveOn(c))' = SumFunctionOnSet(Paid', ActiveOn(c) \cup {i})
    BY <2>2 DEF AmountOf, Paid
  <2>9. AmountOf(ActiveOn(c)) = SumFunctionOnSet(Paid, ActiveOn(c))
    BY DEF AmountOf, Paid
  <2> QED BY <2>3, <2>6, <2>7, <2>8, <2>9
<1>3. ASSUME NEW c \in Charge \ DOMAIN f
      PROVE  AmountOf(ActiveOn(c))' = AmountOf(ActiveOn(c))
  <2>1. ActiveOn(c)' = ActiveOn(c)
    BY <1>1 DEF ActiveOn
  <2>2. SumFunctionOnSet(Paid', ActiveOn(c)) = SumFunctionOnSet(Paid, ActiveOn(c))
    BY AllocationRows, AmountsStand
  <2> QED BY <2>1, <2>2 DEF AmountOf, Paid
<1> QED
  BY <1>2, <1>3

(* A set of rows unwound: what is left on each payment. *)
LEMMA UnwindLeaves ==
  ASSUME Shapes, NEW S \in SUBSET DOMAIN allocation, allocation' = Unwind(S)
  PROVE  /\ Grows /\ DOMAIN allocation' = DOMAIN allocation
         /\ \A i \in DOMAIN allocation : allocation'[i].status =
               IF i \in S THEN "REVERSED" ELSE allocation[i].status
         /\ \A m : ActiveOf(m)' = ActiveOf(m) \ S
         /\ \A c : ActiveOn(c)' = ActiveOn(c) \ S
<1>1. allocation \in Seq(AllocationRow)
  BY DEF Shapes
<1>2. Grows /\ DOMAIN allocation' = DOMAIN allocation
  BY UnwindingGrows DEF Unwind
<1>3. \A i \in DOMAIN allocation :
         /\ allocation'[i].payment = allocation[i].payment
         /\ allocation'[i].charge = allocation[i].charge
         /\ allocation'[i].status = IF i \in S THEN "REVERSED" ELSE allocation[i].status
  BY <1>1, AllocationRows DEF Unwind, AllocationRow
<1> QED
  BY <1>2, <1>3 DEF ActiveOf, ActiveOn

(* One row unwound: its payment and its charge lose its amount. *)
LEMMA UnwindTakes ==
  ASSUME Shapes, NEW i \in DOMAIN allocation, allocation[i].status = "ACTIVE",
         allocation' = Unwind({i})
  PROVE  /\ \A m \in Payment : AmountOf(ActiveOf(m))' =
               IF m = allocation[i].payment THEN AmountOf(ActiveOf(m)) - allocation[i].amount
               ELSE AmountOf(ActiveOf(m))
         /\ \A c \in Charge : AmountOf(ActiveOn(c))' =
               IF c = allocation[i].charge THEN AmountOf(ActiveOn(c)) - allocation[i].amount
               ELSE AmountOf(ActiveOn(c))
<1>1. allocation \in Seq(AllocationRow)
  BY DEF Shapes
<1>2. /\ Grows
      /\ \A m : ActiveOf(m)' = ActiveOf(m) \ {i}
      /\ \A c : ActiveOn(c)' = ActiveOn(c) \ {i}
  BY UnwindLeaves
<1>3. ASSUME NEW S \in SUBSET DOMAIN allocation
      PROVE  SumFunctionOnSet(Paid', S \ {i}) =
               IF i \in S THEN SumFunctionOnSet(Paid, S) - allocation[i].amount
               ELSE SumFunctionOnSet(Paid, S)
  <2>1. IsFiniteSet(S) /\ \A x \in S : Paid[x] \in Int
    BY <1>1, AllocationRows, FS_Subset
  <2>2. /\ SumFunctionOnSet(Paid', S \ {i}) = SumFunctionOnSet(Paid, S \ {i})
        /\ SumFunctionOnSet(Paid, S \ {i}) \in Nat
    BY <1>1, <1>2, AmountsStand
  <2>3. CASE i \in S
    <3>1. SumFunctionOnSet(Paid, S) = Paid[i] + SumFunctionOnSet(Paid, S \ {i})
      BY <2>1, <2>3, SumTakeOut
    <3>2. Paid[i] = allocation[i].amount /\ allocation[i].amount \in Nat
      BY <1>1, AllocationRows
    <3> QED BY <2>2, <2>3, <3>1, <3>2
  <2>4. CASE i \notin S
    <3>1. S \ {i} = S
      BY <2>4
    <3> QED BY <2>2, <2>4, <3>1
  <2> QED BY <2>3, <2>4
<1>4. ASSUME NEW m \in Payment
      PROVE  AmountOf(ActiveOf(m))' =
               IF m = allocation[i].payment THEN AmountOf(ActiveOf(m)) - allocation[i].amount
               ELSE AmountOf(ActiveOf(m))
  <2>1. ActiveOf(m) \in SUBSET DOMAIN allocation /\ (i \in ActiveOf(m) <=> m = allocation[i].payment)
    BY <1>1, AllocationRows DEF ActiveOf
  <2>2. /\ AmountOf(ActiveOf(m)) = SumFunctionOnSet(Paid, ActiveOf(m))
        /\ AmountOf(ActiveOf(m))' = SumFunctionOnSet(Paid', ActiveOf(m) \ {i})
    BY <1>2 DEF AmountOf, Paid
  <2> QED BY <1>3, <2>1, <2>2
<1>5. ASSUME NEW c \in Charge
      PROVE  AmountOf(ActiveOn(c))' =
               IF c = allocation[i].charge THEN AmountOf(ActiveOn(c)) - allocation[i].amount
               ELSE AmountOf(ActiveOn(c))
  <2>1. ActiveOn(c) \in SUBSET DOMAIN allocation /\ (i \in ActiveOn(c) <=> c = allocation[i].charge)
    BY <1>1, AllocationRows DEF ActiveOn
  <2>2. /\ AmountOf(ActiveOn(c)) = SumFunctionOnSet(Paid, ActiveOn(c))
        /\ AmountOf(ActiveOn(c))' = SumFunctionOnSet(Paid', ActiveOn(c) \ {i})
    BY <1>2 DEF AmountOf, Paid
  <2> QED BY <1>3, <2>1, <2>2
<1> QED
  BY <1>4, <1>5

----------------------------------------------------------------------------
(* What a step must do to keep the invariant. *)

(* The writes of a charge leave a charge row, and never unmake it. *)
LEMMA ChargeWrites ==
  ASSUME Tables, NEW c \in Charge, NEW was \in ChargeFields
  PROVE  /\ \A n \in Int, u \in Nat : /\ Reallocated(c, was, n, u) \in ChargeFields
                                     /\ Reallocated(c, was, n, u).status # "ABSENT"
         /\ \A n \in Nat : /\ Recredited(c, was, n) \in ChargeFields
                           /\ Recredited(c, was, n).status # "ABSENT"
         /\ NewCharge(c) \in ChargeFields /\ NewCharge(c).status # "ABSENT"
<1>1. /\ ChargeAmount[c] \in Nat /\ charge[c] \in ChargeFields
      /\ charge[c].credited \in Nat /\ charge[c].allocated \in Nat /\ charge[c].version \in Nat
      /\ was.credited \in Nat /\ was.allocated \in Nat
  BY ColumnAssumption DEF Tables, ChargeFields
<1>2. \A n, k : nextChargeStatus(c, n, k) \in {"POSTED", "SETTLED", "VOIDED"}
  BY DEF nextChargeStatus
<1>3. \A n \in Int : Floor(n) \in Nat
  BY DEF Floor
<1>4. ASSUME NEW n \in Int, NEW u \in Nat
      PROVE  /\ Reallocated(c, was, n, u) \in ChargeFields
             /\ Reallocated(c, was, n, u).status # "ABSENT"
  <2>1. ChargeAmount[c] - Floor(n) - was.credited \in Int /\ charge[c].version + u \in Nat
    BY <1>1, <1>3
  <2> QED BY <1>1, <1>2, <1>3, <2>1 DEF Reallocated, ChargeFields
<1>5. ASSUME NEW n \in Nat
      PROVE  Recredited(c, was, n) \in ChargeFields /\ Recredited(c, was, n).status # "ABSENT"
  <2>1. ChargeAmount[c] - was.allocated - n \in Int /\ charge[c].version + 1 \in Nat
    BY <1>1
  <2> QED BY <1>1, <1>2, <2>1 DEF Recredited, ChargeFields
<1>6. NewCharge(c) \in ChargeFields /\ NewCharge(c).status # "ABSENT"
  BY <1>1 DEF NewCharge, ChargeFields
<1> QED
  BY <1>4, <1>5, <1>6

(* The write of a payment's total: its status is the one the total gives,  *)
(* unless the payment was taken back.                                      *)
LEMMA PaymentWrites ==
  ASSUME NEW m \in Payment, NEW now, NEW n \in Nat, NEW v \in Nat
  PROVE  LET row == PaymentRow(m, now, n, v) IN
         /\ row \in PaymentFields /\ row.status # "ABSENT" /\ row.allocated = n
         /\ (row.status = "REVERSED") <=> (now = "REVERSED")
         /\ now # "REVERSED" => row.status = nextTransactionStatus(m, "UNAPPLIED", n)
<1>1. nextTransactionStatus(m, now, n)
        \in {"REVERSED", "UNAPPLIED", "ALLOCATED", "PARTIALLY_ALLOCATED"}
  BY DEF nextTransactionStatus
<1>2. (nextTransactionStatus(m, now, n) = "REVERSED") <=> (now = "REVERSED")
  BY DEF nextTransactionStatus
<1>3. now # "REVERSED" => nextTransactionStatus(m, now, n) = nextTransactionStatus(m, "UNAPPLIED", n)
  BY DEF nextTransactionStatus
<1> QED
  BY <1>1, <1>2, <1>3 DEF PaymentRow, PaymentFields

(* A step that writes no table. *)
LEMMA QuietLInv ==
  ASSUME LInv, IInv', NEW t \in Session, UNCHANGED tables,
         \A u \in Session \ {t} : pc'[u] = pc[u] /\ op'[u] = op[u] /\ fresh'[u] = fresh[u],
         pc'[t] # "idle" => Known(t)', pc'[t] = "holding" => Planned(t)'
  PROVE  LInv'
<1>1. /\ charge' = charge /\ payment' = payment /\ allocation' = allocation
      /\ credit' = credit /\ journal' = journal
  BY DEF tables
<1>2. Tables' /\ RowsNamed'
  BY <1>1 DEF LInv, Tables, RowsNamed, Received, Posted
<1>3. JournalOfRows'
  BY <1>1 DEF LInv, JournalOfRows, ChargeEntries, ReceiptEntries, ReturnEntries,
              AllocationEntries, UnwoundEntries, CreditEntries, Posted, Received, Returned, Undone
<1>4. PaymentsInStep'
  BY <1>1 DEF LInv, PaymentsInStep, AmountOf, ActiveOf
<1>5. ASSUME NEW u \in Session \ {t}
      PROVE  /\ pc'[u] # "idle" => Known(u)'
             /\ pc'[u] = "holding" => Planned(u)'
  <2>1. pc'[u] = pc[u] /\ op'[u] = op[u] /\ fresh'[u] = fresh[u]
    OBVIOUS
  <2>2. Received' = Received /\ Posted' = Posted
    BY <1>1 DEF Received, Posted
  <2>3. Known(u)' <=> Known(u)
    BY <1>1, <2>1, <2>2 DEF Known
  <2>4. Planned(u)' <=> Planned(u)
    BY <1>1, <2>1 DEF Planned
  <2> QED
    BY <2>1, <2>3, <2>4 DEF LInv
<1> QED
  BY <1>2, <1>3, <1>4, <1>5 DEF LInv

(* A commit: no row vanishes, and the plans of the others still fit the    *)
(* payments they have locked.                                              *)
LEMMA CommitLInv ==
  ASSUME LInv, IInv', NEW t \in Session, Finish(t), Grows, WritesLocked(t),
         Tables', RowsNamed', JournalOfRows', PaymentsInStep',
         Received \subseteq Received', Posted \subseteq Posted'
  PROVE  LInv'
<1>1. /\ pc'[t] = "idle"
      /\ \A u \in Session \ {t} : pc'[u] = pc[u] /\ op'[u] = op[u] /\ fresh'[u] = fresh[u]
  BY DEF Finish, LInv, IInv, Shapes, Put
<1>2. ASSUME NEW u \in Session, pc'[u] # "idle" PROVE Known(u)'
  <2>1. u # t /\ Known(u) /\ Asked(u)
    BY <1>1, <1>2 DEF LInv, IInv, Requests
  <2>2. op[u].kind = "providerReversal" =>
           \A i \in op[u].rows : /\ allocation'[i].payment = allocation[i].payment
                                 /\ allocation'[i].charge = allocation[i].charge
    BY <2>1 DEF Asked, Grows
  <2> QED
    BY <1>1, <2>1, <2>2 DEF Known
<1>3. ASSUME NEW u \in Session, pc'[u] = "holding" PROVE Planned(u)'
  <2>1. u # t /\ pc[u] = "holding" /\ Planned(u) /\ Asked(u)
    BY <1>1, <1>3 DEF LInv, IInv, Requests
  <2>2. op[u].kind \in {"approve", "reverse"} => payment'[PaymentOf(u)] = payment[PaymentOf(u)]
    BY <2>1 DEF Asked, WritesLocked, LInv, IInv, LocksDisjoint
  <2>3. op[u].kind = "reverse" =>
           /\ allocation'[op[u].allocation].payment = allocation[op[u].allocation].payment
           /\ allocation'[op[u].allocation].charge = allocation[op[u].allocation].charge
           /\ allocation'[op[u].allocation].amount = allocation[op[u].allocation].amount
    BY <2>1 DEF Asked, Grows
  <2> QED
    BY <1>1, <2>1, <2>2, <2>3 DEF Planned, PaymentOf
<1> QED
  BY <1>2, <1>3 DEF LInv

(* A commit that writes nothing. *)
LEMMA EmptyCommitLInv ==
  ASSUME LInv, IInv', NEW t \in Session, Finish(t), UNCHANGED tables
  PROVE  LInv'
<1>1. /\ pc'[t] = "idle"
      /\ \A u \in Session \ {t} : pc'[u] = pc[u] /\ op'[u] = op[u] /\ fresh'[u] = fresh[u]
  BY DEF Finish, LInv, IInv, Shapes, Put
<1> QED
  BY <1>1, QuietLInv

(* Charges that are written stay, and none appears. *)
LEMMA PostedStand ==
  ASSUME \A c \in Charge : charge'[c] = charge[c] \/ (c \in Posted /\ charge'[c].status # "ABSENT")
  PROVE  Posted' = Posted
  BY DEF Posted

(* Payments that are written stay, and none appears. *)
LEMMA ReceivedStand ==
  ASSUME \A m \in Payment : payment'[m] = payment[m] \/ (m \in Received /\ payment'[m].status # "ABSENT")
  PROVE  Received' = Received
  BY DEF Received

----------------------------------------------------------------------------
(* The actions. *)

(* Nothing is in the tables at first. *)
LEMMA InitLInv == Init => LInv
<1> SUFFICES ASSUME Init PROVE LInv
  OBVIOUS
<1>1. Tables
  BY EmptySeq DEF Init, Tables, ChargeFields, PaymentFields, NoCharge, NoPayment
<1>2. Received = {} /\ Posted = {} /\ Returned = {}
  BY DEF Init, Received, Posted, Returned, NoCharge, NoPayment
<1>3. DOMAIN allocation = {} /\ DOMAIN credit = {} /\ Undone = {}
  BY EmptySeq, LenProperties DEF Init, Undone
<1>4. RowsNamed
  BY <1>2, <1>3, FS_EmptySet DEF RowsNamed
<1>5. JournalOfRows
  BY <1>2, <1>3 DEF Init, JournalOfRows, ChargeEntries, ReceiptEntries, ReturnEntries,
                    AllocationEntries, UnwoundEntries, CreditEntries
<1>6. PaymentsInStep
  BY DEF Init, PaymentsInStep, NoPayment
<1>7. \A t \in Session : pc[t] = "idle"
  BY DEF Init
<1> QED
  BY <1>1, <1>4, <1>5, <1>6, <1>7, InitIInv DEF LInv

(* What the operations read before their locks are rows that exist. *)
LEMMA LoadLInv ==
  ASSUME LInv, IInv', NEW t \in Session,
         LoadApproval(t) \/ LoadReversal(t) \/ LoadCredit(t) \/ LoadProviderReversal(t)
  PROVE  LInv'
<1>1. PICK r, P : Load(t, r, P)
  BY DEF LoadApproval, LoadReversal, LoadCredit, LoadProviderReversal
<1>2. /\ UNCHANGED tables /\ pc'[t] = "waiting"
      /\ \A u \in Session \ {t} : pc'[u] = pc[u] /\ op'[u] = op[u] /\ fresh'[u] = fresh[u]
  BY <1>1 DEF Load, tables, Put, LInv, IInv, Shapes
<1>3. Received' = Received /\ Posted' = Posted /\ allocation' = allocation
  BY <1>2 DEF tables, Received, Posted
<1>4. Known(t)'
  <2>1. CASE LoadApproval(t)
    <3>1. PICK m \in Payment, f \in Lines :
            /\ payment[m].status # "ABSENT"
            /\ \A c \in DOMAIN f : charge[c].status # "ABSENT"
            /\ Load(t,
                    [kind |-> "approve", payment |-> m, lines |-> f,
                     seenPayment |-> payment[m].version,
                     seenCharges |-> [c \in DOMAIN f |-> charge[c].version]],
                    {PaymentPeriod[m]} \cup {ChargePeriod[c] : c \in DOMAIN f})
      BY <2>1 DEF LoadApproval
    <3>2. op'[t].kind = "approve" /\ op'[t].payment = m /\ op'[t].lines = f
      BY <3>1, LoadRecords DEF LInv
    <3>3. m \in Received /\ \A c \in DOMAIN f : c \in Posted
      BY <3>1, LinesType DEF Received, Posted
    <3> QED BY <1>3, <3>2, <3>3 DEF Known
  <2>2. CASE LoadReversal(t)
    <3>1. PICK i \in DOMAIN allocation, posting \in Period :
            Load(t, [kind |-> "reverse", allocation |-> i], {posting} \cup ReversalLocks(i))
      BY <2>2 DEF LoadReversal
    <3>2. op'[t].kind = "reverse"
      BY <3>1, LoadRecords DEF LInv
    <3> QED BY <3>2 DEF Known
  <2>3. CASE LoadCredit(t)
    <3>1. PICK c \in Charge, n \in Cents, posting \in Period, kind \in {"credit", "datedCredit"} :
            /\ charge[c].status # "ABSENT"
            /\ Load(t, [kind |-> kind, charge |-> c, amount |-> n], {posting})
      BY <2>3 DEF LoadCredit
    <3>2. op'[t].kind = kind /\ op'[t].charge = c
      BY <3>1, LoadRecords DEF LInv
    <3>3. c \in Posted
      BY <3>1 DEF Posted
    <3> QED BY <1>3, <3>2, <3>3 DEF Known
  <2>4. CASE LoadProviderReversal(t)
    <3>1. PICK m \in Payment :
            /\ payment[m].status \notin {"ABSENT", "REVERSED"}
            /\ Load(t,
                    [kind |-> "providerReversal", payment |-> m, rows |-> ActiveOf(m),
                     charges |-> [c \in ChargesOf(ActiveOf(m)) |-> charge[c]]],
                    {PaymentPeriod[m]} \cup {ChargePeriod[c] : c \in ChargesOf(ActiveOf(m))})
      BY <2>4 DEF LoadProviderReversal
    <3>2. /\ op'[t].kind = "providerReversal" /\ op'[t].payment = m /\ op'[t].rows = ActiveOf(m)
          /\ op'[t].charges = [c \in ChargesOf(ActiveOf(m)) |-> charge[c]]
      BY <3>1, LoadRecords DEF LInv
    <3>3. m \in Received
      BY <3>1 DEF Received
    <3>4. ASSUME NEW i \in ActiveOf(m)
          PROVE  /\ allocation[i].payment = m
                 /\ op'[t].charges[allocation[i].charge] \in ChargeFields
      <4>1. i \in DOMAIN allocation /\ allocation[i].payment = m
        BY DEF ActiveOf
      <4>2. allocation[i].charge \in Charge
        BY <4>1, AllocationRows DEF LInv, IInv, Shapes
      <4>3. allocation[i].charge \in ChargesOf(ActiveOf(m))
        BY DEF ChargesOf
      <4> QED BY <3>2, <4>1, <4>2, <4>3 DEF LInv, Tables
    <3> QED BY <1>3, <3>2, <3>3, <3>4 DEF Known
  <2> QED BY <2>1, <2>2, <2>3, <2>4
<1> QED
  BY <1>2, <1>4, QuietLInv

(* What they keep under their locks are rows their plan fits. *)
LEMMA EnterLInv ==
  ASSUME LInv, IInv', NEW t \in Session,
         EnterApproval(t) \/ EnterReversal(t) \/ EnterCredit(t) \/ EnterProviderReversal(t)
  PROVE  LInv'
<1>1. pc[t] = "waiting" /\ Known(t) /\ Asked(t)
  BY DEF EnterApproval, EnterReversal, EnterCredit, EnterProviderReversal, Granted,
         LInv, IInv, Requests
<1>2. ASSUME NEW accepted, NEW row, NEW rows, Keep(t, accepted, row, rows),
             accepted => /\ op[t].kind = "approve" =>
                              /\ \A c \in DOMAIN op[t].lines : rows[c] \in ChargeFields
                              /\ Total(op[t].lines)
                                    <= PaymentAmount[op[t].payment] - payment[op[t].payment].allocated
                         /\ op[t].kind = "reverse" =>
                              LET a == allocation[op[t].allocation] IN
                              /\ rows[a.charge] \in ChargeFields
                              /\ payment[a.payment].allocated >= a.amount
                         /\ op[t].kind \in {"credit", "datedCredit"} =>
                              rows[op[t].charge] \in ChargeFields
      PROVE  LInv'
  <2>1. /\ UNCHANGED tables
        /\ \A u \in Session \ {t} : pc'[u] = pc[u] /\ op'[u] = op[u] /\ fresh'[u] = fresh[u]
        /\ pc'[t] = "holding" => accepted /\ op'[t] = op[t] /\ fresh'[t].charges = rows
    BY <1>2, KeepRecords DEF LInv
  <2>2. pc'[t] # "idle" => pc'[t] = "holding"
    BY <1>2 DEF Keep, Finish, Put, LInv, IInv, Shapes
  <2>3. /\ payment' = payment /\ allocation' = allocation
        /\ Received' = Received /\ Posted' = Posted
    BY <2>1 DEF tables, Received, Posted
  <2>4. pc'[t] = "holding" => Known(t)'
    BY <1>1, <2>1, <2>3 DEF Known
  <2>5. pc'[t] = "holding" => Planned(t)'
    BY <1>2, <2>1, <2>3 DEF Planned
  <2> QED BY <2>1, <2>2, <2>4, <2>5, QuietLInv
<1>3. CASE EnterApproval(t)
  <2> DEFINE row == payment[op[t].payment]
             rows == [c \in DOMAIN op[t].lines |-> charge[c]]
             accepted == VersionsUnchanged(t) /\ planAllocation(op[t].payment, row, op[t].lines, rows)
  <2>1. Keep(t, accepted, row, rows) /\ op[t].kind = "approve"
    BY <1>3 DEF EnterApproval, Granted
  <2>2. accepted => Total(op[t].lines) <= PaymentAmount[op[t].payment] - row.allocated
    BY DEF planAllocation
  <2>3. \A c \in DOMAIN op[t].lines : rows[c] \in ChargeFields
    BY <1>1, <2>1, LinesType DEF Asked, LInv, Tables
  <2>4. row = payment[op[t].payment]
    OBVIOUS
  <2> HIDE DEF accepted, rows, row
  <2> QED BY <1>2, <2>1, <2>2, <2>3, <2>4
<1>4. CASE EnterReversal(t)
  <2> DEFINE a == allocation[op[t].allocation]
             row == payment[a.payment]
             rows == [c \in {a.charge} |-> charge[c]]
             accepted == planReversal(a.amount, row, rows, a.charge)
  <2>1. Keep(t, accepted, row, rows) /\ op[t].kind = "reverse"
    BY <1>4 DEF EnterReversal, Granted
  <2>2. accepted => payment[a.payment].allocated >= a.amount
    BY DEF planReversal
  <2>3. rows[a.charge] \in ChargeFields
    <3>1. a.charge \in Charge
      BY <1>1, <2>1, AllocationRows DEF Asked, LInv, IInv, Shapes
    <3> QED BY <3>1 DEF LInv, Tables
  <2> HIDE DEF accepted, rows, row
  <2> QED BY <1>2, <2>1, <2>2, <2>3
<1>5. CASE EnterCredit(t)
  <2> DEFINE rows == [c \in {op[t].charge} |-> charge[c]]
             accepted == op[t].amount <= Creditable(charge[op[t].charge], op[t].charge)
  <2>1. Keep(t, accepted, NoPayment, rows) /\ op[t].kind \in {"credit", "datedCredit"}
    BY <1>5 DEF EnterCredit, Granted
  <2>2. rows[op[t].charge] \in ChargeFields
    BY <1>1, <2>1 DEF Asked, LInv, Tables
  <2> HIDE DEF accepted, rows
  <2> QED BY <1>2, <2>1, <2>2
<1>6. CASE EnterProviderReversal(t)
  <2>1. Keep(t, TRUE, NoPayment, <<>>) /\ op[t].kind = "providerReversal"
    BY <1>6 DEF EnterProviderReversal, Granted
  <2> QED BY <1>2, <2>1
<1> QED
  BY <1>3, <1>4, <1>5, <1>6

(* A credit: one row and its entry, of a charge that exists. *)
LEMMA CommitCreditLInv ==
  ASSUME LInv, IInv', NEW t \in Session, CommitCredit(t)
  PROVE  LInv'
<1> DEFINE c == op[t].charge
           n == op[t].amount
           was == fresh[t].charges[c]
           row == [charge |-> c, amount |-> n]
<1>1. /\ pc[t] = "holding" /\ op[t].kind \in {"credit", "datedCredit"} /\ Finish(t)
      /\ credit' = Append(credit, row)
      /\ charge' = Put(charge, c, Recredited(c, was, was.credited + n))
      /\ journal' = journal \cup {Entry("credit", Len(credit) + 1, n)}
      /\ payment' = payment /\ allocation' = allocation
  BY DEF CommitCredit
<1>2. Asked(t) /\ Known(t) /\ Planned(t)
  BY <1>1 DEF LInv, IInv, Requests
<1>3. c \in Charge /\ c \in Posted /\ n \in Nat \ {0} /\ was \in ChargeFields
  BY <1>1, <1>2 DEF Asked, Known, Planned
<1>4. row \in CreditRow
  BY <1>3 DEF CreditRow
<1>5. /\ Recredited(c, was, was.credited + n) \in ChargeFields
      /\ Recredited(c, was, was.credited + n).status # "ABSENT"
  <2>1. was.credited + n \in Nat
    BY <1>3 DEF ChargeFields
  <2> QED BY <1>3, <2>1, ChargeWrites DEF LInv
<1> HIDE DEF row, was
<1>6. /\ charge' \in [Charge -> ChargeFields]
      /\ \A x \in Charge : charge'[x] = charge[x] \/ (x \in Posted /\ charge'[x].status # "ABSENT")
  BY <1>1, <1>3, <1>5 DEF LInv, Tables, Put
<1>7. Posted' = Posted /\ Received' = Received /\ Returned' = Returned
  BY <1>1, <1>6, PostedStand DEF Received, Returned
<1>8. /\ credit \in Seq(CreditRow) /\ credit' \in Seq(CreditRow) /\ Len(credit) \in Nat
      /\ DOMAIN credit = 1..Len(credit) /\ DOMAIN credit' = 1..(Len(credit) + 1)
      /\ \A i \in 1..Len(credit) : credit'[i] = credit[i]
      /\ credit'[Len(credit) + 1] = row
  BY <1>1, <1>4, AppendProperties, LenProperties DEF LInv, Tables
<1>9. Tables'
  BY <1>1, <1>6, <1>8 DEF LInv, Tables
<1>10. DOMAIN credit' = DOMAIN credit \cup {Len(credit) + 1}
  BY <1>8
<1>11. RowsNamed'
  <2>1. \A i \in DOMAIN credit' : credit'[i].charge \in Posted
    BY <1>3, <1>8, <1>10 DEF row, LInv, RowsNamed
  <2> QED BY <1>1, <1>7, <2>1 DEF LInv, RowsNamed
<1>12. CreditEntries' = CreditEntries \cup {Entry("credit", Len(credit) + 1, n)}
  <2>1. credit'[Len(credit) + 1].amount = n
    BY <1>8 DEF row
  <2> QED BY <1>8, <1>10, <2>1 DEF CreditEntries
<1>13. JournalOfRows'
  <2>1. /\ ChargeEntries' = ChargeEntries /\ ReceiptEntries' = ReceiptEntries
        /\ ReturnEntries' = ReturnEntries /\ AllocationEntries' = AllocationEntries
        /\ UnwoundEntries' = UnwoundEntries
    BY <1>1, <1>7 DEF ChargeEntries, ReceiptEntries, ReturnEntries, AllocationEntries,
                      UnwoundEntries, Undone
  <2> QED BY <1>1, <1>12, <2>1 DEF LInv, JournalOfRows
<1>14. PaymentsInStep'
  BY <1>1 DEF LInv, PaymentsInStep, AmountOf, ActiveOf
<1>15. Grows /\ WritesLocked(t)
  BY <1>1, StandingGrows DEF LInv, IInv, WritesLocked
<1> QED
  BY <1>1, <1>7, <1>9, <1>11, <1>13, <1>14, <1>15, CommitLInv

(* An approval: rows with their entries, drawn from a payment with room. *)
LEMMA CommitApprovalLInv ==
  ASSUME LInv, IInv', NEW t \in Session, CommitApproval(t)
  PROVE  LInv'
<1> DEFINE was == fresh[t]
<1>1. pc[t] = "holding" /\ op[t].kind = "approve" /\ Finish(t)
  BY DEF CommitApproval
<1>0. PICK m \in Payment, f \in Lines : m = op[t].payment /\ f = op[t].lines
  BY <1>1 DEF LInv, IInv, Requests, Asked, PaymentOf
<1>2. CASE ~SwapSucceeds(t)
  BY <1>1, <1>2, EmptyCommitLInv DEF CommitApproval
<1>3. CASE SwapSucceeds(t)
  <2>1. /\ allocation' = allocation \o NewAllocations(m, f)
        /\ charge' = [c \in Charge |->
              IF c \in DOMAIN f
              THEN Reallocated(c, was.charges[c], was.charges[c].allocated + f[c], 1)
              ELSE charge[c]]
        /\ payment' = Put(payment, m,
              PaymentRow(m, was.payment.status, was.payment.allocated + Total(f),
                         payment[m].version + 1))
        /\ journal' = journal \cup
              {Entry("allocated", Len(allocation) + i, NewAllocations(m, f)[i].amount) :
                  i \in DOMAIN NewAllocations(m, f)}
        /\ credit' = credit
    BY <1>0, <1>3 DEF CommitApproval, ApproveRows
  <2>2. Asked(t) /\ Known(t) /\ Planned(t) /\ allocation \in Seq(AllocationRow)
    BY <1>1 DEF LInv, IInv, Requests, Shapes
  <2>3. /\ PaymentPeriod[m] \in locks[t] /\ PaymentOf(t) = m /\ m \in Received
        /\ \A c \in DOMAIN f : c \in Posted /\ was.charges[c] \in ChargeFields
        /\ Total(f) <= PaymentAmount[m] - payment[m].allocated
    BY <1>0, <1>1, <2>2 DEF Asked, PaymentOf, Known, Planned
  <2>4. was.payment = payment[m] /\ payment[m].status \notin {"ABSENT", "REVERSED"}
    BY <1>1, <2>3 DEF LInv, IInv, PaymentStands, Received
  <2> DEFINE entries == {Entry("allocated", Len(allocation) + i, NewAllocations(m, f)[i].amount) :
                           i \in DOMAIN NewAllocations(m, f)}
  <2>5. /\ Grows
        /\ \E N, g : Adds(m, f, N, g)
        /\ entries = {Entry("allocated", i, allocation'[i].amount) :
                        i \in DOMAIN allocation' \ DOMAIN allocation}
    BY <2>1, <2>2, <2>3, ApprovalAdds
  <2> HIDE DEF entries
  <2>6. PICK New, g : Adds(m, f, New, g)
    BY <2>5
  <2>7. /\ New \cap DOMAIN allocation = {} /\ DOMAIN allocation' = DOMAIN allocation \cup New
        /\ \A i \in DOMAIN allocation : allocation'[i] = allocation[i]
        /\ \A i \in New : /\ allocation'[i].payment = m /\ allocation'[i].charge \in DOMAIN f
                          /\ allocation'[i].status = "ACTIVE"
    <3>1. \A i \in New : /\ g[i] \in DOMAIN f
                        /\ allocation'[i] = [payment |-> m, charge |-> g[i],
                                             amount |-> f[g[i]], status |-> "ACTIVE"]
      BY <2>6 DEF Adds
    <3>2. \A i \in New : /\ allocation'[i].payment = m /\ allocation'[i].charge \in DOMAIN f
                        /\ allocation'[i].status = "ACTIVE"
      <4> SUFFICES ASSUME NEW i \in New
                   PROVE  /\ allocation'[i].payment = m /\ allocation'[i].charge \in DOMAIN f
                          /\ allocation'[i].status = "ACTIVE"
        OBVIOUS
      <4>1. /\ g[i] \in DOMAIN f
            /\ allocation'[i] = [payment |-> m, charge |-> g[i], amount |-> f[g[i]], status |-> "ACTIVE"]
        BY <3>1
      <4>2. allocation'[i].payment = m
        BY <4>1
      <4>3. allocation'[i].charge = g[i]
        BY <4>1
      <4>4. allocation'[i].status = "ACTIVE"
        BY <4>1
      <4> QED BY <4>1, <4>2, <4>3, <4>4
    <3>3. /\ New \cap DOMAIN allocation = {} /\ DOMAIN allocation' = DOMAIN allocation \cup New
          /\ \A i \in DOMAIN allocation : allocation'[i] = allocation[i]
      BY <2>6 DEF Adds
    <3> QED BY <3>2, <3>3
  <2>8. /\ AmountOf(ActiveOf(m))' = AmountOf(ActiveOf(m)) + Total(f)
        /\ \A x \in Payment \ {m} : AmountOf(ActiveOf(x))' = AmountOf(ActiveOf(x))
        /\ Total(f) \in Nat
    BY <2>2, <2>3, <2>5, <2>6, PaymentGains
  <2>9. /\ charge' \in [Charge -> ChargeFields]
        /\ \A x \in Charge : charge'[x] = charge[x] \/ (x \in Posted /\ charge'[x].status # "ABSENT")
    <3>1. ASSUME NEW c \in DOMAIN f
          PROVE  /\ c \in Charge /\ c \in Posted
                 /\ Reallocated(c, was.charges[c], was.charges[c].allocated + f[c], 1) \in ChargeFields
                 /\ Reallocated(c, was.charges[c], was.charges[c].allocated + f[c], 1).status # "ABSENT"
      <4>1. c \in Charge /\ f[c] \in Nat /\ was.charges[c] \in ChargeFields
        BY <2>3, LinesType
      <4>2. was.charges[c].allocated + f[c] \in Int
        BY <4>1 DEF ChargeFields
      <4> HIDE DEF was
      <4> QED BY <2>3, <4>1, <4>2, ChargeWrites DEF LInv
    <3> QED BY <2>1, <3>1 DEF LInv, Tables
  <2> DEFINE row == PaymentRow(m, was.payment.status, was.payment.allocated + Total(f),
                               payment[m].version + 1)
  <2>10. /\ row \in PaymentFields /\ row.status \notin {"ABSENT", "REVERSED"}
         /\ row.allocated = payment[m].allocated + Total(f)
         /\ row.status = nextTransactionStatus(m, "UNAPPLIED", row.allocated)
    <3>1. /\ payment[m].allocated + Total(f) \in Nat /\ payment[m].version + 1 \in Nat
      BY <2>3, <2>8 DEF LInv, Tables, PaymentFields
    <3> HIDE DEF was
    <3> QED BY <2>3, <2>4, <3>1, PaymentWrites
  <2>11. /\ payment'[m] = row /\ \A x \in Payment \ {m} : payment'[x] = payment[x]
         /\ payment' \in [Payment -> PaymentFields]
    BY <2>1, <2>3, <2>10 DEF LInv, Tables, Put
  <2> HIDE DEF row
  <2>12. Posted' = Posted /\ Received' = Received /\ Returned' = Returned
    BY <2>3, <2>4, <2>9, <2>10, <2>11, PostedStand, ReceivedStand DEF Returned
  <2>13. Tables'
    BY <2>1, <2>9, <2>11 DEF LInv, Tables
  <2>14. RowsNamed'
    <3>1. \A i \in DOMAIN allocation' :
             allocation'[i].payment \in Received /\ allocation'[i].charge \in Posted
      BY <2>3, <2>7 DEF LInv, RowsNamed
    <3> QED BY <2>1, <2>12, <3>1 DEF LInv, RowsNamed
  <2>15. JournalOfRows'
    <3>1. Undone' = Undone
      BY <2>7 DEF Undone
    <3>2. AllocationEntries' = AllocationEntries \cup entries
      BY <2>5, <2>7 DEF AllocationEntries
    <3>3. UnwoundEntries' = UnwoundEntries
      BY <2>7, <3>1 DEF UnwoundEntries, Undone
    <3>4. /\ ChargeEntries' = ChargeEntries /\ ReceiptEntries' = ReceiptEntries
          /\ ReturnEntries' = ReturnEntries /\ CreditEntries' = CreditEntries
      BY <2>1, <2>12 DEF ChargeEntries, ReceiptEntries, ReturnEntries, CreditEntries
    <3>5. journal' = journal \cup entries
      BY <2>1 DEF entries
    <3> QED BY <3>2, <3>3, <3>4, <3>5 DEF LInv, JournalOfRows
  <2>16. PaymentsInStep'
    <3> SUFFICES ASSUME NEW x \in Payment, payment'[x].status \notin {"ABSENT", "REVERSED"}
                 PROVE  /\ payment'[x].allocated = AmountOf(ActiveOf(x))'
                        /\ payment'[x].allocated <= PaymentAmount[x]
                        /\ payment'[x].status = nextTransactionStatus(x, "UNAPPLIED", payment'[x].allocated)
      BY DEF PaymentsInStep
    <3>1. CASE x = m
      <4>1. payment[m].allocated = AmountOf(ActiveOf(m)) /\ payment[m].allocated \in Nat
        BY <2>3, <2>4 DEF LInv, PaymentsInStep, Tables, PaymentFields
      <4>2. payment[m].allocated + Total(f) <= PaymentAmount[m]
        BY <2>3, <2>8, <4>1, ColumnAssumption
      <4>3. /\ payment'[m].allocated = AmountOf(ActiveOf(m))'
            /\ payment'[m].allocated <= PaymentAmount[m]
            /\ payment'[m].status = nextTransactionStatus(m, "UNAPPLIED", payment'[m].allocated)
        BY <2>8, <2>10, <2>11, <4>1, <4>2
      <4> QED BY <3>1, <4>3
    <3>2. CASE x # m
      BY <2>8, <2>11, <3>2 DEF LInv, PaymentsInStep
    <3> QED BY <3>1, <3>2
  <2>17. WritesLocked(t)
    BY <1>1, <2>3, <2>11 DEF WritesLocked
  <2> QED
    BY <1>1, <2>5, <2>12, <2>13, <2>14, <2>15, <2>16, <2>17, CommitLInv
<1> QED
  BY <1>2, <1>3

(* The entries of rows that are unwound: theirs are added, and the rows'   *)
(* own stand.                                                              *)
LEMMA UnwindEntries ==
  ASSUME Shapes, NEW S \in SUBSET DOMAIN allocation, allocation' = Unwind(S)
  PROVE  /\ UnwoundEntries' = UnwoundEntries \cup Unwound(S)
         /\ AllocationEntries' = AllocationEntries
<1>1. /\ Grows /\ DOMAIN allocation' = DOMAIN allocation
      /\ \A i \in DOMAIN allocation : allocation'[i].status =
               IF i \in S THEN "REVERSED" ELSE allocation[i].status
  BY UnwindLeaves
<1>2. \A i \in DOMAIN allocation : allocation'[i].amount = allocation[i].amount
  BY <1>1 DEF Grows
<1>3. Undone' = Undone \cup S
  BY <1>1 DEF Undone
<1>4. \A i \in Undone \cup S : i \in DOMAIN allocation
  BY DEF Undone
<1> QED
  BY <1>1, <1>2, <1>3, <1>4 DEF UnwoundEntries, AllocationEntries, Unwound

(* A reversal: one row unwound, its payment and its charge rewritten. *)
LEMMA CommitReversalLInv ==
  ASSUME LInv, IInv', NEW t \in Session, CommitReversal(t)
  PROVE  LInv'
<1>1. pc[t] = "holding" /\ op[t].kind = "reverse" /\ Finish(t)
  BY DEF CommitReversal
<1>2. CASE allocation[op[t].allocation].status # "ACTIVE"
  BY <1>1, <1>2, EmptyCommitLInv DEF CommitReversal
<1>3. CASE allocation[op[t].allocation].status = "ACTIVE"
  <2>1. Asked(t) /\ Planned(t) /\ Shapes /\ allocation \in Seq(AllocationRow)
    BY <1>1 DEF LInv, IInv, Requests, Shapes
  <2>2. PICK i \in DOMAIN allocation : i = op[t].allocation
    BY <1>1, <2>1 DEF Asked
  <2>3. PICK m \in Payment, c \in Charge, n \in Nat \ {0} :
          /\ m = allocation[i].payment /\ c = allocation[i].charge /\ n = allocation[i].amount
    BY <2>1, AllocationRows
  <2> DEFINE was == fresh[t]
             row == PaymentRow(m, was.payment.status, was.payment.allocated - n,
                               payment[m].version + 1)
             billed == Reallocated(c, was.charges[c], was.charges[c].allocated - n, 1)
  <2>4. /\ allocation' = Unwind({i})
        /\ charge' = Put(charge, c, billed)
        /\ payment' = Put(payment, m, row)
        /\ journal' = journal \cup Unwound({i})
        /\ credit' = credit
    BY <1>3, <2>2, <2>3 DEF CommitReversal, ReverseRows
  <2>5. /\ PaymentPeriod[m] \in locks[t] /\ PaymentOf(t) = m
        /\ m \in Received /\ c \in Posted
        /\ was.charges[c] \in ChargeFields
        /\ payment[m].allocated >= n
        /\ allocation[i].status = "ACTIVE"
    BY <1>1, <1>3, <2>1, <2>2, <2>3 DEF Asked, PaymentOf, Planned, LInv, RowsNamed
  <2>6. was.payment = payment[m] /\ payment[m].status \notin {"ABSENT", "REVERSED"}
    BY <1>1, <2>5 DEF LInv, IInv, PaymentStands, Received
  <2>7. /\ payment[m] \in PaymentFields /\ payment[m].allocated - n \in Nat
        /\ payment[m].allocated - n <= payment[m].allocated
        /\ payment[m].version + 1 \in Nat
    <3>1. payment[m] \in PaymentFields
      BY DEF LInv, Tables
    <3>2. payment[m].allocated \in Nat /\ payment[m].version \in Nat
      BY <3>1 DEF PaymentFields
    <3> QED BY <2>5, <3>1, <3>2
  <2>8. /\ row \in PaymentFields /\ row.status \notin {"ABSENT", "REVERSED"}
        /\ row.allocated = payment[m].allocated - n
        /\ row.status = nextTransactionStatus(m, "UNAPPLIED", row.allocated)
    <3> HIDE DEF was
    <3> QED BY <2>6, <2>7, PaymentWrites
  <2>9. billed \in ChargeFields /\ billed.status # "ABSENT"
    <3>1. was.charges[c].allocated - n \in Int
      BY <2>5 DEF ChargeFields
    <3> HIDE DEF was
    <3> QED BY <2>5, <3>1, ChargeWrites DEF LInv
  <2> HIDE DEF row, billed, was
  <2>10. /\ charge' \in [Charge -> ChargeFields]
         /\ \A x \in Charge : charge'[x] = charge[x] \/ (x \in Posted /\ charge'[x].status # "ABSENT")
    BY <2>4, <2>5, <2>9 DEF LInv, Tables, Put
  <2>11. /\ payment'[m] = row /\ \A x \in Payment \ {m} : payment'[x] = payment[x]
         /\ payment' \in [Payment -> PaymentFields]
    BY <2>4, <2>8 DEF LInv, Tables, Put
  <2>12. Posted' = Posted /\ Received' = Received /\ Returned' = Returned
    BY <2>5, <2>6, <2>8, <2>10, <2>11, PostedStand, ReceivedStand DEF Returned
  <2>13. Grows /\ DOMAIN allocation' = DOMAIN allocation
    BY <2>1, <2>4, UnwindLeaves
  <2>14. Tables'
    BY <2>4, <2>10, <2>11 DEF LInv, Tables
  <2>15. RowsNamed'
    BY <2>4, <2>12, <2>13 DEF LInv, RowsNamed, Grows
  <2>16. JournalOfRows'
    <3>1. UnwoundEntries' = UnwoundEntries \cup Unwound({i}) /\ AllocationEntries' = AllocationEntries
      BY <2>1, <2>4, UnwindEntries
    <3>2. /\ ChargeEntries' = ChargeEntries /\ ReceiptEntries' = ReceiptEntries
          /\ ReturnEntries' = ReturnEntries /\ CreditEntries' = CreditEntries
      BY <2>4, <2>12 DEF ChargeEntries, ReceiptEntries, ReturnEntries, CreditEntries
    <3> QED BY <2>4, <3>1, <3>2 DEF LInv, JournalOfRows
  <2>17. PaymentsInStep'
    <3> SUFFICES ASSUME NEW x \in Payment, payment'[x].status \notin {"ABSENT", "REVERSED"}
                 PROVE  /\ payment'[x].allocated = AmountOf(ActiveOf(x))'
                        /\ payment'[x].allocated <= PaymentAmount[x]
                        /\ payment'[x].status = nextTransactionStatus(x, "UNAPPLIED", payment'[x].allocated)
      BY DEF PaymentsInStep
    <3>1. AmountOf(ActiveOf(x))' =
            IF x = allocation[i].payment THEN AmountOf(ActiveOf(x)) - allocation[i].amount
            ELSE AmountOf(ActiveOf(x))
      BY <2>1, <2>4, <2>5, UnwindTakes
    <3>2. CASE x = m
      <4>1. payment[m].allocated = AmountOf(ActiveOf(m)) /\ payment[m].allocated <= PaymentAmount[m]
        BY <2>6 DEF LInv, PaymentsInStep
      <4>2. payment[m].allocated - n <= PaymentAmount[m]
        BY <2>7, <4>1, ColumnAssumption DEF PaymentFields
      <4> QED BY <2>3, <2>8, <2>11, <3>1, <3>2, <4>1, <4>2
    <3>3. CASE x # m
      BY <2>3, <2>11, <3>1, <3>3 DEF LInv, PaymentsInStep
    <3> QED BY <3>2, <3>3
  <2>18. WritesLocked(t)
    BY <1>1, <2>5, <2>11 DEF WritesLocked
  <2> QED
    BY <1>1, <2>12, <2>13, <2>14, <2>15, <2>16, <2>17, <2>18, CommitLInv
<1> QED
  BY <1>2, <1>3

(* A provider reversal: the payment's rows are unwound and its receipt is  *)
(* returned; the rows of other payments are not its own to unwind.         *)
LEMMA CommitProviderReversalLInv ==
  ASSUME LInv, IInv', NEW t \in Session, CommitProviderReversal(t)
  PROVE  LInv'
<1>1. pc[t] = "holding" /\ op[t].kind = "providerReversal" /\ Finish(t)
  BY DEF CommitProviderReversal
<1>2. Asked(t) /\ Known(t) /\ Shapes /\ allocation \in Seq(AllocationRow)
  BY <1>1 DEF LInv, IInv, Requests, Shapes
<1>3. PICK m \in Payment : m = op[t].payment
  BY <1>1, <1>2 DEF Asked, PaymentOf
<1>4. PICK S \in SUBSET DOMAIN allocation : S = StillActive(t)
  BY <1>1, <1>2 DEF Asked, StillActive
<1> DEFINE row == PaymentRow(m, "REVERSED", 0, payment[m].version + 1)
           to(c) == {i \in S : allocation[i].charge = c}
<1>5. /\ allocation' = Unwind(S)
      /\ payment' = Put(payment, m, row)
      /\ journal' = journal \cup Unwound(S) \cup ReceiptReturned(m)
      /\ credit' = credit
  BY <1>3, <1>4 DEF CommitProviderReversal
<1>6. PICK last \in [ChargesOf(S) -> S] :
        /\ \A c \in ChargesOf(S) : last[c] \in to(c)
        /\ charge' = [c \in Charge |->
              IF c \in ChargesOf(S)
              THEN Reallocated(c, op[t].charges[c],
                               op[t].charges[c].allocated - allocation[last[c]].amount,
                               Cardinality(to(c)))
              ELSE charge[c]]
  BY <1>4 DEF CommitProviderReversal
<1>7. /\ m \in Received /\ PaymentPeriod[m] \in locks[t]
      /\ \A i \in S : /\ allocation[i].payment = m
                      /\ op[t].charges[allocation[i].charge] \in ChargeFields
  BY <1>1, <1>2, <1>3, <1>4 DEF Known, Asked, PaymentOf, StillActive
<1>8. /\ charge' \in [Charge -> ChargeFields]
      /\ \A x \in Charge : charge'[x] = charge[x] \/ (x \in Posted /\ charge'[x].status # "ABSENT")
  <2>1. ASSUME NEW c \in ChargesOf(S), NEW k, k = Cardinality(to(c))
        PROVE  LET new == Reallocated(c, op[t].charges[c],
                              op[t].charges[c].allocated - allocation[last[c]].amount, k)
               IN  c \in Charge /\ c \in Posted /\ new \in ChargeFields /\ new.status # "ABSENT"
    <3>1. PICK i \in S : allocation[i].charge = c
      BY DEF ChargesOf
    <3>2. c \in Charge /\ c \in Posted /\ op[t].charges[c] \in ChargeFields
      BY <1>2, <1>7, <3>1, AllocationRows DEF LInv, RowsNamed
    <3>3. allocation[last[c]].amount \in Nat
      BY <1>2, <1>6, AllocationRows
    <3>4. op[t].charges[c].allocated - allocation[last[c]].amount \in Int
      BY <3>2, <3>3 DEF ChargeFields
    <3>5. k \in Nat
      <4>1. to(c) \in SUBSET DOMAIN allocation
        OBVIOUS
      <4>2. IsFiniteSet(to(c))
        BY <1>2, <4>1, AllocationRows, FS_Subset
      <4> HIDE DEF to
      <4> QED BY <2>1, <4>2, FS_CardinalityType
    <3> QED BY <3>2, <3>4, <3>5, ChargeWrites DEF LInv
  <2> HIDE DEF to
  <2>2. ASSUME NEW c \in Charge
        PROVE  /\ charge'[c] \in ChargeFields
               /\ charge'[c] = charge[c] \/ (c \in Posted /\ charge'[c].status # "ABSENT")
    <3>1. CASE c \in ChargesOf(S)
      BY <1>6, <2>1, <3>1
    <3>2. CASE c \notin ChargesOf(S)
      BY <1>6, <3>2 DEF LInv, Tables
    <3> QED BY <3>1, <3>2
  <2> QED BY <1>6, <2>2
<1>9. row \in PaymentFields /\ row.status = "REVERSED"
  <2>1. payment[m].version + 1 \in Nat
    BY DEF LInv, Tables, PaymentFields
  <2> QED BY <2>1, PaymentWrites
<1> HIDE DEF row
<1>10. /\ payment'[m] = row /\ \A x \in Payment \ {m} : payment'[x] = payment[x]
       /\ payment' \in [Payment -> PaymentFields]
  BY <1>5, <1>9 DEF LInv, Tables, Put
<1>11. Posted' = Posted /\ Received' = Received /\ Returned' = Returned \cup {m}
  BY <1>7, <1>8, <1>9, <1>10, PostedStand, ReceivedStand DEF Returned
<1>12. /\ Grows /\ DOMAIN allocation' = DOMAIN allocation
       /\ \A x : ActiveOf(x)' = ActiveOf(x) \ S
  BY <1>2, <1>5, UnwindLeaves
<1>13. Tables'
  BY <1>5, <1>8, <1>10 DEF LInv, Tables
<1>14. RowsNamed'
  BY <1>5, <1>11, <1>12 DEF LInv, RowsNamed, Grows
<1>15. JournalOfRows'
  <2>1. UnwoundEntries' = UnwoundEntries \cup Unwound(S) /\ AllocationEntries' = AllocationEntries
    BY <1>2, <1>5, UnwindEntries
  <2>2. /\ ChargeEntries' = ChargeEntries /\ ReceiptEntries' = ReceiptEntries
        /\ CreditEntries' = CreditEntries
    BY <1>5, <1>11 DEF ChargeEntries, ReceiptEntries, CreditEntries
  <2>3. ReturnEntries' = ReturnEntries \cup ReceiptReturned(m)
    BY <1>11 DEF ReturnEntries, ReceiptReturned
  <2> QED BY <1>5, <2>1, <2>2, <2>3 DEF LInv, JournalOfRows
<1>16. PaymentsInStep'
  <2> SUFFICES ASSUME NEW x \in Payment, payment'[x].status \notin {"ABSENT", "REVERSED"}
               PROVE  /\ payment'[x].allocated = AmountOf(ActiveOf(x))'
                      /\ payment'[x].allocated <= PaymentAmount[x]
                      /\ payment'[x].status = nextTransactionStatus(x, "UNAPPLIED", payment'[x].allocated)
    BY DEF PaymentsInStep
  <2>1. x # m /\ payment'[x] = payment[x]
    BY <1>9, <1>10
  <2>2. ActiveOf(x)' = ActiveOf(x)
    BY <1>7, <1>12, <2>1 DEF ActiveOf
  <2>3. SumFunctionOnSet(Paid', ActiveOf(x)) = SumFunctionOnSet(Paid, ActiveOf(x))
    BY <1>2, <1>12, AllocationRows, AmountsStand
  <2>4. AmountOf(ActiveOf(x))' = AmountOf(ActiveOf(x))
    BY <2>2, <2>3 DEF AmountOf, Paid
  <2> QED BY <2>1, <2>4 DEF LInv, PaymentsInStep
<1>17. WritesLocked(t)
  BY <1>1, <1>7, <1>10 DEF WritesLocked
<1> QED
  BY <1>1, <1>11, <1>12, <1>13, <1>14, <1>15, <1>16, <1>17, CommitLInv

(* The births of charges, each with its entry. *)
LEMMA GenerateLInv ==
  ASSUME LInv, IInv', NEW p \in Period, Generate(p)
  PROVE  LInv'
<1> DEFINE new == {c \in Charge : ChargePeriod[c] = p /\ charge[c].status = "ABSENT"}
<1>1. /\ charge' = [c \in Charge |-> IF c \in new THEN NewCharge(c) ELSE charge[c]]
      /\ journal' = journal \cup {Entry("charge", c, ChargeAmount[c]) : c \in new}
      /\ payment' = payment /\ allocation' = allocation /\ credit' = credit
      /\ pc' = pc /\ op' = op /\ locks' = locks /\ fresh' = fresh
  BY DEF Generate, session
<1>2. new \in SUBSET Charge
  OBVIOUS
<1> HIDE DEF new
<1>3. \A c \in Charge : NewCharge(c) \in ChargeFields /\ NewCharge(c).status # "ABSENT"
  <2> SUFFICES ASSUME NEW c \in Charge
               PROVE  NewCharge(c) \in ChargeFields /\ NewCharge(c).status # "ABSENT"
    OBVIOUS
  <2>1. charge[c] \in ChargeFields
    BY DEF LInv, Tables
  <2> QED BY <2>1, ChargeWrites DEF LInv
<1>4. Tables'
  BY <1>1, <1>3 DEF LInv, Tables
<1>5. Posted' = Posted \cup new /\ Received' = Received /\ Returned' = Returned
  BY <1>1, <1>2, <1>3 DEF Posted, Received, Returned
<1>6. RowsNamed'
  BY <1>1, <1>5 DEF LInv, RowsNamed
<1>7. JournalOfRows'
  <2>1. ChargeEntries' = ChargeEntries \cup {Entry("charge", c, ChargeAmount[c]) : c \in new}
    BY <1>5 DEF ChargeEntries
  <2>2. /\ ReceiptEntries' = ReceiptEntries /\ ReturnEntries' = ReturnEntries
        /\ AllocationEntries' = AllocationEntries /\ UnwoundEntries' = UnwoundEntries
        /\ CreditEntries' = CreditEntries
    BY <1>1, <1>5 DEF ReceiptEntries, ReturnEntries, AllocationEntries, UnwoundEntries,
                      CreditEntries, Undone
  <2> QED BY <1>1, <2>1, <2>2 DEF LInv, JournalOfRows
<1>8. PaymentsInStep'
  BY <1>1 DEF LInv, PaymentsInStep, AmountOf, ActiveOf
<1>9. \A t \in Session : pc'[t] # "idle" => Known(t)'
  BY <1>1, <1>5 DEF LInv, Known
<1>10. \A t \in Session : pc'[t] = "holding" => Planned(t)'
  BY <1>1 DEF LInv, Planned
<1> QED
  BY <1>4, <1>6, <1>7, <1>8, <1>9, <1>10 DEF LInv

(* A payment in, with its receipt and nothing drawn on it yet. *)
LEMMA IngestLInv ==
  ASSUME LInv, IInv', NEW m \in Payment, Ingest(m)
  PROVE  LInv'
<1> DEFINE row == PaymentRow(m, "UNAPPLIED", 0, 1)
<1>1. /\ m \notin Received
      /\ payment' = Put(payment, m, row)
      /\ journal' = journal \cup {Entry("receipt", m, PaymentAmount[m])}
      /\ charge' = charge /\ allocation' = allocation /\ credit' = credit
      /\ pc' = pc /\ op' = op /\ locks' = locks /\ fresh' = fresh
  BY DEF Ingest, session, Received
<1>2. /\ row \in PaymentFields /\ row.status \notin {"ABSENT", "REVERSED"} /\ row.allocated = 0
      /\ row.status = nextTransactionStatus(m, "UNAPPLIED", 0)
  BY PaymentWrites
<1> HIDE DEF row
<1>3. /\ payment'[m] = row /\ \A x \in Payment \ {m} : payment'[x] = payment[x]
      /\ payment' \in [Payment -> PaymentFields]
  BY <1>1, <1>2 DEF LInv, Tables, Put
<1>4. Tables'
  BY <1>1, <1>3 DEF LInv, Tables
<1>5. Posted' = Posted /\ Received' = Received \cup {m} /\ Returned' = Returned
  BY <1>1, <1>2, <1>3 DEF Posted, Received, Returned
<1>6. RowsNamed'
  <2>1. IsFiniteSet(Received \cup {m})
    BY FS_AddElement DEF LInv, RowsNamed
  <2> QED BY <1>1, <1>5, <2>1 DEF LInv, RowsNamed
<1>7. JournalOfRows'
  <2>1. ReceiptEntries' = ReceiptEntries \cup {Entry("receipt", m, PaymentAmount[m])}
    BY <1>5 DEF ReceiptEntries
  <2>2. /\ ChargeEntries' = ChargeEntries /\ ReturnEntries' = ReturnEntries
        /\ AllocationEntries' = AllocationEntries /\ UnwoundEntries' = UnwoundEntries
        /\ CreditEntries' = CreditEntries
    BY <1>1, <1>5 DEF ChargeEntries, ReturnEntries, AllocationEntries, UnwoundEntries,
                      CreditEntries, Undone
  <2> QED BY <1>1, <2>1, <2>2 DEF LInv, JournalOfRows
<1>8. PaymentsInStep'
  <2> SUFFICES ASSUME NEW x \in Payment, payment'[x].status \notin {"ABSENT", "REVERSED"}
               PROVE  /\ payment'[x].allocated = AmountOf(ActiveOf(x))'
                      /\ payment'[x].allocated <= PaymentAmount[x]
                      /\ payment'[x].status = nextTransactionStatus(x, "UNAPPLIED", payment'[x].allocated)
    BY DEF PaymentsInStep
  <2>1. AmountOf(ActiveOf(x))' = AmountOf(ActiveOf(x))
    BY <1>1 DEF AmountOf, ActiveOf
  <2>2. CASE x = m
    <3>1. ActiveOf(m) = {}
      BY <1>1 DEF LInv, RowsNamed, ActiveOf
    <3>2. AmountOf(ActiveOf(m)) = 0
      BY <3>1, SumEmpty DEF AmountOf
    <3>3. 0 <= PaymentAmount[m]
      BY ColumnAssumption
    <3> QED BY <1>2, <1>3, <2>1, <2>2, <3>2, <3>3
  <2>3. CASE x # m
    BY <1>3, <2>1, <2>3 DEF LInv, PaymentsInStep
  <2> QED BY <2>2, <2>3
<1>9. \A t \in Session : pc'[t] # "idle" => Known(t)'
  BY <1>1, <1>5 DEF LInv, Known
<1>10. ASSUME NEW t \in Session, pc'[t] = "holding" PROVE Planned(t)'
  <2>1. Asked(t) /\ Known(t) /\ Planned(t)
    BY <1>1, <1>10 DEF LInv, IInv, Requests
  <2>2. op[t].kind \in {"approve", "reverse"} => PaymentOf(t) \in Received /\ PaymentOf(t) \in Payment
    BY <2>1 DEF Asked, Known, PaymentOf, LInv, RowsNamed
  <2>3. op[t].kind \in {"approve", "reverse"} => payment'[PaymentOf(t)] = payment[PaymentOf(t)]
    BY <1>1, <1>3, <2>2
  <2> QED BY <1>1, <2>1, <2>3 DEF Planned, PaymentOf
<1> QED
  BY <1>4, <1>6, <1>7, <1>8, <1>9, <1>10 DEF LInv

(* Every action preserves the invariant of the totals. *)
LEMMA NextLInv == LInv /\ [Next]_vars => LInv'
<1> SUFFICES ASSUME LInv, [Next]_vars PROVE LInv'
  OBVIOUS
<1> IInv'
  BY NextIInv DEF LInv
<1>1. ASSUME NEW p \in Period, Generate(p) PROVE LInv'
  BY <1>1, GenerateLInv
<1>2. ASSUME NEW m \in Payment, Ingest(m) PROVE LInv'
  BY <1>2, IngestLInv
<1>3. ASSUME NEW t \in Session,
             LoadApproval(t) \/ LoadReversal(t) \/ LoadCredit(t) \/ LoadProviderReversal(t)
      PROVE  LInv'
  BY <1>3, LoadLInv
<1>4. ASSUME NEW t \in Session,
             EnterApproval(t) \/ EnterReversal(t) \/ EnterCredit(t) \/ EnterProviderReversal(t)
      PROVE  LInv'
  BY <1>4, EnterLInv
<1>5. ASSUME NEW t \in Session, CommitApproval(t) PROVE LInv'
  BY <1>5, CommitApprovalLInv
<1>6. ASSUME NEW t \in Session, CommitReversal(t) PROVE LInv'
  BY <1>6, CommitReversalLInv
<1>7. ASSUME NEW t \in Session, CommitCredit(t) PROVE LInv'
  BY <1>7, CommitCreditLInv
<1>8. ASSUME NEW t \in Session, CommitProviderReversal(t) PROVE LInv'
  BY <1>8, CommitProviderReversalLInv
<1>9. ASSUME NEW t \in Session, Rollback(t) PROVE LInv'
  BY <1>9, EmptyCommitLInv DEF Rollback
<1>10. CASE UNCHANGED vars
  <2>1. /\ charge' = charge /\ payment' = payment /\ allocation' = allocation
        /\ credit' = credit /\ journal' = journal
        /\ pc' = pc /\ op' = op /\ locks' = locks /\ fresh' = fresh
    BY <1>10 DEF vars, tables, session
  <2>2. Tables' /\ RowsNamed' /\ PaymentsInStep'
    BY <2>1 DEF LInv, Tables, RowsNamed, Received, Posted, PaymentsInStep, AmountOf, ActiveOf
  <2>3. JournalOfRows'
    BY <2>1 DEF LInv, JournalOfRows, ChargeEntries, ReceiptEntries, ReturnEntries,
                AllocationEntries, UnwoundEntries, CreditEntries, Posted, Received, Returned, Undone
  <2>4. \A t \in Session : /\ pc'[t] # "idle" => Known(t)'
                           /\ pc'[t] = "holding" => Planned(t)'
    BY <2>1 DEF LInv, Known, Planned, Received, Posted
  <2> QED BY <2>2, <2>3, <2>4 DEF LInv
<1> QED
  BY <1>1, <1>2, <1>3, <1>4, <1>5, <1>6, <1>7, <1>8, <1>9, <1>10 DEF Next

(* The invariant of the totals holds in every behaviour. *)
LEMMA TotalsInvariance == Spec => []LInv
  BY InitLInv, NextLInv, PTL DEF Spec

----------------------------------------------------------------------------
(* What follows. *)

(* The total, the limit and the status of every payment that stands agree  *)
(* with its ACTIVE allocations, for any number of sessions and with every  *)
(* operation, provider reversals included: the period of the payment is    *)
(* locked by all who write it (allocations.service.ts, transactions.       *)
(* service.ts).                                                            *)
THEOREM PaymentsStayInStep == Spec => []PaymentsInStep
<1>1. LInv => PaymentsInStep
  BY DEF LInv
<1> QED
  BY <1>1, TotalsInvariance, PTL

(* The balances of cash, unapplied cash and receivables are what the rows  *)
(* say, whatever raced and although a provider reversal or a credit dated  *)
(* elsewhere may spoil the columns of a charge: each row is written        *)
(* together with its entry (packages/database/src/ledger.ts).              *)
THEOREM LedgerStaysWithRows == Spec => []LedgerFollowsRows
<1>1. LInv => LedgerFollowsRows
  BY BalancesOfRows DEF LInv, IInv, Shapes, Tables, RowsNamed
<1> QED
  BY <1>1, TotalsInvariance, PTL

(* The locks asked for are accounting periods. *)
LockPeriods == locks \in [Session -> SUBSET Period]

(* Every request names periods of the property. *)
LEMMA NextLockPeriods ==
  ASSUME LInv, LockPeriods, [Next]_vars
  PROVE  LockPeriods'
<1>1. \A c \in Charge : ChargePeriod[c] \in Period
  BY ColumnAssumption
<1>2. \A m \in Payment : PaymentPeriod[m] \in Period
  BY ColumnAssumption
<1>3. ASSUME NEW t \in Session, NEW r, NEW P, P \subseteq Period, Load(t, r, P) PROVE LockPeriods'
  BY <1>3 DEF LockPeriods, Load, Put
<1>4. ASSUME NEW t \in Session, NEW accepted, NEW row, NEW rows, Keep(t, accepted, row, rows)
      PROVE  LockPeriods'
  BY <1>4 DEF LockPeriods, Keep, Finish, Put
<1>5. ASSUME NEW t \in Session, Finish(t) PROVE LockPeriods'
  BY <1>5 DEF LockPeriods, Finish, Put
<1>6. ASSUME NEW t \in Session, LoadApproval(t) PROVE LockPeriods'
  <2>1. PICK m \in Payment, f \in Lines :
          \E r : Load(t, r, {PaymentPeriod[m]} \cup {ChargePeriod[c] : c \in DOMAIN f})
    BY <1>6 DEF LoadApproval
  <2>2. {PaymentPeriod[m]} \cup {ChargePeriod[c] : c \in DOMAIN f} \subseteq Period
    BY <1>1, <1>2, LinesType
  <2> QED BY <1>3, <2>1, <2>2
<1>7. ASSUME NEW t \in Session, LoadReversal(t) PROVE LockPeriods'
  <2>1. PICK i \in DOMAIN allocation, posting \in Period :
          \E r : Load(t, r, {posting} \cup ReversalLocks(i))
    BY <1>7 DEF LoadReversal
  <2>2. allocation[i].payment \in Payment /\ allocation[i].charge \in Charge
    BY AllocationRows DEF LInv, IInv, Shapes
  <2>3. {posting} \cup ReversalLocks(i) \subseteq Period
    BY <1>1, <1>2, <2>2 DEF ReversalLocks
  <2> QED BY <1>3, <2>1, <2>3
<1>8. ASSUME NEW t \in Session, LoadCredit(t) PROVE LockPeriods'
  <2>1. PICK posting \in Period : \E r : Load(t, r, {posting})
    BY <1>8 DEF LoadCredit
  <2>2. {posting} \subseteq Period
    OBVIOUS
  <2> QED BY <1>3, <2>1, <2>2
<1>9. ASSUME NEW t \in Session, LoadProviderReversal(t) PROVE LockPeriods'
  <2>1. PICK m \in Payment :
          \E r : Load(t, r, {PaymentPeriod[m]} \cup {ChargePeriod[c] : c \in ChargesOf(ActiveOf(m))})
    BY <1>9 DEF LoadProviderReversal
  <2>2. ASSUME NEW c \in ChargesOf(ActiveOf(m)) PROVE c \in Charge
    <3>1. PICK i \in ActiveOf(m) : c = allocation[i].charge
      BY DEF ChargesOf
    <3>2. i \in DOMAIN allocation
      BY DEF ActiveOf
    <3> QED BY <3>1, <3>2, AllocationRows DEF LInv, IInv, Shapes
  <2>3. {PaymentPeriod[m]} \cup {ChargePeriod[c] : c \in ChargesOf(ActiveOf(m))} \subseteq Period
    BY <1>1, <1>2, <2>2
  <2> QED BY <1>3, <2>1, <2>3
<1>10. ASSUME NEW t \in Session,
             EnterApproval(t) \/ EnterReversal(t) \/ EnterCredit(t) \/ EnterProviderReversal(t)
       PROVE  LockPeriods'
  <2>1. CASE EnterApproval(t)
    BY <1>4, <2>1 DEF EnterApproval
  <2>2. CASE EnterReversal(t)
    BY <1>4, <2>2 DEF EnterReversal
  <2>3. CASE EnterCredit(t) \/ EnterProviderReversal(t)
    BY <1>4, <2>3 DEF EnterCredit, EnterProviderReversal
  <2> QED BY <1>10, <2>1, <2>2, <2>3
<1>11. ASSUME NEW t \in Session,
              CommitApproval(t) \/ CommitReversal(t) \/ CommitCredit(t)
                \/ CommitProviderReversal(t) \/ Rollback(t)
       PROVE  Finish(t)
  BY <1>11 DEF CommitApproval, CommitReversal, CommitCredit, CommitProviderReversal, Rollback
<1>12. CASE UNCHANGED locks
  BY <1>12 DEF LockPeriods
<1>13. (\E p \in Period : Generate(p)) \/ (\E m \in Payment : Ingest(m)) \/ UNCHANGED vars
         => UNCHANGED locks
  BY DEF Generate, Ingest, vars, session
<1> QED
  BY <1>5, <1>6, <1>7, <1>8, <1>9, <1>10, <1>11, <1>12, <1>13 DEF Next

(* Every row of every table has the columns and codes of the schema and    *)
(* no total is negative, whatever raced: a reversal that subtracts from a  *)
(* charge row read before its period was locked is floored at zero         *)
(* (planning functions of packages/domain/src/allocation).                 *)
THEOREM TablesAreTyped == Spec => []TypeOK
<1>1. Init => LockPeriods
  BY DEF Init, LockPeriods
<1>2. LInv /\ LockPeriods /\ [Next]_vars => LockPeriods'
  BY NextLockPeriods
<1>3. LInv /\ LockPeriods => TypeOK
  <2> SUFFICES ASSUME LInv, LockPeriods PROVE TypeOK
    OBVIOUS
  <2>1. /\ charge \in [Charge -> ChargeFields] /\ payment \in [Payment -> PaymentFields]
        /\ pc \in [Session -> {"idle", "waiting", "holding"}]
        /\ \A i \in DOMAIN allocation : allocation[i] \in AllocationRow
        /\ \A i \in DOMAIN credit : credit[i] \in CreditRow
    BY LenProperties DEF LInv, IInv, Shapes, Tables
  <2>2. \A e \in journal : e.event \in DOMAIN Debited /\ e.amount \in Nat \ {0}
    <3>1. DOMAIN Debited = {"charge", "credit", "receipt", "allocated", "unwound", "returned"}
      BY DEF Debited
    <3>2. /\ \A c \in Posted : ChargeAmount[c] \in Nat \ {0}
          /\ \A m \in Received \cup Returned : PaymentAmount[m] \in Nat \ {0}
          /\ \A i \in DOMAIN allocation : allocation[i].amount \in Nat \ {0}
          /\ \A i \in Undone : allocation[i].amount \in Nat \ {0}
          /\ \A i \in DOMAIN credit : credit[i].amount \in Nat \ {0}
      BY <2>1, ColumnAssumption DEF Posted, Received, Returned, Undone, AllocationRow, CreditRow
    <3>4. /\ \A e \in ChargeEntries : e.event \in DOMAIN Debited /\ e.amount \in Nat \ {0}
          /\ \A e \in ReceiptEntries : e.event \in DOMAIN Debited /\ e.amount \in Nat \ {0}
          /\ \A e \in ReturnEntries : e.event \in DOMAIN Debited /\ e.amount \in Nat \ {0}
      BY <3>1, <3>2 DEF ChargeEntries, ReceiptEntries, ReturnEntries, Entry
    <3>5. /\ \A e \in AllocationEntries : e.event \in DOMAIN Debited /\ e.amount \in Nat \ {0}
          /\ \A e \in UnwoundEntries : e.event \in DOMAIN Debited /\ e.amount \in Nat \ {0}
          /\ \A e \in CreditEntries : e.event \in DOMAIN Debited /\ e.amount \in Nat \ {0}
      BY <3>1, <3>2 DEF AllocationEntries, UnwoundEntries, CreditEntries, Entry
    <3> QED BY <3>4, <3>5 DEF LInv, JournalOfRows
  <2> QED BY <2>1, <2>2 DEF TypeOK, LockPeriods, AllocationRow, CreditRow
<1> QED
  BY <1>1, <1>2, <1>3, TotalsInvariance, PTL DEF Spec

----------------------------------------------------------------------------
(* Open balances, when no credit is dated into another period and no       *)
(* provider reversal occurs.                                               *)

(* The totals of a charge are those of its allocations and credits. *)
ColumnsAddUp ==
    \A c \in Charge : /\ charge[c].allocated = AmountOf(ActiveOn(c))
                      /\ charge[c].credited = CreditsOn(c)

OInv == LInv /\ CInv /\ ColumnsAddUp

(* A credit adds its amount to its charge, and nothing to any other. *)
LEMMA CreditGains ==
  ASSUME credit \in Seq(CreditRow), NEW c \in Charge, NEW n \in Nat \ {0},
         credit' = Append(credit, [charge |-> c, amount |-> n])
  PROVE  /\ CreditsOn(c)' = CreditsOn(c) + n
         /\ \A x \in Charge \ {c} : CreditsOn(x)' = CreditsOn(x)
<1> DEFINE forgiven == [i \in DOMAIN credit |-> credit[i].amount]
           on(x) == {i \in DOMAIN credit : credit[i].charge = x}
           k == Len(credit) + 1
           row == [charge |-> c, amount |-> n]
<1>1. row \in CreditRow
  BY DEF CreditRow
<1>2. row.charge = c /\ row.amount = n
  OBVIOUS
<1> HIDE DEF row
<1>3. /\ Len(credit) \in Nat /\ DOMAIN credit = 1..Len(credit) /\ DOMAIN credit' = 1..k
      /\ \A i \in 1..Len(credit) : credit'[i] = credit[i] /\ credit[i] \in CreditRow
      /\ credit'[k] = row
  BY <1>1, AppendProperties, LenProperties DEF row
<1>4. k \notin DOMAIN credit /\ DOMAIN credit' = DOMAIN credit \cup {k}
  BY <1>3
<1>5. /\ \A i \in DOMAIN credit : forgiven'[i] = forgiven[i] /\ forgiven[i] \in Int
      /\ forgiven'[k] = n
  BY <1>2, <1>3, <1>4 DEF CreditRow
<1>6. \A x : on(x) \in SUBSET DOMAIN credit /\ IsFiniteSet(on(x))
  <2> SUFFICES ASSUME NEW x PROVE on(x) \in SUBSET DOMAIN credit /\ IsFiniteSet(on(x))
    OBVIOUS
  <2>1. on(x) \in SUBSET DOMAIN credit
    OBVIOUS
  <2>2. IsFiniteSet(DOMAIN credit)
    BY <1>3, FS_Interval
  <2> HIDE DEF on
  <2> QED BY <2>1, <2>2, FS_Subset
<1>7. on(c)' = on(c) \cup {k} /\ k \notin on(c)
  BY <1>2, <1>3, <1>4
<1>8. \A x \in Charge \ {c} : on(x)' = on(x)
  BY <1>2, <1>3, <1>4
<1>9. \A x : CreditsOn(x) = SumFunctionOnSet(forgiven, on(x))
  BY DEF CreditsOn
<1>10. \A x : CreditsOn(x)' = SumFunctionOnSet(forgiven', on(x)')
  BY DEF CreditsOn
<1>11. \A x : SumFunctionOnSet(forgiven', on(x)) = SumFunctionOnSet(forgiven, on(x))
  <2> SUFFICES ASSUME NEW x
               PROVE  SumFunctionOnSet(forgiven', on(x)) = SumFunctionOnSet(forgiven, on(x))
    OBVIOUS
  <2>1. IsFiniteSet(on(x)) /\ \A i \in on(x) : forgiven'[i] = forgiven[i] /\ forgiven[i] \in Int
    BY <1>5, <1>6
  <2> HIDE DEF forgiven, on
  <2> QED BY <2>1, SumSame
<1>12. SumFunctionOnSet(forgiven', on(c) \cup {k}) = forgiven'[k] + SumFunctionOnSet(forgiven', on(c))
  <2>1. \A i \in on(c) \cup {k} : forgiven'[i] \in Int
    <3>1. \A i \in on(c) : forgiven'[i] \in Int
      BY <1>5, <1>6
    <3>2. forgiven'[k] \in Int
      BY <1>5
    <3> HIDE DEF forgiven, on, k
    <3> QED BY <3>1, <3>2
  <2> HIDE DEF forgiven, on, k
  <2> QED BY <1>6, <1>7, <2>1, SumAdd
<1>13. SumFunctionOnSet(forgiven, on(c)) \in Int
  <2>1. \A i \in on(c) : forgiven[i] \in Int
    BY <1>5, <1>6
  <2> HIDE DEF forgiven, on
  <2> QED BY <1>6, <2>1, SumInt
<1> HIDE DEF forgiven, on, k
<1>14. CreditsOn(c)' = CreditsOn(c) + n
  <2>1. CreditsOn(c)' = SumFunctionOnSet(forgiven', on(c) \cup {k})
    BY <1>7, <1>10
  <2>2. CreditsOn(c)' = n + SumFunctionOnSet(forgiven, on(c))
    BY <1>5, <1>11, <1>12, <2>1
  <2> QED BY <1>9, <1>13, <2>2
<1>15. \A x \in Charge \ {c} : CreditsOn(x)' = CreditsOn(x)
  BY <1>8, <1>9, <1>10, <1>11
<1> QED
  BY <1>14, <1>15

(* A step that writes none of what the totals are made of. *)
LEMMA ColumnsStand ==
  ASSUME ColumnsAddUp, UNCHANGED <<charge, allocation, credit>>
  PROVE  ColumnsAddUp'
  BY DEF ColumnsAddUp, AmountOf, ActiveOn, CreditsOn

(* An approval adds to each charge what it allocates to it. *)
LEMMA ApprovalColumns ==
  ASSUME OInv, NEW t \in Session, CommitApproval(t), SwapSucceeds(t)
  PROVE  ColumnsAddUp'
<1>1. pc[t] = "holding" /\ op[t].kind = "approve" /\ Asked(t) /\ ChargeStands(t)
  BY DEF CommitApproval, OInv, CInv, ChargesStand, IInv, Requests
<1>2. PICK m \in Payment, f \in Lines : m = op[t].payment /\ f = op[t].lines
  BY <1>1 DEF Asked, PaymentOf
<1>3. /\ allocation' = allocation \o NewAllocations(m, f)
      /\ charge' = [c \in Charge |->
            IF c \in DOMAIN f
            THEN Reallocated(c, fresh[t].charges[c], fresh[t].charges[c].allocated + f[c], 1)
            ELSE charge[c]]
      /\ credit' = credit
  BY <1>2 DEF CommitApproval, ApproveRows
<1>4. allocation \in Seq(AllocationRow)
  BY DEF OInv, LInv, IInv, Shapes
<1>5. Grows /\ \E N, g : Adds(m, f, N, g)
  BY <1>3, <1>4, ApprovalAdds
<1>6. PICK New, g : Adds(m, f, New, g)
  BY <1>5
<1>7. /\ \A c \in DOMAIN f : AmountOf(ActiveOn(c))' = AmountOf(ActiveOn(c)) + f[c]
      /\ \A c \in Charge \ DOMAIN f : AmountOf(ActiveOn(c))' = AmountOf(ActiveOn(c))
  BY <1>4, <1>5, <1>6, ChargeGains
<1>8. ASSUME NEW c \in DOMAIN f, c \in Charge
      PROVE  charge'[c].allocated = charge[c].allocated + f[c] /\ charge'[c].credited = charge[c].credited
  <2>1. fresh[t].charges[c] = charge[c]
    BY <1>1, <1>2 DEF ChargeStands
  <2>2. charge[c].allocated \in Nat /\ f[c] \in Nat
    BY <1>8, LinesType DEF OInv, LInv, Tables, ChargeFields
  <2>3. Floor(charge[c].allocated + f[c]) = charge[c].allocated + f[c]
    BY <2>2 DEF Floor
  <2>4. charge'[c] = Reallocated(c, charge[c], charge[c].allocated + f[c], 1)
    BY <1>3, <1>8, <2>1
  <2> QED BY <2>3, <2>4 DEF Reallocated
<1>9. ASSUME NEW c \in Charge, c \notin DOMAIN f PROVE charge'[c] = charge[c]
  BY <1>3, <1>9
<1>10. \A c \in Charge : CreditsOn(c)' = CreditsOn(c)
  BY <1>3 DEF CreditsOn
<1>11. ASSUME NEW c \in Charge
       PROVE  charge'[c].allocated = AmountOf(ActiveOn(c))' /\ charge'[c].credited = CreditsOn(c)'
  <2>1. charge[c].allocated = AmountOf(ActiveOn(c)) /\ charge[c].credited = CreditsOn(c)
    BY DEF OInv, ColumnsAddUp
  <2>2. CASE c \in DOMAIN f
    BY <1>7, <1>8, <1>10, <2>1, <2>2
  <2>3. CASE c \notin DOMAIN f
    BY <1>7, <1>9, <1>10, <2>1, <2>3
  <2> QED BY <2>2, <2>3
<1> QED
  BY <1>11 DEF ColumnsAddUp

(* A reversal takes from its charge what was allocated. *)
LEMMA ReversalColumns ==
  ASSUME OInv, NEW t \in Session, CommitReversal(t),
         allocation[op[t].allocation].status = "ACTIVE"
  PROVE  ColumnsAddUp'
<1>1. pc[t] = "holding" /\ op[t].kind = "reverse" /\ Asked(t) /\ ChargeStands(t) /\ Shapes
      /\ allocation \in Seq(AllocationRow)
  BY DEF CommitReversal, OInv, CInv, ChargesStand, IInv, Requests, Shapes
<1>2. PICK i \in DOMAIN allocation : i = op[t].allocation
  BY <1>1 DEF Asked
<1>3. PICK c \in Charge, n \in Nat \ {0} : c = allocation[i].charge /\ n = allocation[i].amount
  BY <1>1, AllocationRows
<1>4. /\ fresh[t].charges[c] = charge[c] /\ charge[c].allocated >= n
      /\ charge[c].allocated \in Nat
  BY <1>1, <1>2, <1>3 DEF ChargeStands, OInv, LInv, Tables, ChargeFields
<1>5. /\ allocation' = Unwind({i}) /\ credit' = credit
      /\ charge' = Put(charge, c, Reallocated(c, charge[c], charge[c].allocated - n, 1))
  BY <1>2, <1>3, <1>4 DEF CommitReversal, ReverseRows
<1>6. \A x \in Charge : AmountOf(ActiveOn(x))' =
        IF x = c THEN AmountOf(ActiveOn(x)) - n ELSE AmountOf(ActiveOn(x))
  BY <1>1, <1>2, <1>3, <1>5, UnwindTakes
<1>7. Floor(charge[c].allocated - n) = charge[c].allocated - n
  BY <1>4 DEF Floor
<1>8. /\ charge'[c].allocated = charge[c].allocated - n /\ charge'[c].credited = charge[c].credited
      /\ \A x \in Charge \ {c} : charge'[x] = charge[x]
  BY <1>5, <1>7 DEF Put, Reallocated, OInv, LInv, Tables
<1>9. \A x \in Charge : CreditsOn(x)' = CreditsOn(x)
  BY <1>5 DEF CreditsOn
<1> QED
  BY <1>6, <1>8, <1>9 DEF OInv, ColumnsAddUp

(* A credit adds to the credited total of its charge. *)
LEMMA CreditColumns ==
  ASSUME InPeriodOnly, OInv, NEW t \in Session, CommitCredit(t)
  PROVE  ColumnsAddUp'
<1>1. pc[t] = "holding" /\ Asked(t) /\ ChargeStands(t)
  BY DEF CommitCredit, OInv, CInv, ChargesStand, IInv, Requests
<1>2. op[t].kind = "credit"
  BY <1>1 DEF CommitCredit, Asked, InPeriodOnly
<1>3. PICK c \in Charge, n \in Nat \ {0} : c = op[t].charge /\ n = op[t].amount
  BY <1>1, <1>2 DEF Asked
<1>4. fresh[t].charges[c] = charge[c]
  BY <1>1, <1>2, <1>3 DEF ChargeStands
<1>5. /\ credit' = Append(credit, [charge |-> c, amount |-> n]) /\ allocation' = allocation
      /\ charge' = Put(charge, c, Recredited(c, charge[c], charge[c].credited + n))
  BY <1>3, <1>4 DEF CommitCredit
<1>6. CreditsOn(c)' = CreditsOn(c) + n /\ \A x \in Charge \ {c} : CreditsOn(x)' = CreditsOn(x)
  BY <1>5, CreditGains DEF OInv, LInv, Tables
<1>7. /\ charge'[c].allocated = charge[c].allocated /\ charge'[c].credited = charge[c].credited + n
      /\ \A x \in Charge \ {c} : charge'[x] = charge[x]
  BY <1>5 DEF Put, Recredited, OInv, LInv, Tables
<1>8. \A x \in Charge : AmountOf(ActiveOn(x))' = AmountOf(ActiveOn(x))
  BY <1>5 DEF AmountOf, ActiveOn
<1> QED
  BY <1>6, <1>7, <1>8 DEF OInv, ColumnsAddUp

(* A charge is born with nothing on it, for nothing names it yet. *)
LEMMA BirthColumns ==
  ASSUME OInv, NEW p \in Period, Generate(p)
  PROVE  ColumnsAddUp'
<1> DEFINE new == {c \in Charge : ChargePeriod[c] = p /\ charge[c].status = "ABSENT"}
<1>1. /\ charge' = [c \in Charge |-> IF c \in new THEN NewCharge(c) ELSE charge[c]]
      /\ allocation' = allocation /\ credit' = credit
  BY DEF Generate
<1>2. \A c \in Charge : /\ AmountOf(ActiveOn(c))' = AmountOf(ActiveOn(c))
                        /\ CreditsOn(c)' = CreditsOn(c)
  BY <1>1 DEF AmountOf, ActiveOn, CreditsOn
<1>3. ASSUME NEW c \in new PROVE AmountOf(ActiveOn(c)) = 0 /\ CreditsOn(c) = 0
  <2>1. ActiveOn(c) = {} /\ {i \in DOMAIN credit : credit[i].charge = c} = {}
    BY DEF OInv, LInv, RowsNamed, Posted, ActiveOn
  <2> QED BY <2>1, SumEmpty DEF AmountOf, CreditsOn
<1>4. \A c \in Charge : NewCharge(c).allocated = 0 /\ NewCharge(c).credited = 0
  BY DEF NewCharge
<1> HIDE DEF new
<1> QED
  BY <1>1, <1>2, <1>3, <1>4 DEF OInv, ColumnsAddUp

(* Every step that can occur keeps the totals of charges. *)
LEMMA NextOInv ==
  ASSUME InPeriodOnly
  PROVE  OInv /\ [Next]_vars => OInv'
<1> SUFFICES ASSUME OInv, [Next]_vars PROVE OInv'
  OBVIOUS
<1>1. LInv' /\ CInv'
  BY NextLInv, NextCInv DEF OInv
<1>2. CASE tables' = tables
  <2>1. UNCHANGED <<charge, allocation, credit>>
    BY <1>2 DEF tables
  <2> QED BY <1>1, <2>1, ColumnsStand DEF OInv
<1>3. CASE tables' # tables
  <2>1. ASSUME NEW t \in Session, CommitProviderReversal(t) PROVE FALSE
    BY <2>1 DEF CommitProviderReversal, OInv, CInv, IInv, Requests, Asked, InPeriodOnly
  <2>2. ASSUME NEW m \in Payment, Ingest(m) PROVE ColumnsAddUp'
    BY <2>2, ColumnsStand DEF Ingest, OInv
  <2>3. ColumnsAddUp'
    BY <1>3, <2>1, <2>2, TableWriters, BirthColumns, ApprovalColumns, ReversalColumns, CreditColumns
  <2> QED BY <1>1, <2>3 DEF OInv
<1> QED
  BY <1>2, <1>3

(* The maintained open balance of every charge is what its ACTIVE          *)
(* allocations and its credits leave of it, although reverse and           *)
(* createCredit write totals without comparing versions, as long as every  *)
(* credit is dated in its charge's period and no provider reversal occurs  *)
(* (the runs credit_dated_elsewhere and reversal_races_approval show that  *)
(* neither condition can be dropped).                                      *)
THEOREM OpenBalancesAreOwed ==
  ASSUME InPeriodOnly
  PROVE  Spec => []OpenIsOwed
<1>1. Init => OInv
  <2> SUFFICES ASSUME Init PROVE OInv
    OBVIOUS
  <2>1. DOMAIN allocation = {} /\ DOMAIN credit = {}
    BY EmptySeq, LenProperties DEF Init
  <2>2. \A c \in Charge : AmountOf(ActiveOn(c)) = 0 /\ CreditsOn(c) = 0
    <3>1. \A c \in Charge : ActiveOn(c) = {} /\ {i \in DOMAIN credit : credit[i].charge = c} = {}
      BY <2>1 DEF ActiveOn
    <3> QED BY <3>1, SumEmpty DEF AmountOf, CreditsOn
  <2>3. ColumnsAddUp
    BY <2>2 DEF Init, ColumnsAddUp, NoCharge
  <2> QED BY <2>3, InitLInv, InitCInv DEF OInv
<1>2. OInv => OpenIsOwed
  BY DEF OInv, CInv, ChargesFit, RowFits, ColumnsAddUp, OpenIsOwed
<1>3. OInv /\ [Next]_vars => OInv'
  BY NextOInv
<1> QED
  BY <1>1, <1>2, <1>3, PTL DEF Spec
=============================================================================
