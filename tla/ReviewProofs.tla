---------------------------- MODULE ReviewProofs ----------------------------
(***************************************************************************)
(* Proofs about Review, for any number of sessions, requests, charges and  *)
(* exceptions; and, at the end, about what is proposed (Matching).         *)
(*                                                                         *)
(* The argument: versions only climb, so what a page or a worker saw is    *)
(* either outdated by its version or still what the row says; those who    *)
(* write the payment exclude each other, so what they checked under their  *)
(* locks still holds when they commit; the record of a key is held by one  *)
(* session at a time; and an exception that a reversal has found stays     *)
(* unresolved until the reversal commits, unless a person resolves it.     *)
(***************************************************************************)
EXTENDS Review, FiniteSums, SequenceTheorems

PayRow == [allocated : Int, reversed : BOOLEAN, version : Nat]
ChargeRow == [allocated : Int, credited : Int, version : Nat]
AllocRow == [charge : Charge, cents : Int, active : BOOLEAN, by : Nat]
ProposalRow == [status : {"none", "PROPOSED", "SUPERSEDED", "APPROVED"}, payment : Nat, charge : Nat]

RequestRow ==
    [op : {"approve"}, what : Fingerprint, seen : Nat, shown : Nat]
      \cup [op : {"reverse"}, what : Nat, seen : {0}, shown : {0}]
      \cup [op : {"credit"}, what : Charge, seen : {0}, shown : {0}]
      \cup [op : {"resolve"}, what : ExceptionId, seen : Nat, shown : Category, as : Resolution]
      \cup [op : {"assign", "reopen"}, what : ExceptionId, seen : Nat, shown : {0}]

ExceptionRow(row) ==
    /\ DOMAIN row = {"status", "category", "version", "since", "resolution", "resolvedBy", "knew"}
    /\ row.status \in {"none", "OPEN", "ASSIGNED", "RESOLVED"}
    /\ row.version \in Nat /\ row.category \in Category
    /\ row.knew \in BOOLEAN /\ (row.status = "none" => ~row.knew)

MoneyTyped ==
    /\ pay \in PayRow /\ charge \in [Charge -> ChargeRow]
    /\ allocs \in Seq(AllocRow) /\ reversals \in Seq(Nat) /\ Len(reversals) = Len(allocs)
    /\ credits \in Seq(Key)
    /\ suggestion \in [Fingerprint -> ProposalRow]

ExceptionsTyped ==
    /\ exception = [x \in ExceptionId |-> exception[x]]
    /\ \A x \in ExceptionId : ExceptionRow(exception[x])

(* A request names rows that exist. *)
Named(r) ==
    /\ r.op = "reverse" => r.what \in DOMAIN allocs
    /\ r.op \in {"resolve", "assign", "reopen"} => exception[r.what].status # "none"

RequestsTyped ==
    /\ request \in Seq(RequestRow) /\ Len(request) <= MaxRequests
    /\ \A i \in DOMAIN request : Named(request[i])

SessionsTyped ==
    /\ session = [s \in Session |-> session[s]]
    /\ key \in [Key -> {"free", "inserted", "COMPLETED"}]
    /\ purged \in SUBSET Key

(* A session that has the record of a key. *)
Holding(s) == session[s].at \in {"claimed", "entered"}

(* A row seen earlier: outdated, or the same. *)
Seen(was, row) == was.version <= row.version /\ (was.version = row.version => was = row)

(* What a session has read, and works for. *)
Doing(s) ==
    /\ Holding(s) =>
          /\ session[s].i \in DOMAIN request
          /\ request[session[s].i].op \in {"approve", "reverse", "credit"}
          /\ key[session[s].i] = "inserted"
    /\ At(s, "loaded") =>
          session[s].i \in DOMAIN request /\ request[session[s].i].op = "resolve"
    /\ session[s].at \in {"entered", "reversing", "conflict"} => session[s].found \in 0 .. MaxExceptions
    /\ session[s].at \in {"looked", "reversing"} =>
          session[s].unwound \subseteq DOMAIN allocs /\ session[s].rows \in [Charge -> ChargeRow]
    /\ session[s].at \in {"payment", "charges"} =>
          session[s].pay \in PayRow /\ Seen(session[s].pay, pay)
    /\ At(s, "charges") =>
          /\ session[s].rows \in [Charge -> ChargeRow]
          /\ \A c \in Charge : Seen(session[s].rows[c], charge[c])

SomeoneKnew == \E x \in ExceptionId : exception[x].knew

(* What a session has checked under the locks still holds. *)
Stands(s) ==
    /\ At(s, "entered") /\ request[session[s].i].op = "approve" =>
          ~pay.reversed /\ pay.version = request[session[s].i].seen
    /\ At(s, "entered") /\ request[session[s].i].op = "reverse" =>
          allocs[request[session[s].i].what].active
    /\ At(s, "reversing") /\ session[s].found # 0 => session[s].found \in Unresolved \/ SomeoneKnew

Alone ==
    \A s, t \in Session : s # t =>
        /\ ~(Locked(s) /\ Locked(t))
        /\ Holding(s) /\ Holding(t) => session[s].i # session[t].i

(* Allocations, reversals and credits were each made once. *)
AllocatedOnce ==
    /\ \A a \in DOMAIN allocs :
          /\ allocs[a].by \in DOMAIN request
          /\ request[allocs[a].by].seen < pay.version
          /\ reversals[a] = IF allocs[a].active THEN 0 ELSE 1
    /\ \A a, b \in DOMAIN allocs :
          a # b => request[allocs[a].by].seen # request[allocs[b].by].seen

CreditedOnce ==
    /\ \A i \in DOMAIN credits : key[credits[i]] = "COMPLETED" \/ credits[i] \in purged
    /\ \A i, j \in DOMAIN credits : i # j /\ credits[i] = credits[j] => credits[i] \in purged

(* A proposal of the rows as they are fits them. *)
ProposalsFit ==
    \A f \in Fingerprint : suggestion[f].status = "PROPOSED" =>
        /\ suggestion[f].payment <= pay.version
        /\ suggestion[f].charge <= charge[f[1]].version
        /\ suggestion[f].payment = pay.version => ~pay.reversed /\ f[2] <= Unapplied
        /\ suggestion[f].charge = charge[f[1]].version => f[2] <= Open(f[1])

(* What a resolution was shown is outdated or is the category of the row. *)
ShownIsSeen ==
    \A i \in DOMAIN request : request[i].op = "resolve" =>
        LET row == exception[request[i].what] IN
        /\ request[i].seen <= row.version
        /\ request[i].seen = row.version => request[i].shown = row.category

RInv ==
    /\ MoneyTyped /\ ExceptionsTyped /\ RequestsTyped /\ SessionsTyped
    /\ \A s \in Session : Doing(s) /\ Stands(s)
    /\ Alone
    /\ AllocatedOnce
    /\ CreditedOnce
    /\ ProposalsFit
    /\ ShownIsSeen
    /\ ReversalIsAnswered

----------------------------------------------------------------------------
(* The lesser and the greater of two amounts. *)
LEMMA OfTwo ==
  ASSUME NEW a \in Int, NEW b \in Int
  PROVE  /\ Min({a, b}) \in {a, b} /\ Min({a, b}) <= a /\ Min({a, b}) <= b
         /\ Max({a, b}) \in {a, b}
<1>1. \E x \in {a, b} : \A y \in {a, b} : x <= y
  <2>1. CASE a <= b
    BY <2>1
  <2>2. CASE b <= a
    BY <2>2
  <2> QED BY <2>1, <2>2
<1>2. \E x \in {a, b} : \A y \in {a, b} : x >= y
  <2>1. CASE a <= b
    BY <2>1
  <2>2. CASE b <= a
    BY <2>2
  <2> QED BY <2>1, <2>2
<1>3. Min({a, b}) \in {a, b} /\ \A y \in {a, b} : Min({a, b}) <= y
  BY <1>1 DEF Min
<1>4. Max({a, b}) \in {a, b}
  BY <1>2 DEF Max
<1> QED
  BY <1>3, <1>4

(* The least of some numbers. *)
LEMMA LeastOf ==
  ASSUME NEW n \in Nat, NEW T, T \subseteq 1 .. n, T # {}
  PROVE  \E i \in T : \A j \in T : i <= j
<1> DEFINE Below == {1 .. i : i \in T}
           All == 1 .. n
<1>1. IsFiniteSet(All)
  BY FS_Interval
<1>2. Below \subseteq SUBSET All /\ Below # {}
  <2>1. \A i \in T : 1 .. i \in SUBSET (1 .. n)
    OBVIOUS
  <2> QED BY <2>1
<1>3. PICK U \in Below : \A V \in Below : V \subseteq U => V = U
  <2> HIDE DEF Below, All
  <2> QED BY <1>1, <1>2, LeastSet
<1>4. PICK i \in T : U = 1 .. i
  OBVIOUS
<1>5. ASSUME NEW j \in T, j < i PROVE FALSE
  <2>1. 1 .. j \subseteq 1 .. i /\ 1 .. j \in Below
    BY <1>5
  <2>2. 1 .. j = 1 .. i
    BY <1>3, <1>4, <2>1
  <2>3. i \in 1 .. i /\ i \notin 1 .. j
    BY <1>5
  <2> QED BY <2>2, <2>3
<1> QED
  BY <1>5

(* A proposal names a charge and a number of cents. *)
LEMMA FingerprintParts ==
  ASSUME NEW f \in Fingerprint
  PROVE  f[1] \in Charge /\ f[2] \in Nat
  BY ReviewAssumption DEF Fingerprint

(* What a request of each operation holds. *)
LEMMA RequestKinds ==
  ASSUME NEW r \in RequestRow
  PROVE  /\ r.op \in {"approve", "reverse", "credit", "resolve", "assign", "reopen"}
         /\ r.seen \in Nat
         /\ r.op = "approve" => r.what \in Fingerprint
         /\ r.op = "credit" => r.what \in Charge
         /\ r.op \in {"resolve", "assign", "reopen"} => r.what \in ExceptionId
  BY DEF RequestRow

(* The rows of requests. *)
LEMMA Requests ==
  ASSUME RequestsTyped
  PROVE  /\ \A i \in DOMAIN request : request[i] \in RequestRow /\ Named(request[i])
         /\ DOMAIN request = 1 .. Len(request) /\ Len(request) \in Nat
         /\ DOMAIN request \subseteq Key
<1>1. DOMAIN request = 1 .. Len(request) /\ Len(request) \in Nat
  BY LenProperties DEF RequestsTyped
<1>2. \A i \in DOMAIN request : request[i] \in RequestRow /\ Named(request[i])
  BY LenProperties DEF RequestsTyped
<1> QED
  BY <1>1, <1>2, ReviewAssumption DEF RequestsTyped

----------------------------------------------------------------------------
(* What a step of session s may do to what the others rely on. *)

VersionsClimb ==
    /\ pay' = pay \/ pay.version < pay'.version
    /\ \A c \in Charge : charge'[c] = charge[c] \/ charge[c].version < charge'[c].version

ExceptionsClimb ==
    \A x \in ExceptionId : exception[x].status # "none" =>
        /\ exception'[x].status # "none"
        /\ exception[x].version <= exception'[x].version
        /\ exception[x].version = exception'[x].version => exception'[x].category = exception[x].category

(* What is unresolved stays so, or a person who knew resolved it. *)
StayOpen ==
    /\ \A x \in Unresolved : x \in Unresolved' \/ SomeoneKnew'
    /\ SomeoneKnew => SomeoneKnew'

Frame(s) ==
    /\ request' = request
    /\ VersionsClimb
    /\ ExceptionsClimb
    /\ DOMAIN allocs \subseteq DOMAIN allocs'
    /\ (pay' = pay /\ allocs' = allocs) \/ Locked(s)
    /\ StayOpen \/ \A t \in Session \ {s} : ~At(t, "reversing")
    /\ \A t \in Session \ {s} : Holding(t) => key'[session[t].i] = key[session[t].i]

(* The others go on. *)
LEMMA OthersStand ==
  ASSUME RInv, NEW s \in Session, NEW st, Go(s, st), Frame(s), MoneyTyped',
         NEW t \in Session \ {s}
  PROVE  session'[t] = session[t] /\ Doing(t)' /\ Stands(t)'
<1>1. session'[t] = session[t]
  BY DEF Go, RInv, SessionsTyped
<1>2. Doing(t) /\ Stands(t)
  BY DEF RInv
<1>3. /\ pay \in PayRow /\ pay' \in PayRow
      /\ charge \in [Charge -> ChargeRow] /\ charge' \in [Charge -> ChargeRow]
  BY DEF RInv, MoneyTyped
<1>4. Doing(t)'
  <2>1. ASSUME session[t].at \in {"payment", "charges"} PROVE Seen(session[t].pay, pay')
    <3>1. session[t].pay \in PayRow /\ Seen(session[t].pay, pay)
      BY <1>2, <2>1 DEF Doing
    <3>2. session[t].pay.version \in Nat /\ pay.version \in Nat /\ pay'.version \in Nat
      BY <1>3, <3>1 DEF PayRow
    <3> QED BY <3>1, <3>2 DEF Seen, Frame, VersionsClimb
  <2>2. ASSUME At(t, "charges"), NEW c \in Charge PROVE Seen(session[t].rows[c], charge'[c])
    <3>1. session[t].rows[c] \in ChargeRow /\ Seen(session[t].rows[c], charge[c])
      BY <1>2, <2>2 DEF Doing
    <3>2. /\ session[t].rows[c].version \in Nat
          /\ charge[c].version \in Nat /\ charge'[c].version \in Nat
      BY <1>3, <3>1 DEF ChargeRow
    <3> QED BY <3>1, <3>2 DEF Seen, Frame, VersionsClimb
  <2>3. DOMAIN allocs \subseteq DOMAIN allocs' /\ request' = request
    BY DEF Frame
  <2>4. Holding(t) => key'[session[t].i] = key[session[t].i]
    BY DEF Frame
  <2> QED BY <1>1, <1>2, <2>1, <2>2, <2>3, <2>4 DEF Doing, Holding, At
<1>5. Locked(t) => pay' = pay /\ allocs' = allocs
  BY DEF Frame, RInv, Alone
<1>6. At(t, "reversing") => StayOpen
  BY DEF Frame
<1>7. Stands(t)'
  BY <1>1, <1>2, <1>5, <1>6 DEF Stands, Locked, At, Frame, StayOpen
<1> QED
  BY <1>1, <1>4, <1>7

(* The requests sent name what they named, and showed what they showed. *)
LEMMA RequestsStand ==
  ASSUME RInv, ExceptionsTyped', request' = request, DOMAIN allocs \subseteq DOMAIN allocs', ExceptionsClimb
  PROVE  RequestsTyped' /\ ShownIsSeen'
<1>1. /\ \A i \in DOMAIN request : request[i] \in RequestRow /\ Named(request[i])
      /\ \A i \in DOMAIN request : request[i].op \in {"resolve", "assign", "reopen"}
                                    => request[i].what \in ExceptionId
  BY Requests, RequestKinds DEF RInv
<1>2. \A i \in DOMAIN request : Named(request[i])'
  BY <1>1 DEF Named, ExceptionsClimb
<1>3. RequestsTyped'
  BY <1>2 DEF RInv, RequestsTyped
<1>4. ASSUME NEW i \in DOMAIN request, request[i].op = "resolve"
      PROVE  LET row == exception'[request[i].what] IN
             /\ request[i].seen <= row.version
             /\ request[i].seen = row.version => request[i].shown = row.category
  <2> DEFINE x == request[i].what
  <2>1. x \in ExceptionId /\ exception[x].status # "none" /\ request[i].seen \in Nat
    BY <1>1, <1>4, RequestKinds DEF Named
  <2>2. exception[x].version \in Nat /\ exception'[x].version \in Nat
    BY <2>1 DEF RInv, ExceptionsTyped, ExceptionRow
  <2>3. /\ request[i].seen <= exception[x].version
        /\ request[i].seen = exception[x].version => request[i].shown = exception[x].category
    BY <1>4 DEF RInv, ShownIsSeen
  <2>4. /\ exception[x].version <= exception'[x].version
        /\ exception[x].version = exception'[x].version => exception'[x].category = exception[x].category
    BY <2>1 DEF ExceptionsClimb
  <2> HIDE DEF x
  <2>5. /\ request[i].seen <= exception'[x].version
        /\ request[i].seen = exception'[x].version => request[i].shown = exception'[x].category
    BY <2>1, <2>2, <2>3, <2>4
  <2> QED BY <2>5 DEF x
<1> QED
  BY <1>3, <1>4 DEF ShownIsSeen

(* Proposals that are not made again fit as long as they are not outdated. *)
LEMMA ProposalsStand ==
  ASSUME RInv, MoneyTyped', VersionsClimb,
         \A f \in Fingerprint : suggestion'[f] = suggestion[f] \/ suggestion'[f].status # "PROPOSED"
  PROVE  ProposalsFit'
<1> SUFFICES ASSUME NEW f \in Fingerprint, suggestion'[f].status = "PROPOSED"
             PROVE  /\ suggestion'[f].payment <= pay'.version
                    /\ suggestion'[f].charge <= charge'[f[1]].version
                    /\ suggestion'[f].payment = pay'.version => ~pay'.reversed /\ f[2] <= Unapplied'
                    /\ suggestion'[f].charge = charge'[f[1]].version => f[2] <= Open(f[1])'
  BY DEF ProposalsFit
<1> DEFINE c == f[1]
<1>1. suggestion'[f] = suggestion[f] /\ c \in Charge
  BY FingerprintParts
<1>2. /\ suggestion[f].payment \in Nat /\ suggestion[f].charge \in Nat
      /\ pay.version \in Nat /\ pay'.version \in Nat
      /\ charge[c].version \in Nat /\ charge'[c].version \in Nat
  BY <1>1 DEF RInv, MoneyTyped, PayRow, ChargeRow, ProposalRow
<1>3. /\ suggestion[f].payment <= pay.version
      /\ suggestion[f].charge <= charge[c].version
      /\ suggestion[f].payment = pay.version => ~pay.reversed /\ f[2] <= Unapplied
      /\ suggestion[f].charge = charge[c].version => f[2] <= Open(c)
  BY <1>1 DEF RInv, ProposalsFit
<1>4. pay' = pay => Unapplied' = Unapplied
  BY DEF Unapplied
<1>5. charge'[c] = charge[c] => Open(c)' = Open(c)
  BY DEF Open
<1>6. charge'[c] = charge[c] \/ charge[c].version < charge'[c].version
  BY <1>1 DEF VersionsClimb
<1>7. pay' = pay \/ pay.version < pay'.version
  BY DEF VersionsClimb
<1> HIDE DEF c
<1>8. /\ suggestion'[f].payment <= pay'.version
      /\ suggestion'[f].payment = pay'.version => ~pay'.reversed /\ f[2] <= Unapplied'
  BY <1>1, <1>2, <1>3, <1>4, <1>7
<1>9. /\ suggestion'[f].charge <= charge'[c].version
      /\ suggestion'[f].charge = charge'[c].version => f[2] <= Open(c)'
  BY <1>1, <1>2, <1>3, <1>5, <1>6
<1> QED
  BY <1>8, <1>9 DEF c

(* A step of a session that keeps to the frame. *)
LEMMA StepRInv ==
  ASSUME RInv, NEW s \in Session, NEW st, Go(s, st), Frame(s),
         MoneyTyped', ExceptionsTyped',
         key' \in [Key -> {"free", "inserted", "COMPLETED"}], purged' \in SUBSET Key,
         Doing(s)', Stands(s)',
         Locked(s)' => \A t \in Session \ {s} : ~Locked(t),
         Holding(s)' => \A t \in Session \ {s} : Holding(t) => session[t].i # st.i,
         AllocatedOnce', CreditedOnce', ProposalsFit', ReversalIsAnswered'
  PROVE  RInv'
<1>1. \A t \in Session \ {s} : session'[t] = session[t] /\ Doing(t)' /\ Stands(t)'
  BY OthersStand
<1>2. session'[s] = st /\ SessionsTyped'
  BY DEF Go, RInv, SessionsTyped
<1>3. \A t \in Session \ {s} : (Locked(t)' <=> Locked(t)) /\ (Holding(t)' <=> Holding(t))
  BY <1>1 DEF Locked, Holding
<1>4. Alone'
  BY <1>1, <1>2, <1>3 DEF RInv, Alone
<1>5. RequestsTyped' /\ ShownIsSeen'
  BY RequestsStand DEF Frame
<1> QED
  BY <1>1, <1>2, <1>4, <1>5 DEF RInv

----------------------------------------------------------------------------
(* What is written to the exceptions.                                      *)

(* A row that workers write again. *)
LEMMA RowRecategorized ==
  ASSUME NEW row, ExceptionRow(row), NEW c \in Category
  PROVE  /\ ExceptionRow(Recategorized(row, c))
         /\ Recategorized(row, c).status = row.status /\ Recategorized(row, c).knew = row.knew
         /\ Recategorized(row, c).category = c /\ Recategorized(row, c).version = row.version + 1
  BY DEF ExceptionRow, Recategorized

(* A new row. *)
LEMMA RowOpened ==
  ASSUME NEW c \in Category, NEW e
  PROVE  /\ ExceptionRow(Opened(c, e)) /\ Opened(c, e).status = "OPEN"
         /\ Opened(c, e).category = c /\ Opened(c, e).knew = FALSE
  BY DEF ExceptionRow, Opened, NoException

(* A row that is resolved. *)
LEMMA RowResolved ==
  ASSUME NEW row, ExceptionRow(row), NEW r, NEW by, NEW knew \in BOOLEAN
  PROVE  /\ ExceptionRow(Resolved(row, r, by, knew)) /\ Resolved(row, r, by, knew).knew = knew
         /\ Resolved(row, r, by, knew).status = "RESOLVED"
         /\ Resolved(row, r, by, knew).version = row.version + 1
         /\ Resolved(row, r, by, knew).category = row.category
         /\ Resolved(row, r, by, knew).resolvedBy = by
  BY DEF ExceptionRow, Resolved

(* One row is written, and its version climbs. *)
LEMMA OneRowClimbs ==
  ASSUME ExceptionsTyped, NEW x \in ExceptionId, NEW row, ExceptionRow(row),
         exception' = [exception EXCEPT ![x] = row],
         exception[x].status # "none" => row.status # "none" /\ exception[x].version < row.version
  PROVE  /\ ExceptionsTyped' /\ ExceptionsClimb
         /\ exception'[x] = row /\ \A y \in ExceptionId \ {x} : exception'[y] = exception[y]
<1>1. exception'[x] = row /\ \A y \in ExceptionId \ {x} : exception'[y] = exception[y]
  BY DEF ExceptionsTyped
<1>2. ExceptionsTyped'
  BY <1>1 DEF ExceptionsTyped
<1>3. \A y \in ExceptionId : exception[y].version \in Nat /\ exception'[y].version \in Nat
  BY <1>2 DEF ExceptionsTyped, ExceptionRow
<1>4. ExceptionsClimb
  BY <1>1, <1>3 DEF ExceptionsClimb
<1> QED
  BY <1>1, <1>2, <1>4

(* openOrUpdate keeps what is open open, and what is known known. *)
LEMMA OpenOrUpdateKeeps ==
  ASSUME ExceptionsTyped, NEW x \in 0 .. MaxExceptions, NEW c \in Category, NEW e,
         OpenOrUpdate(x, c, e)
  PROVE  /\ ExceptionsTyped' /\ ExceptionsClimb /\ StayOpen
         /\ \A y \in ExceptionId : exception'[y].knew = exception[y].knew
         /\ \A y \in Unresolved : y \in Unresolved'
         /\ \A y \in ExceptionId : exception[y].status # "none" =>
              exception'[y].status = exception[y].status /\ exception'[y].category \in {exception[y].category, c}
         /\ \A y \in ExceptionId : exception'[y].status \in {exception[y].status, "OPEN"}
         /\ x = 0 \/ x \in Unresolved => \E y \in Unresolved' : exception'[y].category = c
<1> DEFINE free == {i \in ExceptionId : exception[i].status = "none"}
           row == IF x # 0 THEN Recategorized(exception[x], c) ELSE Opened(c, e)
<1>1. PICK y \in ExceptionId :
        /\ exception' = [exception EXCEPT ![y] = row]
        /\ x # 0 => y = x
        /\ x = 0 => exception[y].status = "none"
  <2>1. CASE x # 0
    BY <2>1 DEF OpenOrUpdate, ExceptionId
  <2>2. CASE x = 0
    <3>1. free # {} /\ exception' = [exception EXCEPT ![CHOOSE i \in free : \A j \in free : i <= j] = row]
      BY <2>2 DEF OpenOrUpdate
    <3>2. free \subseteq 1 .. MaxExceptions
      BY DEF ExceptionId
    <3>3. \E i \in free : \A j \in free : i <= j
      BY <3>1, <3>2, ReviewAssumption, LeastOf
    <3>4. (CHOOSE i \in free : \A j \in free : i <= j) \in free
      BY <3>3
    <3> QED BY <2>2, <3>1, <3>4
  <2> QED BY <2>1, <2>2
<1>2. ExceptionRow(exception[y])
  BY DEF ExceptionsTyped
<1>3. /\ ExceptionRow(row) /\ row.knew = exception[y].knew /\ row.category = c
      /\ x # 0 => row.status = exception[y].status /\ row.version = exception[y].version + 1
      /\ x = 0 => row.status = "OPEN"
  <2>1. CASE x # 0
    BY <1>1, <1>2, <2>1, RowRecategorized
  <2>2. CASE x = 0
    <3>1. exception[y].knew = FALSE
      BY <1>1, <1>2, <2>2 DEF ExceptionRow
    <3> QED BY <1>2, <2>2, <3>1, RowOpened
  <2> QED BY <2>1, <2>2
<1> HIDE DEF row, free
<1>4. exception[y].version \in Nat
  BY <1>2 DEF ExceptionRow
<1>5. exception[y].status # "none" => row.status # "none" /\ exception[y].version < row.version
  BY <1>1, <1>3, <1>4
<1>6. /\ ExceptionsTyped' /\ ExceptionsClimb /\ exception'[y] = row
      /\ \A z \in ExceptionId \ {y} : exception'[z] = exception[z]
  BY <1>1, <1>3, <1>5, OneRowClimbs
<1>7. \A z \in ExceptionId : exception'[z].knew = exception[z].knew
  BY <1>3, <1>6
<1>8. \A z \in ExceptionId : exception[z].status # "none" =>
        exception'[z].status = exception[z].status /\ exception'[z].category \in {exception[z].category, c}
  BY <1>1, <1>3, <1>6
<1>9. \A z \in Unresolved : z \in Unresolved'
  BY <1>8 DEF Unresolved
<1>10. StayOpen
  BY <1>7, <1>9 DEF StayOpen, SomeoneKnew
<1>11. ASSUME x = 0 \/ x \in Unresolved PROVE y \in Unresolved' /\ exception'[y].category = c
  BY <1>1, <1>3, <1>6, <1>11 DEF Unresolved
<1>12. \A z \in ExceptionId : exception'[z].status \in {exception[z].status, "OPEN"}
  BY <1>1, <1>3, <1>6
<1> QED
  BY <1>6, <1>7, <1>8, <1>9, <1>10, <1>11, <1>12

----------------------------------------------------------------------------
(* Steps that write no row: sessions, and records of keys.                 *)

(* The frame of a step that writes no row. *)
LEMMA NothingWritten ==
  ASSUME RInv, NEW s \in Session,
         UNCHANGED <<moneyVars, suggestion, exception, request>>,
         \A t \in Session \ {s} : Holding(t) => key'[session[t].i] = key[session[t].i]
  PROVE  /\ Frame(s) /\ MoneyTyped' /\ ExceptionsTyped'
         /\ AllocatedOnce' /\ ProposalsFit' /\ ReversalIsAnswered'
<1>1. MoneyTyped' /\ ExceptionsTyped'
  BY DEF RInv, MoneyTyped, ExceptionsTyped, moneyVars
<1>2. VersionsClimb
  BY DEF VersionsClimb, moneyVars
<1>3. ExceptionsClimb
  BY DEF ExceptionsClimb, RInv, ExceptionsTyped, ExceptionRow
<1>4. StayOpen
  BY DEF StayOpen, Unresolved, SomeoneKnew
<1>5. Frame(s)
  BY <1>2, <1>3, <1>4 DEF Frame, moneyVars
<1>6. AllocatedOnce'
  BY DEF AllocatedOnce, RInv, moneyVars
<1>7. ProposalsFit'
  BY DEF ProposalsFit, RInv, moneyVars, Unapplied, Open
<1>8. ReversalIsAnswered'
  BY DEF ReversalIsAnswered, RInv, moneyVars, Blocking, Unresolved
<1> QED
  BY <1>1, <1>5, <1>6, <1>7, <1>8

(* A session goes on to what its next step needs, and may claim a key. *)
LEMMA MoveRInv ==
  ASSUME RInv, NEW s \in Session, NEW st, Go(s, st),
         UNCHANGED <<moneyVars, suggestion, exception, request, purged>>,
         key' \in [Key -> {"free", "inserted", "COMPLETED"}],
         \A k \in Key : key[k] = "COMPLETED" => key'[k] = "COMPLETED",
         \A t \in Session \ {s} : Holding(t) => key'[session[t].i] = key[session[t].i],
         Doing(s)', Stands(s)',
         Locked(s)' => \A t \in Session \ {s} : ~Locked(t),
         Holding(s)' => \A t \in Session \ {s} : Holding(t) => session[t].i # st.i
  PROVE  RInv'
<1>1. /\ Frame(s) /\ MoneyTyped' /\ ExceptionsTyped'
      /\ AllocatedOnce' /\ ProposalsFit' /\ ReversalIsAnswered'
  BY NothingWritten
<1>2. \A i \in DOMAIN credits : credits[i] \in Key
  BY LenProperties DEF RInv, MoneyTyped
<1>3. CreditedOnce'
  BY <1>2 DEF CreditedOnce, RInv, moneyVars
<1>4. purged' \in SUBSET Key
  BY DEF RInv, SessionsTyped
<1> QED
  BY <1>1, <1>3, <1>4, StepRInv

(* A request that names what there is, and shows what the page shows. *)
LEMMA SendRInv ==
  ASSUME RInv, NEW r \in RequestRow, Named(r), Send(r),
         r.op = "resolve" => r.seen = exception[r.what].version /\ r.shown = exception[r.what].category
  PROVE  RInv'
<1>1. /\ request \in Seq(RequestRow) /\ Len(request) \in Nat /\ Len(request) < MaxRequests
      /\ request' = Append(request, r)
      /\ UNCHANGED <<moneyVars, suggestion, exception, key, session, purged>>
  BY LenProperties DEF RInv, RequestsTyped, Send, boundVars
<1>2. /\ request' \in Seq(RequestRow) /\ Len(request') = Len(request) + 1
      /\ \A i \in 1 .. Len(request) : request'[i] = request[i]
      /\ request'[Len(request) + 1] = r
  BY <1>1, AppendProperties
<1>3. /\ DOMAIN request = 1 .. Len(request) /\ DOMAIN request' = 1 .. (Len(request) + 1)
      /\ DOMAIN request' = DOMAIN request \cup {Len(request) + 1}
  BY <1>1, <1>2, LenProperties
<1>4. /\ \A i \in DOMAIN request : i \in DOMAIN request' /\ request'[i] = request[i]
      /\ \A i \in DOMAIN request' : i \in DOMAIN request \/ request'[i] = r
  BY <1>2, <1>3
<1>5. MoneyTyped' /\ ExceptionsTyped' /\ SessionsTyped'
  BY <1>1 DEF RInv, MoneyTyped, ExceptionsTyped, SessionsTyped, moneyVars
<1>6. RequestsTyped'
  <2>1. \A q : Named(q)' <=> Named(q)
    BY <1>1 DEF Named, moneyVars
  <2>2. Len(request') <= MaxRequests
    BY <1>1, <1>2, ReviewAssumption
  <2>3. \A i \in DOMAIN request' : Named(request'[i])
    BY <1>4 DEF RInv, RequestsTyped
  <2> QED BY <1>2, <2>1, <2>2, <2>3 DEF RequestsTyped
<1>7. ASSUME NEW s \in Session PROVE Doing(s)' /\ Stands(s)'
  <2>1. session'[s] = session[s] /\ Doing(s) /\ Stands(s)
    BY <1>1 DEF RInv
  <2>2. Holding(s) \/ At(s, "loaded") => session[s].i \in DOMAIN request
                                         /\ session[s].i \in DOMAIN request'
                                         /\ request'[session[s].i] = request[session[s].i]
    BY <1>4, <2>1 DEF Doing
  <2>3. Doing(s)'
    BY <1>1, <2>1, <2>2 DEF Doing, Holding, At, moneyVars, Seen
  <2>4. Stands(s)'
    BY <1>1, <2>1, <2>2 DEF Stands, At, Holding, moneyVars, Unresolved, SomeoneKnew
  <2> QED BY <2>3, <2>4
<1>8. Alone'
  BY <1>1 DEF RInv, Alone, Locked, Holding
<1>9. AllocatedOnce'
  <2>1. AllocatedOnce /\ allocs' = allocs /\ reversals' = reversals /\ pay' = pay
    BY <1>1 DEF RInv, moneyVars
  <2>2. \A a \in DOMAIN allocs : allocs[a].by \in DOMAIN request'
                                 /\ request'[allocs[a].by] = request[allocs[a].by]
    BY <1>4, <2>1 DEF AllocatedOnce
  <2> QED BY <2>1, <2>2 DEF AllocatedOnce
<1>10. CreditedOnce' /\ ProposalsFit'
  BY <1>1 DEF RInv, CreditedOnce, ProposalsFit, moneyVars, Unapplied, Open
<1>11. ShownIsSeen'
  <2>1. r.op = "resolve" => LET row == exception[r.what] IN
            r.seen <= row.version /\ (r.seen = row.version => r.shown = row.category)
    BY RequestKinds DEF RInv, ExceptionsTyped, ExceptionRow
  <2> QED BY <1>1, <1>4, <2>1 DEF RInv, ShownIsSeen
<1>12. ReversalIsAnswered'
  BY <1>1 DEF RInv, ReversalIsAnswered, moneyVars, Blocking, Unresolved
<1> QED
  BY <1>5, <1>6, <1>7, <1>8, <1>9, <1>10, <1>11, <1>12 DEF RInv

----------------------------------------------------------------------------
(* A draft fits the rows it is made from. *)
LEMMA DraftFits ==
  ASSUME NEW p \in PayRow, NEW rows \in [Charge -> ChargeRow], NEW f \in Drafts(p, rows)
  PROVE  /\ ~p.reversed /\ f \in Fingerprint
         /\ f[2] <= PaymentAmount - p.allocated
         /\ f[2] <= ChargeAmount[f[1]] - rows[f[1]].allocated - rows[f[1]].credited
<1> DEFINE a == PaymentAmount - p.allocated
           b == ChargeAmount[f[1]] - rows[f[1]].allocated - rows[f[1]].credited
<1>1. ~p.reversed /\ f \in Fingerprint /\ f[2] = Min({a, b})
  BY DEF Drafts
<1>2. f[1] \in Charge
  BY <1>1, FingerprintParts
<1>3. a \in Int /\ b \in Int
  BY <1>2, ReviewAssumption DEF PayRow, ChargeRow
<1> HIDE DEF a, b
<1>4. Min({a, b}) <= a /\ Min({a, b}) <= b
  BY <1>3, OfTwo
<1> QED
  BY <1>1, <1>4 DEF a, b

(* At first nothing was requested. *)
LEMMA InitRInv == Init => RInv
<1> SUFFICES ASSUME Init PROVE RInv
  OBVIOUS
<1>1. /\ pay = [allocated |-> 0, reversed |-> FALSE, version |-> 0]
      /\ charge = [c \in Charge |-> [allocated |-> 0, credited |-> 0, version |-> 0]]
      /\ allocs = <<>> /\ reversals = <<>> /\ credits = <<>>
      /\ request = <<>> /\ session = [s \in Session |-> Idle] /\ purged = {}
      /\ key = [k \in Key |-> "free"]
  BY DEF Init, KeyInit
<1>2. pay \in PayRow /\ charge \in [Charge -> ChargeRow]
  BY <1>1 DEF PayRow, ChargeRow
<1>3. /\ allocs \in Seq(AllocRow) /\ Len(allocs) = 0 /\ DOMAIN allocs = {}
      /\ reversals \in Seq(Nat) /\ Len(reversals) = 0
      /\ credits \in Seq(Key) /\ DOMAIN credits = {}
      /\ request \in Seq(RequestRow) /\ Len(request) = 0 /\ DOMAIN request = {}
  BY <1>1, EmptySeq
<1>4. \A f \in Fingerprint :
        /\ suggestion[f] \in ProposalRow
        /\ suggestion[f].status = "PROPOSED" => f \in Drafts(pay, charge)
        /\ suggestion[f].payment = 0 /\ suggestion[f].charge = 0
  <2> DEFINE new == [NoSuggestion EXCEPT !.status = "PROPOSED"]
  <2>1. suggestion = [f \in Fingerprint |-> IF f \in Drafts(pay, charge) THEN new ELSE NoSuggestion]
    BY DEF Init
  <2>2. /\ new \in ProposalRow /\ new.payment = 0 /\ new.charge = 0
        /\ NoSuggestion \in ProposalRow /\ NoSuggestion.status # "PROPOSED"
        /\ NoSuggestion.payment = 0 /\ NoSuggestion.charge = 0
    BY DEF NoSuggestion, ProposalRow
  <2> HIDE DEF new
  <2> QED BY <2>1, <2>2
<1>5. MoneyTyped
  <2>1. suggestion \in [Fingerprint -> ProposalRow]
    <3>1. DOMAIN suggestion = Fingerprint /\ suggestion = [f \in Fingerprint |-> suggestion[f]]
      BY DEF Init
    <3> QED BY <1>4, <3>1
  <2> QED BY <1>2, <1>3, <2>1 DEF MoneyTyped
<1>6. ExceptionsTyped /\ \A x \in ExceptionId : exception[x].knew = FALSE
  <2>1. PICK first \in {NoException, Opened("AMBIGUOUS_MATCH", NoEvidence)} :
          exception = [x \in ExceptionId |-> IF x = 1 THEN first ELSE NoException]
    BY DEF Init, ExceptionInit
  <2>2. ExceptionRow(NoException) /\ NoException.knew = FALSE
    BY DEF NoException, ExceptionRow, Category
  <2>3. "AMBIGUOUS_MATCH" \in Category
    BY DEF Category
  <2>4. LET opened == Opened("AMBIGUOUS_MATCH", NoEvidence)
        IN ExceptionRow(opened) /\ opened.knew = FALSE
    BY <2>3, RowOpened
  <2>5. first = NoException \/ first = Opened("AMBIGUOUS_MATCH", NoEvidence)
    BY <2>1
  <2>6. ExceptionRow(first) /\ first.knew = FALSE
    BY <2>2, <2>4, <2>5
  <2> QED BY <2>1, <2>2, <2>6 DEF ExceptionsTyped
<1>7. RequestsTyped /\ ShownIsSeen /\ AllocatedOnce /\ CreditedOnce
  BY <1>1, <1>3, ReviewAssumption DEF RequestsTyped, ShownIsSeen, AllocatedOnce, CreditedOnce
<1>8. SessionsTyped
  BY <1>1 DEF SessionsTyped
<1>9. \A s \in Session : Doing(s) /\ Stands(s) /\ ~Locked(s) /\ ~Holding(s)
  BY <1>1 DEF Doing, Stands, Holding, Locked, At, Idle
<1>10. Alone
  BY <1>9 DEF Alone
<1>11. ProposalsFit
  <2> SUFFICES ASSUME NEW f \in Fingerprint, suggestion[f].status = "PROPOSED"
               PROVE  /\ suggestion[f].payment <= pay.version
                      /\ suggestion[f].charge <= charge[f[1]].version
                      /\ ~pay.reversed /\ f[2] <= Unapplied /\ f[2] <= Open(f[1])
    BY DEF ProposalsFit
  <2>1. f \in Drafts(pay, charge) /\ suggestion[f].payment = 0 /\ suggestion[f].charge = 0
    BY <1>4
  <2>2. ~pay.reversed /\ f[2] <= Unapplied /\ f[2] <= Open(f[1])
    BY <1>2, <2>1, DraftFits DEF Unapplied, Open
  <2>3. f[1] \in Charge
    BY FingerprintParts
  <2>4. pay.version = 0 /\ charge[f[1]].version = 0
    BY <1>1, <2>3
  <2> QED BY <2>1, <2>2, <2>4
<1>12. ReversalIsAnswered
  BY <1>1 DEF ReversalIsAnswered
<1> QED
  BY <1>5, <1>6, <1>7, <1>8, <1>9, <1>10, <1>11, <1>12 DEF RInv

----------------------------------------------------------------------------
(* The requests of the pages. *)
LEMMA SendsRInv ==
  ASSUME RInv, SendApprove \/ SendReverse \/ SendCredit \/ SendResolve \/ SendAssign \/ SendReopen
  PROVE  RInv'
<1>1. pay.version \in Nat /\ \A c \in Charge : charge[c].version \in Nat
  BY DEF RInv, MoneyTyped, PayRow, ChargeRow
<1>2. \A x \in ExceptionId : exception[x].version \in Nat /\ exception[x].category \in Category
  BY DEF RInv, ExceptionsTyped, ExceptionRow
<1>3. CASE SendApprove
  <2>1. PICK f \in Fingerprint :
          Send([op |-> "approve", what |-> f, seen |-> pay.version, shown |-> charge[f[1]].version])
    BY <1>3 DEF SendApprove
  <2>2. PICK r : r = [op |-> "approve", what |-> f, seen |-> pay.version, shown |-> charge[f[1]].version]
    OBVIOUS
  <2>3. r \in RequestRow /\ Named(r) /\ r.op # "resolve"
    BY <1>1, <2>2, FingerprintParts DEF RequestRow, Named
  <2> QED BY <2>1, <2>2, <2>3, SendRInv
<1>4. CASE SendReverse
  <2>1. PICK a \in DOMAIN allocs : Send([op |-> "reverse", what |-> a, seen |-> 0, shown |-> 0])
    BY <1>4 DEF SendReverse
  <2>2. PICK r : r = [op |-> "reverse", what |-> a, seen |-> 0, shown |-> 0]
    OBVIOUS
  <2>3. a \in Nat
    BY LenProperties DEF RInv, MoneyTyped
  <2>4. r \in RequestRow /\ Named(r) /\ r.op # "resolve"
    BY <2>2, <2>3 DEF RequestRow, Named
  <2> QED BY <2>1, <2>2, <2>4, SendRInv
<1>5. CASE SendCredit
  <2>1. PICK c \in Charge : Send([op |-> "credit", what |-> c, seen |-> 0, shown |-> 0])
    BY <1>5 DEF SendCredit
  <2>2. PICK r : r = [op |-> "credit", what |-> c, seen |-> 0, shown |-> 0]
    OBVIOUS
  <2>3. r \in RequestRow /\ Named(r) /\ r.op # "resolve"
    BY <2>2 DEF RequestRow, Named
  <2> QED BY <2>1, <2>2, <2>3, SendRInv
<1>6. CASE SendResolve
  <2>1. PICK x \in Unresolved : \E d \in Resolution :
          Send([op |-> "resolve", what |-> x, seen |-> exception[x].version,
                shown |-> exception[x].category, as |-> d])
    BY <1>6 DEF SendResolve
  <2>2. PICK d \in Resolution :
          Send([op |-> "resolve", what |-> x, seen |-> exception[x].version,
                shown |-> exception[x].category, as |-> d])
    BY <2>1
  <2>3. PICK r : r = [op |-> "resolve", what |-> x, seen |-> exception[x].version,
                      shown |-> exception[x].category, as |-> d]
    OBVIOUS
  <2>4. x \in ExceptionId /\ exception[x].status # "none"
    BY DEF Unresolved
  <2>5. /\ r \in RequestRow /\ Named(r)
        /\ r.seen = exception[r.what].version /\ r.shown = exception[r.what].category
    BY <1>2, <2>3, <2>4 DEF RequestRow, Named
  <2> QED BY <2>2, <2>3, <2>5, SendRInv
<1>7. CASE SendAssign \/ SendReopen
  <2>1. PICK x \in ExceptionId : \E op \in {"assign", "reopen"} :
          /\ exception[x].status # "none"
          /\ Send([op |-> op, what |-> x, seen |-> exception[x].version, shown |-> 0])
    BY <1>7 DEF SendAssign, SendReopen, Unresolved
  <2>2. PICK op \in {"assign", "reopen"} :
          Send([op |-> op, what |-> x, seen |-> exception[x].version, shown |-> 0])
    BY <2>1
  <2>3. PICK r : r = [op |-> op, what |-> x, seen |-> exception[x].version, shown |-> 0]
    OBVIOUS
  <2>4. r \in RequestRow /\ Named(r) /\ r.op # "resolve"
    BY <1>2, <2>1, <2>3 DEF RequestRow, Named
  <2> QED BY <2>2, <2>3, <2>4, SendRInv
<1> QED
  BY <1>3, <1>4, <1>5, <1>6, <1>7

----------------------------------------------------------------------------
(* A step that writes no row and no key. *)
LEMMA QuietRInv ==
  ASSUME RInv, NEW s \in Session, NEW st, Go(s, st),
         UNCHANGED <<moneyVars, suggestion, exception, key, request, purged>>,
         Doing(s)', Stands(s)', Locked(s)' => \A t \in Session \ {s} : ~Locked(t),
         Holding(s)' => Holding(s) /\ st.i = session[s].i
  PROVE  RInv'
<1>1. Holding(s)' => \A t \in Session \ {s} : Holding(t) => session[t].i # st.i
  BY DEF RInv, Alone
<1>2. key' = key /\ key \in [Key -> {"free", "inserted", "COMPLETED"}]
  BY DEF RInv, SessionsTyped
<1> QED
  BY <1>1, <1>2, MoveRInv

(* The checks under the locks. *)
LEMMA EnterRInv ==
  ASSUME RInv, NEW s \in Session, NEW op \in {"approve", "reverse", "credit"},
         NEW found \in 0 .. MaxExceptions, Enter(s, op, found),
         op = "approve" => ~pay.reversed /\ pay.version = request[session[s].i].seen,
         op = "reverse" => allocs[request[session[s].i].what].active
  PROVE  RInv'
<1> DEFINE st == [at |-> "entered", i |-> session[s].i, found |-> found]
<1>1. /\ At(s, "claimed") /\ request[session[s].i].op = op /\ Free /\ Go(s, st)
      /\ UNCHANGED <<moneyVars, suggestion, exception, key, request, purged>>
  BY DEF Enter, boundVars
<1>2. session'[s] = st /\ Doing(s)
  BY <1>1 DEF Go, RInv, SessionsTyped
<1>3. Holding(s) /\ st.i = session[s].i
  BY <1>1 DEF At, Holding
<1>4. Doing(s)'
  BY <1>1, <1>2, <1>3 DEF Doing, Holding, At
<1>5. Stands(s)'
  BY <1>1, <1>2 DEF Stands, At, moneyVars
<1>6. \A t \in Session \ {s} : ~Locked(t)
  BY <1>1 DEF Free
<1> HIDE DEF st
<1> QED
  BY <1>1, <1>3, <1>4, <1>5, <1>6, QuietRInv

(* What sessions check and read before they write. *)
LEMMA EntersRInv ==
  ASSUME RInv, NEW s \in Session, EnterApprove(s) \/ EnterReverse(s) \/ EnterCredit(s)
  PROVE  RInv'
<1>1. CASE EnterApprove(s)
  <2>1. PICK found \in 0 .. MaxExceptions :
          /\ Enter(s, "approve", found)
          /\ pay.version = request[session[s].i].seen /\ ~pay.reversed
    BY <1>1 DEF EnterApprove
  <2> QED BY <2>1, EnterRInv
<1>2. CASE EnterReverse(s)
  <2>1. Enter(s, "reverse", 0) /\ allocs[request[session[s].i].what].active
    BY <1>2 DEF EnterReverse
  <2>2. 0 \in 0 .. MaxExceptions
    BY ReviewAssumption
  <2> QED BY <2>1, <2>2, EnterRInv
<1>3. CASE EnterCredit(s)
  <2>1. Enter(s, "credit", 0)
    BY <1>3 DEF EnterCredit
  <2>2. 0 \in 0 .. MaxExceptions
    BY ReviewAssumption
  <2> QED BY <2>1, <2>2, EnterRInv
<1> QED
  BY <1>1, <1>2, <1>3

(* What workers read before they write. *)
LEMMA ReadsRInv ==
  ASSUME RInv, NEW s \in Session,
         LookReversal(s) \/ EnterReversal(s) \/ FindConflict(s) \/ ReadPayment(s) \/ ReadCharges(s)
           \/ LoadResolve(s)
  PROVE  RInv'
<1> SUFFICES ASSUME NEW st, Go(s, st), RInv,
                    UNCHANGED <<moneyVars, suggestion, exception, key, request, purged>>,
                    \/ /\ st.at = "looked" /\ st.unwound \subseteq DOMAIN allocs /\ st.rows = charge
                    \/ /\ st.at = "reversing" /\ At(s, "looked") /\ Free
                       /\ st.unwound = session[s].unwound /\ st.rows = session[s].rows
                       /\ st.found \in 0 .. MaxExceptions /\ FoundOpen(st.found)
                    \/ st.at = "conflict" /\ st.found \in 0 .. MaxExceptions
                    \/ st.at = "payment" /\ st.pay = pay
                    \/ st.at = "charges" /\ At(s, "payment") /\ st.pay = session[s].pay /\ st.rows = charge
                    \/ st.at = "loaded" /\ st.i \in DOMAIN request /\ request[st.i].op = "resolve"
             PROVE  RInv'
  <2>1. CASE LookReversal(s)
    <3>1. PICK st : st = [at |-> "looked", unwound |-> {a \in DOMAIN allocs: allocs[a].active}, rows |-> charge]
      OBVIOUS
    <3>2. st.at = "looked" /\ st.unwound \subseteq DOMAIN allocs /\ st.rows = charge
      BY <3>1
    <3>3. Go(s, st) /\ UNCHANGED <<moneyVars, suggestion, exception, key, request, purged>>
      BY <2>1, <3>1 DEF LookReversal, boundVars
    <3> QED BY <3>2, <3>3
  <2>2. CASE EnterReversal(s)
    <3>1. PICK found \in 0 .. MaxExceptions :
            /\ At(s, "looked") /\ Free /\ FoundOpen(found)
            /\ Go(s, [at |-> "reversing", unwound |-> session[s].unwound, rows |-> session[s].rows,
                      found |-> found])
            /\ UNCHANGED <<moneyVars, suggestion, exception, key, request, purged>>
      BY <2>2 DEF EnterReversal, boundVars
    <3>2. PICK st : st = [at |-> "reversing", unwound |-> session[s].unwound, rows |-> session[s].rows,
                          found |-> found]
      OBVIOUS
    <3>3. st.at = "reversing" /\ st.unwound = session[s].unwound /\ st.rows = session[s].rows /\ st.found = found
      BY <3>2
    <3>4. Go(s, st)
      BY <3>1, <3>2
    <3> QED BY <3>1, <3>3, <3>4
  <2>3. CASE FindConflict(s)
    <3>1. PICK found \in 0 .. MaxExceptions :
            /\ Go(s, [at |-> "conflict", found |-> found])
            /\ UNCHANGED <<moneyVars, suggestion, exception, key, request, purged>>
      BY <2>3 DEF FindConflict, boundVars
    <3>2. PICK st : st = [at |-> "conflict", found |-> found]
      OBVIOUS
    <3>3. st.at = "conflict" /\ st.found = found
      BY <3>2
    <3>4. Go(s, st)
      BY <3>1, <3>2
    <3> QED BY <3>1, <3>3, <3>4
  <2>4. CASE ReadPayment(s)
    <3>1. PICK st : st = [at |-> "payment", pay |-> pay]
      OBVIOUS
    <3>2. st.at = "payment" /\ st.pay = pay
      BY <3>1
    <3>3. Go(s, st) /\ UNCHANGED <<moneyVars, suggestion, exception, key, request, purged>>
      BY <2>4, <3>1 DEF ReadPayment
    <3> QED BY <3>2, <3>3
  <2>5. CASE ReadCharges(s)
    <3>1. PICK st : st = [at |-> "charges", pay |-> session[s].pay, rows |-> charge]
      OBVIOUS
    <3>2. st.at = "charges" /\ st.pay = session[s].pay /\ st.rows = charge
      BY <3>1
    <3>3. Go(s, st) /\ At(s, "payment") /\ UNCHANGED <<moneyVars, suggestion, exception, key, request, purged>>
      BY <2>5, <3>1 DEF ReadCharges, boundVars
    <3> QED BY <3>2, <3>3
  <2>6. CASE LoadResolve(s)
    <3>1. PICK i \in DOMAIN request :
            /\ request[i].op = "resolve" /\ Go(s, [at |-> "loaded", i |-> i])
            /\ UNCHANGED <<moneyVars, suggestion, exception, key, request, purged>>
      BY <2>6 DEF LoadResolve, Arrives, boundVars
    <3>2. PICK st : st = [at |-> "loaded", i |-> i]
      OBVIOUS
    <3>3. st.at = "loaded" /\ st.i = i
      BY <3>2
    <3>4. Go(s, st)
      BY <3>1, <3>2
    <3> QED BY <3>1, <3>3, <3>4
  <2> QED BY <2>1, <2>2, <2>3, <2>4, <2>5, <2>6
<1>1. session'[s] = st /\ Doing(s)
  BY DEF Go, RInv, SessionsTyped
<1>2. pay \in PayRow /\ charge \in [Charge -> ChargeRow]
  BY DEF RInv, MoneyTyped
<1>3. Seen(pay, pay) /\ \A c \in Charge : Seen(charge[c], charge[c])
  <2>1. pay.version \in Nat /\ \A c \in Charge : charge[c].version \in Nat
    BY <1>2 DEF PayRow, ChargeRow
  <2> QED BY <2>1 DEF Seen
<1>4. pay' = pay /\ charge' = charge /\ allocs' = allocs
  BY DEF moneyVars
<1>5. ~Holding(s)' /\ (Locked(s)' => st.at = "reversing")
  BY <1>1 DEF Holding, Locked
<1>6. Doing(s)'
  BY <1>1, <1>2, <1>3, <1>4 DEF Doing, Holding, At
<1>7. st.at = "reversing" /\ st.found # 0 => st.found \in Unresolved
  BY DEF FoundOpen
<1>8. Stands(s)'
  <2>1. Unresolved' = Unresolved
    BY DEF Unresolved
  <2> QED BY <1>1, <1>7, <2>1 DEF Stands, At
<1>9. Locked(s)' => \A t \in Session \ {s} : ~Locked(t)
  BY <1>5 DEF Free
<1> QED
  BY <1>5, <1>6, <1>8, <1>9, QuietRInv

----------------------------------------------------------------------------
(* The records of keys.                                                    *)

(* A free key is claimed: nobody else has it. *)
LEMMA BeginRInv ==
  ASSUME RInv, NEW s \in Session, Begin(s)
  PROVE  RInv'
<1>1. PICK i \in DOMAIN request :
        /\ request[i].op \in {"approve", "reverse", "credit"} /\ Claim(i)
        /\ Go(s, [at |-> "claimed", i |-> i])
        /\ UNCHANGED <<moneyVars, suggestion, exception, request, purged>>
  BY DEF Begin, Arrives, boundVars
<1>2. PICK st : st = [at |-> "claimed", i |-> i]
  OBVIOUS
<1>3. st.at = "claimed" /\ st.i = i /\ Go(s, st)
  BY <1>1, <1>2
<1>4. i \in Key /\ key \in [Key -> {"free", "inserted", "COMPLETED"}]
  BY Requests DEF RInv, SessionsTyped
<1>5. /\ key[i] = "free" /\ key'[i] = "inserted" /\ \A k \in Key \ {i} : key'[k] = key[k]
      /\ key' \in [Key -> {"free", "inserted", "COMPLETED"}]
  BY <1>1, <1>4 DEF Claim
<1>6. \A t \in Session : Holding(t) => session[t].i \in Key /\ session[t].i # i
  <2>1. \A t \in Session : Holding(t) => key[session[t].i] = "inserted" /\ session[t].i \in DOMAIN request
    BY DEF RInv, Doing
  <2> QED BY <1>5, <2>1, Requests DEF RInv
<1>7. session'[s] = st
  BY <1>3 DEF Go, RInv, SessionsTyped
<1>8. Doing(s)' /\ Stands(s)' /\ ~Locked(s)'
  BY <1>1, <1>3, <1>5, <1>7 DEF Doing, Stands, Locked, Holding, At
<1>9. \A k \in Key : key[k] = "COMPLETED" => key'[k] = "COMPLETED"
  BY <1>5
<1>10. \A t \in Session \ {s} : Holding(t) => key'[session[t].i] = key[session[t].i] /\ session[t].i # st.i
  BY <1>3, <1>5, <1>6
<1> QED
  BY <1>1, <1>3, <1>5, <1>8, <1>9, <1>10, MoveRInv

(* A transaction that rolls back takes its own record with it. *)
LEMMA AbortRInv ==
  ASSUME RInv, NEW s \in Session, Abort(s)
  PROVE  RInv'
<1>1. /\ Go(s, Idle) /\ UNCHANGED <<moneyVars, suggestion, exception, request, purged>>
      /\ Holding(s) => key' = [key EXCEPT ![session[s].i] = "free"]
      /\ ~Holding(s) => key' = key
  BY DEF Abort, boundVars, Holding, RollBack, At
<1>2. Idle.at = "idle"
  BY DEF Idle
<1>3. key \in [Key -> {"free", "inserted", "COMPLETED"}]
  BY DEF RInv, SessionsTyped
<1>4. \A t \in Session : Holding(t) => session[t].i \in Key /\ key[session[t].i] = "inserted"
  <2>1. \A t \in Session : Holding(t) => key[session[t].i] = "inserted" /\ session[t].i \in DOMAIN request
    BY DEF RInv, Doing
  <2> QED BY <2>1, Requests DEF RInv
<1>5. \A t \in Session \ {s} : Holding(s) /\ Holding(t) => session[t].i # session[s].i
  BY DEF RInv, Alone
<1>6. /\ key' \in [Key -> {"free", "inserted", "COMPLETED"}]
      /\ \A k \in Key : key[k] = "COMPLETED" => key'[k] = "COMPLETED"
      /\ \A t \in Session \ {s} : Holding(t) => key'[session[t].i] = key[session[t].i]
  BY <1>1, <1>3, <1>4, <1>5
<1>7. session'[s] = Idle
  BY <1>1 DEF Go, RInv, SessionsTyped
<1>8. Doing(s)' /\ Stands(s)' /\ ~Locked(s)' /\ ~Holding(s)'
  BY <1>2, <1>7 DEF Doing, Stands, Locked, Holding, At
<1> QED
  BY <1>1, <1>6, <1>8, MoveRInv

(* The record of a key that is purged is the record of no transaction. *)
LEMMA PurgeRInv ==
  ASSUME RInv, PurgeKey
  PROVE  RInv'
<1>1. PICK k \in Key : /\ Purge(k) /\ purged = {} /\ purged' = {k}
                       /\ UNCHANGED <<moneyVars, suggestion, exception, request, session>>
  BY DEF PurgeKey
<1>2. /\ key[k] = "COMPLETED" /\ \A j \in Key \ {k} : key'[j] = key[j]
      /\ key' \in [Key -> {"free", "inserted", "COMPLETED"}]
  BY <1>1 DEF Purge, RInv, SessionsTyped
<1>3. \A i \in DOMAIN credits : credits[i] \in Key
  BY LenProperties DEF RInv, MoneyTyped
<1>4. CreditedOnce'
  BY <1>1, <1>2, <1>3 DEF RInv, CreditedOnce, moneyVars
<1>5. MoneyTyped' /\ ExceptionsTyped' /\ SessionsTyped' /\ RequestsTyped'
  BY <1>1, <1>2 DEF RInv, MoneyTyped, ExceptionsTyped, SessionsTyped, RequestsTyped, Named, moneyVars
<1>6. ASSUME NEW t \in Session PROVE Doing(t)' /\ Stands(t)'
  <2>1. session'[t] = session[t] /\ Doing(t) /\ Stands(t)
    BY <1>1 DEF RInv
  <2>2. Holding(t) => session[t].i \in Key \ {k}
    BY <1>2, <2>1, Requests DEF RInv, Doing
  <2>3. Doing(t)'
    BY <1>1, <1>2, <2>1, <2>2 DEF Doing, Holding, At, moneyVars, Seen
  <2>4. Stands(t)'
    BY <1>1, <2>1 DEF Stands, At, moneyVars, Unresolved, SomeoneKnew
  <2> QED BY <2>3, <2>4
<1>7. Alone' /\ AllocatedOnce' /\ ProposalsFit' /\ ShownIsSeen' /\ ReversalIsAnswered'
  BY <1>1 DEF RInv, Alone, Locked, Holding, AllocatedOnce, ProposalsFit, ShownIsSeen, ReversalIsAnswered,
              moneyVars, Unapplied, Open, Blocking, Unresolved
<1> QED
  BY <1>4, <1>5, <1>6, <1>7 DEF RInv

----------------------------------------------------------------------------
(* Steps that end what a session was doing.                                *)

(* A session that is idle again relies on nothing. *)
LEMMA FinishRInv ==
  ASSUME RInv, NEW s \in Session, Go(s, Idle), Frame(s), MoneyTyped', ExceptionsTyped',
         key' \in [Key -> {"free", "inserted", "COMPLETED"}], purged' = purged,
         AllocatedOnce', CreditedOnce', ProposalsFit', ReversalIsAnswered'
  PROVE  RInv'
<1>1. session'[s] = Idle /\ Idle.at = "idle"
  BY DEF Go, Idle, RInv, SessionsTyped
<1>2. Doing(s)' /\ Stands(s)' /\ ~Locked(s)' /\ ~Holding(s)'
  BY <1>1 DEF Doing, Stands, Locked, Holding, At
<1>3. purged' \in SUBSET Key
  BY DEF RInv, SessionsTyped
<1> QED
  BY <1>2, <1>3, StepRInv

(* The mutation that commits has its key, and its key alone is completed. *)
LEMMA CommitKeys ==
  ASSUME RInv, NEW s \in Session, NEW op, Commit(s, op)
  PROVE  /\ session[s].i \in DOMAIN request /\ session[s].i \in Key
         /\ request[session[s].i] \in RequestRow /\ request[session[s].i].op = op
         /\ key' \in [Key -> {"free", "inserted", "COMPLETED"}]
         /\ key[session[s].i] = "inserted" /\ key'[session[s].i] = "COMPLETED"
         /\ \A k \in Key : key[k] = "COMPLETED" => key'[k] = "COMPLETED"
         /\ \A t \in Session \ {s} : Holding(t) => key'[session[t].i] = key[session[t].i]
         /\ \A t \in Session \ {s} : ~At(t, "reversing")
         /\ Locked(s) /\ Go(s, Idle) /\ request' = request /\ purged' = purged
<1>1. /\ At(s, "entered") /\ request[session[s].i].op = op /\ Complete(session[s].i)
      /\ Go(s, Idle) /\ request' = request /\ purged' = purged
  BY DEF Commit, boundVars
<1>2. Locked(s) /\ Holding(s)
  BY <1>1 DEF At, Locked, Holding
<1>3. \A t \in Session : Holding(t) => key[session[t].i] = "inserted" /\ session[t].i \in DOMAIN request
  BY DEF RInv, Doing
<1>4. \A t \in Session : Holding(t) => session[t].i \in Key
  BY <1>3, Requests DEF RInv
<1>5. \A t \in Session \ {s} : Holding(t) => session[t].i # session[s].i
  BY <1>2 DEF RInv, Alone
<1>6. key \in [Key -> {"free", "inserted", "COMPLETED"}]
  BY DEF RInv, SessionsTyped
<1>7. /\ key' \in [Key -> {"free", "inserted", "COMPLETED"}] /\ key'[session[s].i] = "COMPLETED"
      /\ \A k \in Key \ {session[s].i} : key'[k] = key[k]
  BY <1>1, <1>2, <1>4, <1>6 DEF Complete
<1>8. \A t \in Session \ {s} : ~At(t, "reversing")
  BY <1>2 DEF RInv, Alone, Locked, At
<1>9. request[session[s].i] \in RequestRow
  BY <1>2, <1>3, Requests DEF RInv
<1> QED
  BY <1>1, <1>2, <1>3, <1>4, <1>5, <1>7, <1>8, <1>9

(* After an allocation the exception is told, or resolved by nobody. *)
LEMMA Reconciled ==
  ASSUME ExceptionsTyped, NEW x \in 0 .. MaxExceptions, NEW left, NEW e,
         ReconcileAfterAllocation(x, left, e)
  PROVE  /\ ExceptionsTyped' /\ ExceptionsClimb
         /\ \A y \in ExceptionId : exception[y].status # "RESOLVED" /\ exception'[y].status = "RESOLVED"
                                    => exception'[y].resolvedBy = 0
<1>1. CASE OpenOrUpdate(x, "OVERPAYMENT", e)
  <2>1. "OVERPAYMENT" \in Category
    BY DEF Category
  <2>2. /\ ExceptionsTyped' /\ ExceptionsClimb
        /\ \A y \in ExceptionId : exception'[y].status \in {exception[y].status, "OPEN"}
    BY <1>1, <2>1, OpenOrUpdateKeeps
  <2> QED BY <2>2
<1>2. CASE x # 0 /\ exception' = [exception EXCEPT ![x] = Resolved(exception[x], "ALLOCATED", 0, FALSE)]
  <2>1. x \in ExceptionId /\ ExceptionRow(exception[x])
    BY <1>2, ReviewAssumption DEF ExceptionId, ExceptionsTyped
  <2>2. PICK row : row = Resolved(exception[x], "ALLOCATED", 0, FALSE)
    OBVIOUS
  <2>3. ExceptionRow(row) /\ row.status = "RESOLVED" /\ row.version = exception[x].version + 1
    BY <2>1, <2>2 DEF Resolved, ExceptionRow
  <2>4. exception[x].version < row.version /\ row.resolvedBy = 0
    BY <2>1, <2>2, <2>3 DEF ExceptionRow, Resolved
  <2>5. /\ ExceptionsTyped' /\ ExceptionsClimb
        /\ exception'[x] = row /\ \A y \in ExceptionId \ {x} : exception'[y] = exception[y]
    BY <1>2, <2>1, <2>2, <2>3, <2>4, OneRowClimbs
  <2> QED BY <2>4, <2>5
<1>3. CASE UNCHANGED exception
  BY <1>3 DEF ExceptionsTyped, ExceptionsClimb, ExceptionRow
<1> QED
  BY <1>1, <1>2, <1>3 DEF ReconcileAfterAllocation

(* A row that an amount is allocated to. *)
LEMMA RowAllocated ==
  ASSUME NEW n \in Int
  PROVE  /\ \A p \in PayRow : /\ Allocate(p, n) \in PayRow /\ Allocate(p, n).reversed = p.reversed
                              /\ Allocate(p, n).version = p.version + 1
         /\ \A c \in ChargeRow : Allocate(c, n) \in ChargeRow /\ Allocate(c, n).version = c.version + 1
<1>1. ASSUME NEW p \in PayRow
      PROVE  /\ Allocate(p, n) \in PayRow /\ Allocate(p, n).reversed = p.reversed
             /\ Allocate(p, n).version = p.version + 1
  <2>1. p.allocated + n \in Int /\ p.version + 1 \in Nat
    BY DEF PayRow
  <2> QED BY <2>1 DEF Allocate, PayRow
<1>2. ASSUME NEW c \in ChargeRow
      PROVE  Allocate(c, n) \in ChargeRow /\ Allocate(c, n).version = c.version + 1
  <2>1. c.allocated + n \in Int /\ c.version + 1 \in Nat
    BY DEF ChargeRow
  <2> QED BY <2>1 DEF Allocate, ChargeRow
<1> QED
  BY <1>1, <1>2

(* The rows of an allocation, and its charge, climb. *)
LEMMA AllocationClimbs ==
  ASSUME RInv, NEW c \in Charge, NEW n \in Int,
         pay' = Allocate(pay, n), charge' = [charge EXCEPT ![c] = Allocate(@, n)]
  PROVE  /\ pay' \in PayRow /\ charge' \in [Charge -> ChargeRow] /\ VersionsClimb
         /\ pay'.version = pay.version + 1 /\ pay'.reversed = pay.reversed
<1>1. pay \in PayRow /\ charge \in [Charge -> ChargeRow]
  BY DEF RInv, MoneyTyped
<1>2. /\ pay' \in PayRow /\ pay'.version = pay.version + 1 /\ pay'.reversed = pay.reversed
      /\ charge'[c] = Allocate(charge[c], n) /\ charge'[c] \in ChargeRow
      /\ charge'[c].version = charge[c].version + 1
      /\ \A d \in Charge \ {c} : charge'[d] = charge[d]
      /\ charge' \in [Charge -> ChargeRow]
  <2>1. /\ Allocate(charge[c], n) \in ChargeRow
        /\ Allocate(charge[c], n).version = charge[c].version + 1
    BY <1>1, RowAllocated
  <2>2. /\ Allocate(pay, n) \in PayRow /\ Allocate(pay, n).reversed = pay.reversed
        /\ Allocate(pay, n).version = pay.version + 1
    BY <1>1, RowAllocated
  <2> QED BY <1>1, <2>1, <2>2
<1>3. pay.version \in Nat /\ charge[c].version \in Nat
  BY <1>1 DEF PayRow, ChargeRow
<1>4. VersionsClimb
  BY <1>2, <1>3 DEF VersionsClimb
<1> QED
  BY <1>2, <1>4

(* What an approval writes follows what it checked. *)
LEMMA CommitApproveRInv ==
  ASSUME RInv, NEW s \in Session, CommitApprove(s)
  PROVE  RInv'
<1>1. Commit(s, "approve")
  BY DEF CommitApprove
<1>2. PICK i : i = session[s].i
  OBVIOUS
<1>3. /\ i \in DOMAIN request /\ i \in Key /\ request[i] \in RequestRow /\ request[i].op = "approve"
      /\ key' \in [Key -> {"free", "inserted", "COMPLETED"}]
      /\ \A k \in Key : key[k] = "COMPLETED" => key'[k] = "COMPLETED"
      /\ \A t \in Session \ {s} : Holding(t) => key'[session[t].i] = key[session[t].i]
      /\ \A t \in Session \ {s} : ~At(t, "reversing")
      /\ Locked(s) /\ Go(s, Idle) /\ request' = request /\ purged' = purged
  BY <1>1, <1>2, CommitKeys
<1>4. PICK f : f = request[i].what
  OBVIOUS
<1>5. PICK c \in Charge : c = f[1]
  BY <1>3, <1>4, RequestKinds, FingerprintParts
<1>6. PICK n \in Int : n = f[2]
  BY <1>3, <1>4, RequestKinds, FingerprintParts
<1>7. /\ allocs' = Append(allocs, [charge |-> c, cents |-> n, active |-> TRUE, by |-> i])
      /\ reversals' = Append(reversals, 0)
      /\ charge' = [charge EXCEPT ![c] = Allocate(@, n)]
      /\ pay' = Allocate(pay, n)
      /\ suggestion' = Taken(f)
      /\ credits' = credits
      /\ \E e : ReconcileAfterAllocation(session[s].found, Unapplied - n, e)
  BY <1>2, <1>4, <1>5, <1>6 DEF CommitApprove
<1>8. /\ pay' \in PayRow /\ charge' \in [Charge -> ChargeRow] /\ VersionsClimb
      /\ pay'.version = pay.version + 1 /\ pay'.reversed = pay.reversed
  BY <1>7, AllocationClimbs
<1>9. At(s, "entered") /\ Doing(s) /\ Stands(s)
  BY <1>1 DEF Commit, RInv
<1>10. ~pay.reversed /\ pay.version = request[i].seen
  BY <1>2, <1>3, <1>9 DEF Stands
<1>11. ExceptionsTyped' /\ ExceptionsClimb
  <2>1. session[s].found \in 0 .. MaxExceptions
    BY <1>9 DEF Doing, At
  <2>2. PICK e : ReconcileAfterAllocation(session[s].found, Unapplied - n, e)
    BY <1>7
  <2>3. PICK left : left = Unapplied - n
    OBVIOUS
  <2> QED BY <2>1, <2>2, <2>3, Reconciled DEF RInv
<1>12. \A g \in Fingerprint :
         /\ suggestion'[g] \in ProposalRow
         /\ suggestion'[g] = suggestion[g] \/ suggestion'[g].status # "PROPOSED"
  <2>1. \A g \in Fingerprint : suggestion[g] \in ProposalRow
    BY DEF RInv, MoneyTyped
  <2>2. \A g \in Fingerprint : \A st \in {"APPROVED", "SUPERSEDED"} :
          [suggestion[g] EXCEPT !.status = st] \in ProposalRow /\ [suggestion[g] EXCEPT !.status = st].status = st
    BY <2>1 DEF ProposalRow
  <2> QED BY <1>7, <2>1, <2>2 DEF Taken
<1>13. PICK row : row = [charge |-> c, cents |-> n, active |-> TRUE, by |-> i]
  OBVIOUS
<1>14. row \in AllocRow /\ row.active = TRUE /\ row.by = i
  <2>1. i \in Nat
    BY <1>3, ReviewAssumption
  <2> QED BY <1>13, <2>1 DEF AllocRow
<1>15. /\ allocs \in Seq(AllocRow) /\ reversals \in Seq(Nat) /\ Len(reversals) = Len(allocs)
       /\ DOMAIN allocs = 1 .. Len(allocs) /\ DOMAIN reversals = 1 .. Len(allocs) /\ Len(allocs) \in Nat
  BY LenProperties DEF RInv, MoneyTyped
<1>16. /\ allocs' \in Seq(AllocRow) /\ Len(allocs') = Len(allocs) + 1
       /\ \A a \in 1 .. Len(allocs) : allocs'[a] = allocs[a]
       /\ allocs'[Len(allocs) + 1] = row
       /\ DOMAIN allocs' = 1 .. (Len(allocs) + 1)
  BY <1>7, <1>13, <1>14, <1>15, AppendProperties, LenProperties
<1>17. /\ reversals' \in Seq(Nat) /\ Len(reversals') = Len(allocs')
       /\ \A a \in 1 .. Len(allocs) : reversals'[a] = reversals[a]
       /\ reversals'[Len(allocs) + 1] = 0
  BY <1>7, <1>15, <1>16, AppendProperties
<1>18. MoneyTyped'
  <2>1. suggestion' \in [Fingerprint -> ProposalRow]
    <3>1. DOMAIN suggestion' = Fingerprint /\ suggestion' = [g \in Fingerprint |-> suggestion'[g]]
      BY <1>7 DEF Taken
    <3> QED BY <1>12, <3>1
  <2>2. credits' \in Seq(Key)
    BY <1>7 DEF RInv, MoneyTyped
  <2> QED BY <1>8, <1>16, <1>17, <2>1, <2>2 DEF MoneyTyped
<1>19. DOMAIN allocs \subseteq DOMAIN allocs'
  BY <1>15, <1>16
<1>20. Frame(s)
  BY <1>3, <1>8, <1>11, <1>19 DEF Frame
<1>21. AllocatedOnce'
  <2>1. \A a \in DOMAIN allocs : /\ request[allocs[a].by].seen < pay.version
                                 /\ allocs[a].by \in DOMAIN request
                                 /\ request[allocs[a].by].seen \in Nat
    BY Requests, RequestKinds DEF RInv, AllocatedOnce
  <2>2. pay.version \in Nat /\ request[i].seen < pay'.version
    BY <1>8, <1>10 DEF RInv, MoneyTyped, PayRow
  <2>3. DOMAIN allocs' = DOMAIN allocs \cup {Len(allocs) + 1} /\ Len(allocs) + 1 \notin DOMAIN allocs
    BY <1>15, <1>16
  <2>4. ASSUME NEW a \in DOMAIN allocs'
        PROVE  /\ allocs'[a].by \in DOMAIN request
               /\ request[allocs'[a].by].seen < pay'.version
               /\ reversals'[a] = IF allocs'[a].active THEN 0 ELSE 1
    <3>1. CASE a \in DOMAIN allocs
      <4>1. allocs'[a] = allocs[a] /\ reversals'[a] = reversals[a]
        BY <1>15, <1>16, <1>17, <3>1
      <4>2. request[allocs[a].by].seen < pay'.version
        BY <1>8, <2>1, <2>2, <3>1
      <4> QED BY <2>1, <3>1, <4>1, <4>2 DEF RInv, AllocatedOnce
    <3>2. CASE a = Len(allocs) + 1
      BY <1>3, <1>14, <1>16, <1>17, <2>2, <3>2
    <3> QED BY <2>3, <3>1, <3>2
  <2>5. ASSUME NEW a \in DOMAIN allocs', NEW b \in DOMAIN allocs', a # b
        PROVE  request[allocs'[a].by].seen # request[allocs'[b].by].seen
    <3>1. CASE a \in DOMAIN allocs /\ b \in DOMAIN allocs
      <4>1. allocs'[a] = allocs[a] /\ allocs'[b] = allocs[b]
        BY <1>15, <1>16, <3>1
      <4> QED BY <2>5, <3>1, <4>1 DEF RInv, AllocatedOnce
    <3>2. CASE a = Len(allocs) + 1 \/ b = Len(allocs) + 1
      <4>1. \A d \in DOMAIN allocs : allocs'[d] = allocs[d] /\ request[allocs'[d].by].seen # request[i].seen
        BY <1>10, <1>15, <1>16, <2>1, <2>2
      <4>2. allocs'[Len(allocs) + 1].by = i
        BY <1>14, <1>16
      <4> QED BY <2>3, <2>5, <3>2, <4>1, <4>2
    <3> QED BY <2>3, <3>1, <3>2
  <2> QED BY <1>3, <2>4, <2>5 DEF AllocatedOnce
<1>22. CreditedOnce'
  <2>1. \A j \in DOMAIN credits : credits[j] \in Key
    BY LenProperties DEF RInv, MoneyTyped
  <2> QED BY <1>3, <1>7, <2>1 DEF RInv, CreditedOnce
<1>23. ProposalsFit'
  BY <1>8, <1>12, <1>18, ProposalsStand
<1>24. ReversalIsAnswered'
  BY <1>8, <1>10 DEF ReversalIsAnswered
<1> QED
  BY <1>3, <1>11, <1>18, <1>20, <1>21, <1>22, <1>23, <1>24, FinishRInv

(* A credit is recorded once as long as its key is. *)
LEMMA CommitCreditRInv ==
  ASSUME RInv, NEW s \in Session, CommitCredit(s)
  PROVE  RInv'
<1>1. Commit(s, "credit")
  BY DEF CommitCredit
<1>2. PICK i : i = session[s].i
  OBVIOUS
<1>3. /\ i \in DOMAIN request /\ i \in Key /\ request[i] \in RequestRow /\ request[i].op = "credit"
      /\ key' \in [Key -> {"free", "inserted", "COMPLETED"}]
      /\ key[i] = "inserted" /\ key'[i] = "COMPLETED"
      /\ \A k \in Key : key[k] = "COMPLETED" => key'[k] = "COMPLETED"
      /\ \A t \in Session \ {s} : Holding(t) => key'[session[t].i] = key[session[t].i]
      /\ \A t \in Session \ {s} : ~At(t, "reversing")
      /\ Locked(s) /\ Go(s, Idle) /\ request' = request /\ purged' = purged
  BY <1>1, <1>2, CommitKeys
<1>4. PICK c \in Charge : c = request[i].what
  BY <1>3, RequestKinds
<1>5. PICK row : row = [charge[c] EXCEPT !.credited = @ + 1, !.version = @ + 1]
  OBVIOUS
<1>6. /\ charge' = [charge EXCEPT ![c] = row]
      /\ credits' = Append(credits, i)
      /\ UNCHANGED <<pay, allocs, reversals, suggestion, exception>>
  BY <1>2, <1>4, <1>5 DEF CommitCredit
<1>7. charge \in [Charge -> ChargeRow] /\ credits \in Seq(Key)
  BY DEF RInv, MoneyTyped
<1>8. row \in ChargeRow /\ row.version = charge[c].version + 1 /\ charge[c].version \in Nat
  <2>1. charge[c] \in ChargeRow /\ charge[c].credited + 1 \in Int /\ charge[c].version + 1 \in Nat
    BY <1>7 DEF ChargeRow
  <2> QED BY <1>5, <2>1 DEF ChargeRow
<1>9. /\ charge' \in [Charge -> ChargeRow] /\ charge'[c] = row
      /\ \A d \in Charge \ {c} : charge'[d] = charge[d]
  BY <1>6, <1>7, <1>8
<1>10. VersionsClimb
  BY <1>6, <1>8, <1>9 DEF VersionsClimb
<1>11. /\ credits' \in Seq(Key) /\ DOMAIN credits' = DOMAIN credits \cup {Len(credits) + 1}
       /\ \A j \in DOMAIN credits : credits'[j] = credits[j] /\ credits[j] \in Key
       /\ credits'[Len(credits) + 1] = i
  <2>1. /\ credits' \in Seq(Key) /\ Len(credits') = Len(credits) + 1 /\ Len(credits) \in Nat
        /\ \A j \in 1 .. Len(credits) : credits'[j] = credits[j]
        /\ credits'[Len(credits) + 1] = i
    BY <1>3, <1>6, <1>7, AppendProperties, LenProperties
  <2>2. DOMAIN credits = 1 .. Len(credits) /\ DOMAIN credits' = 1 .. (Len(credits) + 1)
    BY <1>7, <2>1, LenProperties
  <2>3. \A j \in DOMAIN credits : credits[j] \in Key
    BY <1>7, LenProperties
  <2> QED BY <2>1, <2>2, <2>3
<1>12. MoneyTyped' /\ ExceptionsTyped'
  BY <1>6, <1>9, <1>11 DEF RInv, MoneyTyped, ExceptionsTyped
<1>13. ExceptionsClimb
  BY <1>6 DEF ExceptionsClimb, RInv, ExceptionsTyped, ExceptionRow
<1>14. Frame(s)
  BY <1>3, <1>6, <1>10, <1>13 DEF Frame
<1>15. AllocatedOnce'
  BY <1>3, <1>6 DEF RInv, AllocatedOnce
<1>16. CreditedOnce'
  <2>1. /\ \A j \in DOMAIN credits : key[credits[j]] = "COMPLETED" \/ credits[j] \in purged
        /\ \A j, k \in DOMAIN credits : j # k /\ credits[j] = credits[k] => credits[j] \in purged
    BY DEF RInv, CreditedOnce
  <2>2. \A j \in DOMAIN credits : credits[j] = i => i \in purged
    BY <1>3, <2>1
  <2>3. \A j \in DOMAIN credits : key'[credits[j]] = "COMPLETED" \/ credits[j] \in purged
    BY <1>3, <1>11, <2>1
  <2> QED BY <1>3, <1>11, <2>1, <2>2, <2>3 DEF CreditedOnce
<1>17. ProposalsFit'
  BY <1>6, <1>10, <1>12, ProposalsStand
<1>18. ReversalIsAnswered'
  BY <1>6 DEF RInv, ReversalIsAnswered, Blocking, Unresolved
<1> QED
  BY <1>3, <1>12, <1>14, <1>15, <1>16, <1>17, <1>18, FinishRInv

(* A reversal ends an allocation that was active, once. *)
LEMMA CommitReverseRInv ==
  ASSUME RInv, NEW s \in Session, CommitReverse(s)
  PROVE  RInv'
<1>1. Commit(s, "reverse")
  BY DEF CommitReverse
<1>2. PICK i : i = session[s].i
  OBVIOUS
<1>3. /\ i \in DOMAIN request /\ request[i].op = "reverse"
      /\ key' \in [Key -> {"free", "inserted", "COMPLETED"}]
      /\ \A k \in Key : key[k] = "COMPLETED" => key'[k] = "COMPLETED"
      /\ \A t \in Session \ {s} : Holding(t) => key'[session[t].i] = key[session[t].i]
      /\ \A t \in Session \ {s} : ~At(t, "reversing")
      /\ Locked(s) /\ Go(s, Idle) /\ request' = request /\ purged' = purged
  BY <1>1, <1>2, CommitKeys
<1>4. PICK a \in DOMAIN allocs : a = request[i].what
  BY <1>3, Requests DEF RInv, Named
<1>5. /\ allocs \in Seq(AllocRow) /\ reversals \in Seq(Nat) /\ Len(reversals) = Len(allocs)
      /\ DOMAIN allocs = 1 .. Len(allocs) /\ DOMAIN reversals = 1 .. Len(allocs) /\ Len(allocs) \in Nat
      /\ \A b \in DOMAIN allocs : allocs[b] \in AllocRow
  BY LenProperties DEF RInv, MoneyTyped
<1>6. PICK row : row = [allocs[a] EXCEPT !.active = FALSE]
  OBVIOUS
<1>7. row \in AllocRow /\ row.active = FALSE /\ row.by = allocs[a].by
  BY <1>5, <1>6 DEF AllocRow
<1>8. PICK n \in Int : n = -allocs[a].cents
  BY <1>5 DEF AllocRow
<1>9. PICK c \in Charge : c = allocs[a].charge
  BY <1>5 DEF AllocRow
<1>10. /\ allocs' = [allocs EXCEPT ![a] = row]
       /\ reversals' = [reversals EXCEPT ![a] = reversals[a] + 1]
       /\ charge' = [charge EXCEPT ![c] = Allocate(@, n)]
       /\ pay' = Allocate(pay, n)
       /\ UNCHANGED <<credits, suggestion, exception>>
  BY <1>2, <1>4, <1>6, <1>8, <1>9 DEF CommitReverse
<1>11. /\ pay' \in PayRow /\ charge' \in [Charge -> ChargeRow] /\ VersionsClimb
       /\ pay'.version = pay.version + 1 /\ pay'.reversed = pay.reversed
  BY <1>10, AllocationClimbs
<1>12. allocs[a].active /\ reversals[a] = 0
  <2>1. At(s, "entered") /\ Stands(s)
    BY <1>1 DEF Commit, RInv
  <2>2. allocs[a].active
    BY <1>2, <1>3, <1>4, <2>1 DEF Stands
  <2> QED BY <2>2 DEF RInv, AllocatedOnce
<1>13. /\ allocs' \in Seq(AllocRow) /\ Len(allocs') = Len(allocs) /\ DOMAIN allocs' = DOMAIN allocs
       /\ allocs'[a] = row /\ \A b \in DOMAIN allocs \ {a} : allocs'[b] = allocs[b]
  BY <1>4, <1>5, <1>7, <1>10, ExceptSeq, LenProperties
<1>14. /\ reversals' \in Seq(Nat) /\ Len(reversals') = Len(allocs)
       /\ reversals'[a] = 1 /\ \A b \in DOMAIN allocs \ {a} : reversals'[b] = reversals[b]
  <2>1. reversals[a] + 1 \in Nat /\ reversals[a] + 1 = 1 /\ a \in DOMAIN reversals
    BY <1>4, <1>5, <1>12
  <2> QED BY <1>5, <1>10, <2>1, ExceptSeq, LenProperties
<1>15. MoneyTyped' /\ ExceptionsTyped'
  BY <1>10, <1>11, <1>13, <1>14 DEF RInv, MoneyTyped, ExceptionsTyped
<1>16. ExceptionsClimb
  BY <1>10 DEF ExceptionsClimb, RInv, ExceptionsTyped, ExceptionRow
<1>17. Frame(s)
  BY <1>3, <1>11, <1>13, <1>16 DEF Frame
<1>18. AllocatedOnce'
  <2>1. \A b \in DOMAIN allocs : allocs'[b].by = allocs[b].by
    BY <1>7, <1>13
  <2>2. \A b \in DOMAIN allocs : reversals'[b] = IF allocs'[b].active THEN 0 ELSE 1
    BY <1>7, <1>13, <1>14 DEF RInv, AllocatedOnce
  <2>3. \A b \in DOMAIN allocs : request[allocs[b].by].seen < pay'.version
    <3>1. \A b \in DOMAIN allocs : /\ request[allocs[b].by].seen \in Nat
                                   /\ request[allocs[b].by].seen < pay.version
      BY Requests, RequestKinds DEF RInv, AllocatedOnce
    <3>2. pay.version \in Nat
      BY DEF RInv, MoneyTyped, PayRow
    <3> QED BY <1>11, <3>1, <3>2
  <2> QED BY <1>3, <1>13, <2>1, <2>2, <2>3 DEF RInv, AllocatedOnce
<1>19. CreditedOnce'
  <2>1. \A j \in DOMAIN credits : credits[j] \in Key
    BY LenProperties DEF RInv, MoneyTyped
  <2> QED BY <1>3, <1>10, <2>1 DEF RInv, CreditedOnce
<1>20. ProposalsFit'
  BY <1>10, <1>11, <1>15, ProposalsStand
<1>21. ReversalIsAnswered'
  BY <1>10, <1>11 DEF RInv, ReversalIsAnswered, Blocking, Unresolved
<1> QED
  BY <1>3, <1>15, <1>17, <1>18, <1>19, <1>20, <1>21, FinishRInv

(* A function of 1 .. n is a sequence of n. *)
LEMMA RowsAreSeq ==
  ASSUME NEW n \in Nat, NEW S, NEW f \in [1 .. n -> S]
  PROVE  f \in Seq(S) /\ Len(f) = n
  OBVIOUS

----------------------------------------------------------------------------
(* Steps of workers and persons on exceptions and proposals.               *)

(* What blocks the close goes on blocking it when a worker writes. *)
LEMMA StillAnswered ==
  ASSUME RInv, NEW x \in 0 .. MaxExceptions, NEW c \in Category, isBlockingCategory(c), NEW e,
         OpenOrUpdate(x, c, e), pay' = pay
  PROVE  ReversalIsAnswered'
<1>1. /\ \A y \in ExceptionId : exception'[y].knew = exception[y].knew
      /\ \A y \in Unresolved : y \in Unresolved'
      /\ \A y \in ExceptionId : exception[y].status # "none" =>
           exception'[y].status = exception[y].status /\ exception'[y].category \in {exception[y].category, c}
  BY OpenOrUpdateKeeps DEF RInv
<1>2. \A y \in Blocking : y \in Blocking'
  <2>1. \A y \in Blocking : y \in ExceptionId /\ y \in Unresolved /\ exception[y].status # "none"
                            /\ isBlockingCategory(exception[y].category)
    BY DEF Blocking, Unresolved
  <2>2. \A y \in Blocking : isBlockingCategory(exception'[y].category)
    BY <1>1, <2>1
  <2> QED BY <1>1, <2>1, <2>2 DEF Blocking
<1>3. pay.reversed => Blocking # {} \/ \E y \in ExceptionId : exception[y].knew
  BY DEF RInv, ReversalIsAnswered
<1> QED
  BY <1>1, <1>2, <1>3 DEF ReversalIsAnswered

(* A conflict of the provider is written. *)
LEMMA WriteConflictRInv ==
  ASSUME RInv, NEW s \in Session, WriteConflict(s)
  PROVE  RInv'
<1>1. /\ At(s, "conflict") /\ Go(s, Idle)
      /\ OpenOrUpdate(session[s].found, "INTEGRATION_CONFLICT", Evidence)
      /\ UNCHANGED <<moneyVars, suggestion, key, request, purged>>
  BY DEF WriteConflict, boundVars
<1>2. PICK x \in 0 .. MaxExceptions : x = session[s].found
  BY <1>1 DEF RInv, Doing, At
<1>3. PICK c \in Category : c = "INTEGRATION_CONFLICT"
  BY DEF Category
<1>4. PICK e : e = Evidence
  OBVIOUS
<1>5. OpenOrUpdate(x, c, e) /\ isBlockingCategory(c)
  BY <1>1, <1>2, <1>3, <1>4 DEF isBlockingCategory
<1>6. ExceptionsTyped' /\ ExceptionsClimb /\ StayOpen
  BY <1>5, OpenOrUpdateKeeps DEF RInv
<1>7. UNCHANGED <<pay, charge, allocs, reversals, credits, suggestion, key, request, purged>>
  BY <1>1 DEF moneyVars
<1>8. MoneyTyped' /\ VersionsClimb
  BY <1>7 DEF RInv, MoneyTyped, VersionsClimb
<1>9. Frame(s)
  BY <1>6, <1>7, <1>8 DEF Frame
<1>10. AllocatedOnce' /\ CreditedOnce' /\ ProposalsFit'
  BY <1>7 DEF RInv, AllocatedOnce, CreditedOnce, ProposalsFit, Unapplied, Open
<1>11. ReversalIsAnswered'
  BY <1>5, <1>7, StillAnswered
<1>12. key' \in [Key -> {"free", "inserted", "COMPLETED"}] /\ purged' = purged
  BY <1>7 DEF RInv, SessionsTyped
<1> QED
  BY <1>1, <1>6, <1>8, <1>9, <1>10, <1>11, <1>12, FinishRInv

(* Proposals are made of rows that are outdated or as they are. *)
LEMMA StoreRInv ==
  ASSUME RInv, NEW s \in Session, Store(s)
  PROVE  RInv'
<1>1. /\ At(s, "charges") /\ Go(s, Idle) /\ suggestion' = Stored(session[s].pay, session[s].rows)
      /\ UNCHANGED <<pay, charge, allocs, reversals, credits, exception, key, request, purged>>
  BY DEF Store, boundVars, moneyVars
<1>2. PICK p : p = session[s].pay
  OBVIOUS
<1>3. PICK rows : rows = session[s].rows
  OBVIOUS
<1>4. /\ p \in PayRow /\ Seen(p, pay)
      /\ rows \in [Charge -> ChargeRow] /\ \A c \in Charge : Seen(rows[c], charge[c])
  BY <1>1, <1>2, <1>3 DEF RInv, Doing, At
<1>5. suggestion' = Stored(p, rows) /\ suggestion \in [Fingerprint -> ProposalRow]
  BY <1>1, <1>2, <1>3 DEF RInv, MoneyTyped
<1>6. ASSUME NEW f \in Fingerprint
      PROVE  /\ suggestion'[f] \in ProposalRow
             /\ f \in Drafts(p, rows) =>
                  suggestion'[f].payment = p.version /\ suggestion'[f].charge = rows[f[1]].version
             /\ suggestion'[f].status = "PROPOSED" => f \in Drafts(p, rows)
  <2>1. CASE f \in Drafts(p, rows)
    <3>1. suggestion'[f] = [status |-> "PROPOSED", payment |-> p.version, charge |-> rows[f[1]].version]
      BY <1>5, <2>1 DEF Stored
    <3>2. p.version \in Nat /\ rows[f[1]].version \in Nat
      BY <1>4, FingerprintParts DEF PayRow, ChargeRow
    <3> QED BY <2>1, <3>1, <3>2 DEF ProposalRow
  <2>2. CASE f \notin Drafts(p, rows)
    <3>1. /\ suggestion[f].status = "PROPOSED" => suggestion'[f] = [suggestion[f] EXCEPT !.status = "SUPERSEDED"]
          /\ suggestion[f].status # "PROPOSED" => suggestion'[f] = suggestion[f]
      BY <1>5, <2>2 DEF Stored
    <3>2. /\ suggestion[f] \in ProposalRow /\ [suggestion[f] EXCEPT !.status = "SUPERSEDED"] \in ProposalRow
          /\ [suggestion[f] EXCEPT !.status = "SUPERSEDED"].status = "SUPERSEDED"
      BY <1>5 DEF ProposalRow
    <3> QED BY <2>2, <3>1, <3>2
  <2> QED BY <2>1, <2>2
<1>7. MoneyTyped'
  <2>1. suggestion' \in [Fingerprint -> ProposalRow]
    <3>1. DOMAIN suggestion' = Fingerprint /\ suggestion' = [g \in Fingerprint |-> suggestion'[g]]
      BY <1>5 DEF Stored
    <3> QED BY <1>6, <3>1
  <2> QED BY <1>1, <2>1 DEF RInv, MoneyTyped
<1>8. ProposalsFit'
  <2> SUFFICES ASSUME NEW f \in Fingerprint, suggestion'[f].status = "PROPOSED"
               PROVE  /\ suggestion'[f].payment <= pay.version
                      /\ suggestion'[f].charge <= charge[f[1]].version
                      /\ suggestion'[f].payment = pay.version => ~pay.reversed /\ f[2] <= Unapplied
                      /\ suggestion'[f].charge = charge[f[1]].version => f[2] <= Open(f[1])
    BY <1>1 DEF ProposalsFit, Unapplied, Open
  <2>1. /\ f \in Drafts(p, rows) /\ f[1] \in Charge
        /\ suggestion'[f].payment = p.version /\ suggestion'[f].charge = rows[f[1]].version
    BY <1>6, FingerprintParts
  <2>2. /\ ~p.reversed /\ f[2] <= PaymentAmount - p.allocated
        /\ f[2] <= ChargeAmount[f[1]] - rows[f[1]].allocated - rows[f[1]].credited
    BY <1>4, <2>1, DraftFits
  <2>3. Seen(rows[f[1]], charge[f[1]])
    BY <1>4, <2>1
  <2>4. /\ suggestion'[f].payment <= pay.version
        /\ suggestion'[f].payment = pay.version => ~pay.reversed /\ f[2] <= Unapplied
    BY <1>4, <2>1, <2>2 DEF Seen, Unapplied
  <2>5. /\ suggestion'[f].charge <= charge[f[1]].version
        /\ suggestion'[f].charge = charge[f[1]].version => f[2] <= Open(f[1])
    BY <2>1, <2>2, <2>3 DEF Seen, Open
  <2> QED BY <2>4, <2>5
<1>9. ExceptionsTyped' /\ AllocatedOnce' /\ CreditedOnce' /\ ReversalIsAnswered'
  BY <1>1 DEF RInv, ExceptionsTyped, AllocatedOnce, CreditedOnce, ReversalIsAnswered, Blocking, Unresolved
<1>10. Frame(s)
  <2>1. VersionsClimb
    BY <1>1 DEF VersionsClimb
  <2>2. ExceptionsClimb
    BY <1>1 DEF ExceptionsClimb, RInv, ExceptionsTyped, ExceptionRow
  <2>3. StayOpen
    BY <1>1 DEF StayOpen, Unresolved, SomeoneKnew
  <2> QED BY <1>1, <2>1, <2>2, <2>3 DEF Frame
<1>11. key' \in [Key -> {"free", "inserted", "COMPLETED"}] /\ purged' = purged
  BY <1>1 DEF RInv, SessionsTyped
<1> QED
  BY <1>1, <1>7, <1>8, <1>9, <1>10, <1>11, FinishRInv

(* A step that writes one exception row and no other. *)
LEMMA PersonWrites ==
  ASSUME RInv, NEW s \in Session,
         UNCHANGED <<pay, charge, allocs, reversals, credits, suggestion, key, request, purged>>,
         ExceptionsTyped', ExceptionsClimb, StayOpen \/ \A t \in Session \ {s} : ~At(t, "reversing")
  PROVE  /\ Frame(s) /\ MoneyTyped' /\ AllocatedOnce' /\ CreditedOnce' /\ ProposalsFit'
         /\ key' \in [Key -> {"free", "inserted", "COMPLETED"}] /\ purged' = purged
<1>1. VersionsClimb
  BY DEF VersionsClimb
<1>2. Frame(s)
  BY <1>1 DEF Frame
<1>3. MoneyTyped' /\ AllocatedOnce' /\ CreditedOnce' /\ ProposalsFit'
  BY DEF RInv, MoneyTyped, AllocatedOnce, CreditedOnce, ProposalsFit, Unapplied, Open
<1>4. key' \in [Key -> {"free", "inserted", "COMPLETED"}]
  BY DEF RInv, SessionsTyped
<1> QED
  BY <1>2, <1>3, <1>4

(* A person resolves an exception, and may know of a reversal. *)
LEMMA CommitResolveRInv ==
  ASSUME RInv, NEW s \in Session, CommitResolve(s)
  PROVE  RInv'
<1>1. PICK knew \in BOOLEAN : knew = (pay.reversed \/ \E t \in Session: At(t, "reversing"))
  OBVIOUS
<1>2. PICK i : i = session[s].i
  OBVIOUS
<1>3. /\ At(s, "loaded") /\ Go(s, Idle)
      /\ ResolveAt(request[i].what, request[i].seen, request[i].as, i, knew)
      /\ UNCHANGED <<pay, charge, allocs, reversals, credits, suggestion, key, request, purged>>
  BY <1>1, <1>2 DEF CommitResolve, boundVars, moneyVars
<1>4. i \in DOMAIN request /\ request[i].op = "resolve"
  BY <1>2, <1>3 DEF RInv, Doing, At
<1>5. PICK x \in ExceptionId : x = request[i].what
  BY <1>4, Requests, RequestKinds DEF RInv
<1>6. ExceptionRow(exception[x])
  BY DEF RInv, ExceptionsTyped
<1>7. PICK row : row = Resolved(exception[x], request[i].as, i, knew)
  OBVIOUS
<1>8. /\ ExceptionRow(row) /\ row.status = "RESOLVED" /\ row.knew = knew
      /\ row.version = exception[x].version + 1
  BY <1>6, <1>7 DEF Resolved, ExceptionRow
<1>9. exception[x].version < row.version /\ exception' = [exception EXCEPT ![x] = row]
  BY <1>3, <1>5, <1>6, <1>7, <1>8 DEF ExceptionRow, ResolveAt
<1>10. /\ ExceptionsTyped' /\ ExceptionsClimb
       /\ exception'[x] = row /\ \A y \in ExceptionId \ {x} : exception'[y] = exception[y]
  BY <1>8, <1>9, OneRowClimbs DEF RInv
<1>11. StayOpen \/ \A t \in Session \ {s} : ~At(t, "reversing")
  <2>1. CASE knew
    <3>1. SomeoneKnew'
      BY <1>8, <1>10, <2>1 DEF SomeoneKnew
    <3> QED BY <3>1 DEF StayOpen
  <2>2. CASE ~knew
    BY <1>1, <2>2
  <2> QED BY <2>1, <2>2
<1>12. /\ Frame(s) /\ MoneyTyped' /\ AllocatedOnce' /\ CreditedOnce' /\ ProposalsFit'
       /\ key' \in [Key -> {"free", "inserted", "COMPLETED"}] /\ purged' = purged
  BY <1>3, <1>10, <1>11, PersonWrites
<1>13. ReversalIsAnswered'
  BY <1>1, <1>3, <1>8, <1>10 DEF ReversalIsAnswered
<1> QED
  BY <1>3, <1>10, <1>12, <1>13, FinishRInv

(* Assigning and reopening leave an exception unresolved. *)
LEMMA AssignReopenRInv ==
  ASSUME RInv, NEW s \in Session, Assign(s) \/ Reopen(s)
  PROVE  RInv'
<1>1. PICK i \in DOMAIN request :
        /\ request[i].op \in {"assign", "reopen"}
        /\ \/ /\ exception[request[i].what].status \in {"OPEN", "ASSIGNED"}
              /\ AssignAt(request[i].what, request[i].seen, "ASSIGNED")
           \/ /\ exception[request[i].what].status = "RESOLVED"
              /\ ReopenAt(request[i].what, request[i].seen)
  BY DEF Assign, Reopen, Arrives
<1>2. UNCHANGED <<pay, charge, allocs, reversals, credits, suggestion, key, request, session, purged>>
  BY DEF Assign, Reopen, boundVars, moneyVars
<1>3. PICK x \in ExceptionId : x = request[i].what
  BY <1>1, Requests, RequestKinds DEF RInv
<1>4. PICK old : old = exception[x]
  OBVIOUS
<1>5. ExceptionRow(old) /\ old.status # "none"
  BY <1>1, <1>3, <1>4 DEF RInv, ExceptionsTyped
<1>6. PICK row : /\ \/ row = [old EXCEPT !.status = "ASSIGNED", !.version = @ + 1]
                    \/ row = [old EXCEPT !.status = "OPEN", !.resolution = "none", !.version = @ + 1]
                 /\ exception' = [exception EXCEPT ![x] = row]
  <2>1. exception = [y \in ExceptionId |-> exception[y]]
    BY DEF RInv, ExceptionsTyped
  <2>2. CASE AssignAt(x, request[i].seen, "ASSIGNED")
    <3>1. exception' = [exception EXCEPT ![x] = [old EXCEPT !.status = "ASSIGNED", !.version = @ + 1]]
      BY <1>4, <2>1, <2>2 DEF AssignAt
    <3> QED BY <3>1
  <2>3. CASE ReopenAt(x, request[i].seen)
    <3>1. exception' = [exception EXCEPT ![x] =
             [old EXCEPT !.status = "OPEN", !.resolution = "none", !.version = @ + 1]]
      BY <1>4, <2>1, <2>3 DEF ReopenAt
    <3> QED BY <3>1
  <2> QED BY <1>1, <1>3, <2>2, <2>3
<1>7. /\ ExceptionRow(row) /\ row.status \in {"ASSIGNED", "OPEN"} /\ row.knew = old.knew
      /\ row.version = old.version + 1 /\ row.category = old.category /\ old.version \in Nat
  <2>1. CASE row = [old EXCEPT !.status = "ASSIGNED", !.version = @ + 1]
    BY <1>5, <2>1 DEF ExceptionRow
  <2>2. CASE row = [old EXCEPT !.status = "OPEN", !.resolution = "none", !.version = @ + 1]
    BY <1>5, <2>2 DEF ExceptionRow
  <2> QED BY <1>6, <2>1, <2>2
<1>8. exception[x].status # "none" => row.status # "none" /\ exception[x].version < row.version
  BY <1>4, <1>7
<1>9. /\ ExceptionsTyped' /\ ExceptionsClimb
      /\ exception'[x] = row /\ \A y \in ExceptionId \ {x} : exception'[y] = exception[y]
  BY <1>6, <1>7, <1>8, OneRowClimbs DEF RInv
<1>10. StayOpen
  BY <1>4, <1>7, <1>9 DEF StayOpen, Unresolved, SomeoneKnew
<1>11. /\ Frame(s) /\ MoneyTyped' /\ AllocatedOnce' /\ CreditedOnce' /\ ProposalsFit'
       /\ key' \in [Key -> {"free", "inserted", "COMPLETED"}] /\ purged' = purged
  BY <1>2, <1>9, <1>10, PersonWrites
<1>12. ReversalIsAnswered'
  <2>1. \A y \in Blocking : y \in Blocking'
    BY <1>4, <1>7, <1>9 DEF Blocking, Unresolved
  <2>2. \A y \in ExceptionId : exception'[y].knew = exception[y].knew
    BY <1>4, <1>7, <1>9
  <2> QED BY <1>2, <2>1, <2>2 DEF RInv, ReversalIsAnswered
<1>13. RequestsTyped' /\ ShownIsSeen'
  BY <1>9, <1>11, RequestsStand DEF Frame
<1>14. SessionsTyped' /\ Alone'
  BY <1>2 DEF RInv, SessionsTyped, Alone, Locked, Holding
<1>15. ASSUME NEW t \in Session PROVE Doing(t)' /\ Stands(t)'
  <2>1. Doing(t) /\ Stands(t)
    BY DEF RInv
  <2>2. Doing(t)'
    BY <1>2, <2>1 DEF Doing, Holding, At, Seen
  <2>3. Stands(t)'
    BY <1>2, <1>10, <2>1 DEF Stands, At, StayOpen
  <2> QED BY <2>2, <2>3
<1> QED
  BY <1>9, <1>11, <1>12, <1>13, <1>14, <1>15 DEF RInv

(* A reversal of the provider ends what was active, once, and is answered. *)
LEMMA CommitReversalRInv ==
  ASSUME RInv, NEW s \in Session, CommitReversal(s)
  PROVE  RInv'
<1> DEFINE gone == {a \in session[s].unwound : allocs[a].active}
           cents(c) == SumFunctionOnSet([a \in DOMAIN allocs |-> allocs[a].cents],
                                        {a \in gone : allocs[a].charge = c})
           total(c) == Max({0, session[s].rows[c].allocated - cents(c)})
<1>1. /\ At(s, "reversing") /\ Go(s, Idle)
      /\ allocs' = [a \in DOMAIN allocs |-> [allocs[a] EXCEPT !.active = @ /\ a \notin gone]]
      /\ reversals' = [a \in DOMAIN allocs |-> reversals[a] + (IF a \in gone THEN 1 ELSE 0)]
      /\ charge' = [c \in Charge |->
             IF \E a \in gone : allocs[a].charge = c
             THEN [charge[c] EXCEPT !.allocated = total(c), !.version = @ + 1]
             ELSE charge[c]]
      /\ pay' = [allocated |-> 0, reversed |-> TRUE, version |-> pay.version + 1]
      /\ OpenOrUpdate(session[s].found, "REVERSED_PAYMENT", Evidence)
      /\ UNCHANGED <<credits, suggestion, key, request, purged>>
  BY DEF CommitReversal, boundVars
<1>2. /\ Doing(s) /\ Stands(s) /\ session[s].found \in 0 .. MaxExceptions
      /\ session[s].unwound \subseteq DOMAIN allocs /\ session[s].rows \in [Charge -> ChargeRow]
  BY <1>1 DEF RInv, Doing, At
<1>3. /\ pay \in PayRow /\ charge \in [Charge -> ChargeRow]
      /\ allocs \in Seq(AllocRow) /\ reversals \in Seq(Nat) /\ Len(reversals) = Len(allocs)
      /\ Len(allocs) \in Nat /\ DOMAIN allocs = 1 .. Len(allocs) /\ DOMAIN reversals = 1 .. Len(allocs)
      /\ \A a \in DOMAIN allocs : allocs[a] \in AllocRow /\ reversals[a] \in Nat
  BY LenProperties DEF RInv, MoneyTyped
<1>4. gone \subseteq DOMAIN allocs
  BY <1>2
<1>5. ASSUME NEW c \in Charge PROVE total(c) \in Int
  <2>1. IsFiniteSet(DOMAIN allocs)
    BY <1>3, FS_Interval
  <2>2. {a \in gone : allocs[a].charge = c} \subseteq DOMAIN allocs
    BY <1>4
  <2>3. IsFiniteSet({a \in gone : allocs[a].charge = c})
    BY <2>1, <2>2, FS_Subset
  <2>4. \A a \in {a \in gone : allocs[a].charge = c} : [b \in DOMAIN allocs |-> allocs[b].cents][a] \in Int
    BY <1>3, <2>2 DEF AllocRow
  <2>5. cents(c) \in Int
    <3> HIDE DEF gone
    <3> QED BY <2>3, <2>4, SumInt
  <2>6. session[s].rows[c].allocated \in Int
    BY <1>2 DEF ChargeRow
  <2> HIDE DEF cents
  <2>7. PICK d \in Int : d = session[s].rows[c].allocated - cents(c)
    BY <2>5, <2>6
  <2>8. Max({0, d}) \in Int
    <3>1. 0 \in Int /\ d \in Int
      OBVIOUS
    <3>2. Max({0, d}) \in {0, d}
      BY <3>1, OfTwo
    <3> QED BY <3>1, <3>2
  <2> QED BY <2>7, <2>8
<1> HIDE DEF gone, total
<1>6. /\ allocs' \in Seq(AllocRow) /\ Len(allocs') = Len(allocs) /\ DOMAIN allocs' = DOMAIN allocs
      /\ \A a \in DOMAIN allocs : /\ allocs'[a].by = allocs[a].by
                                  /\ allocs'[a].active <=> allocs[a].active /\ a \notin gone
  <2>1. \A a \in DOMAIN allocs : allocs'[a] \in AllocRow
    <3> SUFFICES ASSUME NEW a \in DOMAIN allocs PROVE allocs'[a] \in AllocRow
      OBVIOUS
    <3>1. PICK on \in BOOLEAN : on = (allocs[a].active /\ a \notin gone)
      OBVIOUS
    <3>2. allocs'[a] = [allocs[a] EXCEPT !.active = on]
      BY <1>1, <3>1
    <3> QED BY <1>3, <3>2 DEF AllocRow
  <2>2. allocs' \in [1 .. Len(allocs) -> AllocRow]
    BY <1>1, <1>3, <2>1
  <2>3. \A a \in DOMAIN allocs : /\ allocs'[a].by = allocs[a].by
                                 /\ allocs'[a].active <=> allocs[a].active /\ a \notin gone
    BY <1>1, <1>3 DEF AllocRow
  <2> QED BY <1>3, <2>2, <2>3, RowsAreSeq
<1>7. /\ reversals' \in Seq(Nat) /\ Len(reversals') = Len(allocs')
      /\ \A a \in DOMAIN allocs : reversals'[a] = reversals[a] + (IF a \in gone THEN 1 ELSE 0)
  <2>1. \A a \in DOMAIN allocs : reversals'[a] = reversals[a] + (IF a \in gone THEN 1 ELSE 0)
    BY <1>1
  <2>2. \A a \in DOMAIN allocs : reversals'[a] \in Nat
    BY <1>3, <2>1
  <2>3. reversals' \in [1 .. Len(allocs) -> Nat]
    <3>1. DOMAIN reversals' = 1 .. Len(allocs) /\ reversals' = [a \in 1 .. Len(allocs) |-> reversals'[a]]
      BY <1>1, <1>3
    <3> QED BY <1>3, <2>2, <3>1
  <2>4. reversals' \in Seq(Nat) /\ Len(reversals') = Len(allocs)
    BY <1>3, <2>3, RowsAreSeq
  <2> QED BY <1>6, <2>1, <2>4
<1>8. ASSUME NEW c \in Charge
      PROVE  /\ charge'[c] \in ChargeRow
             /\ charge'[c] = charge[c] \/ charge[c].version < charge'[c].version
  <2>1. charge[c] \in ChargeRow /\ total(c) \in Int
    BY <1>3, <1>5
  <2>2. CASE charge'[c] = charge[c]
    BY <2>1, <2>2
  <2>3. CASE charge'[c] = [charge[c] EXCEPT !.allocated = total(c), !.version = @ + 1]
    <3>1. charge[c].version \in Nat /\ charge[c].version + 1 \in Nat
      BY <2>1 DEF ChargeRow
    <3>2. charge'[c] \in ChargeRow /\ charge'[c].version = charge[c].version + 1
      BY <2>1, <2>3, <3>1 DEF ChargeRow
    <3> QED BY <3>1, <3>2
  <2> QED BY <1>1, <2>2, <2>3
<1>9. pay' \in PayRow /\ pay.version < pay'.version
  <2>1. pay.version \in Nat /\ pay.version + 1 \in Nat
    BY <1>3 DEF PayRow
  <2>2. pay'.version = pay.version + 1
    BY <1>1
  <2>3. pay' = [allocated |-> 0, reversed |-> TRUE, version |-> pay.version + 1]
    BY <1>1
  <2>4. pay' \in PayRow
    BY <2>1, <2>3 DEF PayRow
  <2> QED BY <2>1, <2>2, <2>4
<1>10. VersionsClimb
  BY <1>8, <1>9 DEF VersionsClimb
<1>11. MoneyTyped'
  <2>1. charge' \in [Charge -> ChargeRow]
    BY <1>1, <1>8
  <2> QED BY <1>1, <1>6, <1>7, <1>9, <2>1 DEF RInv, MoneyTyped
<1>12. PICK x \in 0 .. MaxExceptions : x = session[s].found
  BY <1>2
<1>13. PICK c \in Category : c = "REVERSED_PAYMENT"
  BY DEF Category
<1>14. PICK e : e = Evidence
  OBVIOUS
<1>15. /\ ExceptionsTyped' /\ ExceptionsClimb /\ StayOpen
       /\ \A y \in ExceptionId : exception'[y].knew = exception[y].knew
       /\ x = 0 \/ x \in Unresolved => \E y \in Unresolved' : exception'[y].category = c
  <2>1. OpenOrUpdate(x, c, e)
    BY <1>1, <1>12, <1>13, <1>14
  <2> QED BY <2>1, OpenOrUpdateKeeps DEF RInv
<1>16. ReversalIsAnswered'
  <2>1. CASE x = 0 \/ x \in Unresolved
    <3>1. PICK y \in Unresolved' : exception'[y].category = c
      BY <1>15, <2>1
    <3>2. y \in Blocking'
      BY <1>13, <3>1 DEF Blocking, isBlockingCategory
    <3> QED BY <3>2 DEF ReversalIsAnswered
  <2>2. CASE SomeoneKnew
    BY <1>15, <2>2 DEF SomeoneKnew, ReversalIsAnswered
  <2> QED BY <1>1, <1>2, <1>12, <2>1, <2>2 DEF Stands
<1>17. Frame(s)
  <2>1. Locked(s)
    BY <1>1 DEF At, Locked
  <2> QED BY <1>1, <1>6, <1>10, <1>15, <2>1 DEF Frame
<1>18. AllocatedOnce'
  <2>1. ASSUME NEW a \in DOMAIN allocs
        PROVE  /\ allocs[a].by \in DOMAIN request
               /\ request[allocs[a].by].seen < pay'.version
               /\ reversals'[a] = IF allocs'[a].active THEN 0 ELSE 1
    <3>1. /\ allocs[a].by \in DOMAIN request /\ request[allocs[a].by].seen < pay.version
          /\ reversals[a] = IF allocs[a].active THEN 0 ELSE 1
      BY DEF RInv, AllocatedOnce
    <3>2. request[allocs[a].by].seen \in Nat /\ pay.version \in Nat /\ pay'.version \in Nat
      BY <1>3, <1>9, <3>1, Requests, RequestKinds DEF RInv, PayRow
    <3>3. request[allocs[a].by].seen < pay'.version
      BY <1>9, <3>1, <3>2
    <3>4. a \in gone => allocs[a].active
      BY DEF gone
    <3>5. reversals'[a] = IF allocs'[a].active THEN 0 ELSE 1
      BY <1>6, <1>7, <3>1, <3>4
    <3> QED BY <3>1, <3>3, <3>5
  <2>2. \A a, b \in DOMAIN allocs : a # b => request[allocs[a].by].seen # request[allocs[b].by].seen
    BY DEF RInv, AllocatedOnce
  <2>3. DOMAIN allocs' = DOMAIN allocs /\ \A a \in DOMAIN allocs : allocs'[a].by = allocs[a].by
    BY <1>6
  <2>4. request' = request
    BY <1>1
  <2> QED BY <2>1, <2>2, <2>3, <2>4 DEF AllocatedOnce
<1>19. CreditedOnce'
  BY <1>1 DEF RInv, CreditedOnce
<1>20. ProposalsFit'
  BY <1>1, <1>10, <1>11, ProposalsStand
<1>21. key' \in [Key -> {"free", "inserted", "COMPLETED"}] /\ purged' = purged
  BY <1>1 DEF RInv, SessionsTyped
<1> QED
  BY <1>1, <1>11, <1>15, <1>16, <1>17, <1>18, <1>19, <1>20, <1>21, FinishRInv

----------------------------------------------------------------------------
(* Every step keeps the invariant. *)
LEMMA NextRInv == RInv /\ [Next]_vars => RInv'
<1> SUFFICES ASSUME RInv, [Next]_vars PROVE RInv'
  OBVIOUS
<1>1. CASE SendApprove \/ SendReverse \/ SendCredit \/ SendResolve \/ SendAssign \/ SendReopen
  BY <1>1, SendsRInv
<1>2. CASE PurgeKey
  BY <1>2, PurgeRInv
<1>3. ASSUME NEW s \in Session, Serve(s) PROVE RInv'
  <2>1. CASE Begin(s)
    BY <2>1, BeginRInv
  <2>2. CASE EnterApprove(s) \/ EnterReverse(s) \/ EnterCredit(s)
    BY <2>2, EntersRInv
  <2>3. CASE CommitApprove(s)
    BY <2>3, CommitApproveRInv
  <2>4. CASE CommitReverse(s)
    BY <2>4, CommitReverseRInv
  <2>5. CASE CommitCredit(s)
    BY <2>5, CommitCreditRInv
  <2>6. CASE Abort(s)
    BY <2>6, AbortRInv
  <2>7. CASE \/ LookReversal(s) \/ EnterReversal(s) \/ FindConflict(s)
             \/ ReadPayment(s) \/ ReadCharges(s) \/ LoadResolve(s)
    BY <2>7, ReadsRInv
  <2>8. CASE CommitReversal(s)
    BY <2>8, CommitReversalRInv
  <2>9. CASE WriteConflict(s)
    BY <2>9, WriteConflictRInv
  <2>10. CASE Store(s)
    BY <2>10, StoreRInv
  <2>11. CASE CommitResolve(s)
    BY <2>11, CommitResolveRInv
  <2>12. CASE Assign(s) \/ Reopen(s)
    BY <2>12, AssignReopenRInv
  <2> QED
    BY <1>3, <2>1, <2>2, <2>3, <2>4, <2>5, <2>6, <2>7, <2>8, <2>9, <2>10, <2>11, <2>12 DEF Serve, Mutate
<1>4. CASE UNCHANGED vars
  <2>1. UNCHANGED <<pay, charge, allocs, reversals, credits, suggestion, exception, key, request,
                    session, purged>>
    BY <1>4 DEF vars, moneyVars, boundVars
  <2>2. MoneyTyped' /\ ExceptionsTyped' /\ RequestsTyped' /\ SessionsTyped'
    BY <2>1 DEF RInv, MoneyTyped, ExceptionsTyped, RequestsTyped, SessionsTyped, Named
  <2>3. \A s \in Session : Doing(s)' /\ Stands(s)'
    BY <2>1 DEF RInv, Doing, Stands, Holding, At, Seen, Unresolved, SomeoneKnew
  <2>4. Alone' /\ AllocatedOnce' /\ CreditedOnce' /\ ProposalsFit' /\ ShownIsSeen' /\ ReversalIsAnswered'
    BY <2>1 DEF RInv, Alone, Locked, Holding, AllocatedOnce, CreditedOnce, ProposalsFit, ShownIsSeen,
                ReversalIsAnswered, Unapplied, Open, Blocking, Unresolved
  <2> QED BY <2>2, <2>3, <2>4 DEF RInv
<1> QED
  BY <1>1, <1>2, <1>3, <1>4 DEF Next

(* The invariant holds in every state of every behaviour. *)
LEMMA AlwaysRInv == Spec => []RInv
<1> QED
  BY InitRInv, NextRInv, PTL DEF Spec

(* However often a request is repeated, in parallel or after its key was    *)
(* purged, an approval allocates once, an allocation is reversed once by    *)
(* accountants and provider together, and a credit is given once as long as *)
(* the record of its key is kept (audit.ts, allocations.service.ts).        *)
THEOREM RepeatedRequestsWorkOnce == Spec => []EachRequestOnce
<1>1. RInv => EachRequestOnce
  <2> SUFFICES ASSUME RInv PROVE EachRequestOnce
    OBVIOUS
  <2>1. DOMAIN reversals = DOMAIN allocs
    BY LenProperties DEF RInv, MoneyTyped
  <2>2. \A a \in DOMAIN allocs : reversals[a] <= 1
    BY DEF RInv, AllocatedOnce
  <2> QED BY <2>1, <2>2 DEF RInv, AllocatedOnce, CreditedOnce, EachRequestOnce
<1> QED
  BY <1>1, AlwaysRInv, PTL

(* What a page offers to approve fits the payment and the charge, though    *)
(* the engine read their rows one after the other without a lock            *)
(* (suggestions.service.ts, isSuggestionStale).                             *)
THEOREM OfferedProposalsFit == Spec => []FreshProposalsFit
<1>1. RInv => FreshProposalsFit
  <2> SUFFICES ASSUME RInv, NEW f \in Fingerprint, Offered(f)
               PROVE  ~pay.reversed /\ f[2] <= Min({Unapplied, Open(f[1])})
    BY DEF FreshProposalsFit
  <2>1. /\ suggestion[f].status = "PROPOSED" /\ suggestion[f].payment = pay.version
        /\ suggestion[f].charge = charge[f[1]].version
    BY DEF Offered, IsStale
  <2>2. ~pay.reversed /\ f[2] <= Unapplied /\ f[2] <= Open(f[1])
    BY <2>1 DEF RInv, ProposalsFit
  <2>3. f[1] \in Charge
    BY FingerprintParts
  <2>4. Unapplied \in Int
    BY ReviewAssumption DEF RInv, MoneyTyped, PayRow, Unapplied
  <2>5. Open(f[1]) \in Int
    BY <2>3, ReviewAssumption DEF RInv, MoneyTyped, ChargeRow, Open
  <2>6. PICK a \in Int : a = Unapplied
    BY <2>4
  <2>7. PICK b \in Int : b = Open(f[1])
    BY <2>5
  <2>8. Min({a, b}) \in {a, b}
    BY OfTwo
  <2>9. Min({Unapplied, Open(f[1])}) \in {a, b}
    BY <2>6, <2>7, <2>8
  <2> QED BY <2>2, <2>6, <2>7, <2>9
<1> QED
  BY <1>1, AlwaysRInv, PTL

(* A reversed payment has an unresolved exception that blocks the close, or *)
(* a person resolved one after the reversal had looked for it               *)
(* (transactions.service.ts, exceptions.service.ts).                        *)
THEOREM ReversalsAreAnswered == Spec => []ReversalIsAnswered
<1>1. RInv => ReversalIsAnswered
  BY DEF RInv
<1> QED
  BY <1>1, AlwaysRInv, PTL

(* Who resolves an exception resolves the category its page showed, however *)
(* often workers wrote to the row in between (expectedVersion).             *)
THEOREM ResolutionsAreSeen == Spec => ResolvedAsSeen
<1> DEFINE AsSeen == \A x \in ExceptionId :
             /\ exception[x].status # "RESOLVED" /\ exception'[x].status = "RESOLVED"
             /\ exception'[x].resolvedBy # 0
             => request[exception'[x].resolvedBy].shown = exception[x].category
<1>1. RInv /\ [Next]_vars => [AsSeen]_vars
  <2> SUFFICES ASSUME RInv, Next, NEW x \in ExceptionId,
                      exception[x].status # "RESOLVED", exception'[x].status = "RESOLVED",
                      exception'[x].resolvedBy # 0
               PROVE  request[exception'[x].resolvedBy].shown = exception[x].category
    OBVIOUS
  <2>1. exception' # exception
    OBVIOUS
  <2>2. PICK s \in Session : \/ CommitApprove(s) \/ CommitReversal(s) \/ WriteConflict(s)
                             \/ CommitResolve(s) \/ Assign(s) \/ Reopen(s)
    <3>1. ~(\/ SendApprove \/ SendReverse \/ SendCredit
            \/ SendResolve \/ SendAssign \/ SendReopen \/ PurgeKey)
      BY <2>1 DEF SendApprove, SendReverse, SendCredit, SendResolve, SendAssign, SendReopen, PurgeKey, Send
    <3>2. PICK s \in Session : Serve(s)
      BY <3>1 DEF Next
    <3>3. ~(\/ Begin(s) \/ EnterApprove(s) \/ EnterReverse(s) \/ EnterCredit(s)
            \/ CommitReverse(s) \/ CommitCredit(s) \/ Abort(s))
      BY <2>1 DEF Begin, EnterApprove, EnterReverse, EnterCredit, Enter, CommitReverse, CommitCredit, Abort
    <3>4. ~(\/ LookReversal(s) \/ EnterReversal(s) \/ FindConflict(s)
            \/ ReadPayment(s) \/ ReadCharges(s) \/ Store(s) \/ LoadResolve(s))
      BY <2>1 DEF LookReversal, EnterReversal, FindConflict, ReadPayment, ReadCharges, Store, LoadResolve
    <3> QED BY <3>2, <3>3, <3>4 DEF Serve, Mutate
  <2>3. CASE CommitApprove(s)
    <3>1. session[s].found \in 0 .. MaxExceptions
      BY <2>3 DEF CommitApprove, Commit, RInv, Doing, At
    <3>2. PICK left : \E e : ReconcileAfterAllocation(session[s].found, left, e)
      BY <2>3 DEF CommitApprove
    <3>3. exception'[x].resolvedBy = 0
      BY <3>1, <3>2, Reconciled DEF RInv
    <3> QED BY <3>3
  <2>4. CASE CommitReversal(s) \/ WriteConflict(s)
    <3>1. session[s].found \in 0 .. MaxExceptions
      BY <2>4 DEF CommitReversal, WriteConflict, RInv, Doing, At
    <3>2. PICK c \in Category : \E e : OpenOrUpdate(session[s].found, c, e)
      BY <2>4 DEF CommitReversal, WriteConflict, Category
    <3>3. exception'[x].status \in {exception[x].status, "OPEN"}
      BY <3>1, <3>2, OpenOrUpdateKeeps DEF RInv
    <3> QED BY <3>3
  <2>5. CASE Assign(s) \/ Reopen(s)
    <3>1. PICK y : \/ \E v : AssignAt(y, v, "ASSIGNED")
                   \/ \E v : ReopenAt(y, v)
      BY <2>5 DEF Assign, Reopen
    <3>2. exception = [z \in ExceptionId |-> exception[z]] /\ ExceptionRow(exception[x])
      BY DEF RInv, ExceptionsTyped
    <3>3. CASE \E v : AssignAt(y, v, "ASSIGNED")
      <4>1. /\ DOMAIN exception = ExceptionId
            /\ exception' = [exception EXCEPT ![y].status = "ASSIGNED", ![y].version = @ + 1]
        BY <3>2, <3>3 DEF AssignAt
      <4>2. x # y => exception'[x] = exception[x]
        BY <4>1
      <4>3. x = y => exception'[x] = [exception[x] EXCEPT !.status = "ASSIGNED", !.version = @ + 1]
        BY <4>1
      <4> QED BY <3>2, <4>2, <4>3 DEF ExceptionRow
    <3>4. CASE \E v : ReopenAt(y, v)
      <4>1. /\ DOMAIN exception = ExceptionId
            /\ exception' = [exception EXCEPT ![y].status = "OPEN", ![y].resolution = "none",
                                             ![y].version = @ + 1]
        BY <3>2, <3>4 DEF ReopenAt
      <4>2. x # y => exception'[x] = exception[x]
        BY <4>1
      <4>3. x = y => exception'[x] = [exception[x] EXCEPT !.status = "OPEN", !.resolution = "none",
                                                          !.version = @ + 1]
        BY <4>1
      <4> QED BY <3>2, <4>2, <4>3 DEF ExceptionRow
    <3> QED BY <3>1, <3>3, <3>4
  <2>6. CASE CommitResolve(s)
    <3>1. PICK i : i = session[s].i
      OBVIOUS
    <3>2. PICK knew : knew = (pay.reversed \/ \E t \in Session: At(t, "reversing"))
      OBVIOUS
    <3>3. ResolveAt(request[i].what, request[i].seen, request[i].as, i, knew)
      BY <2>6, <3>1, <3>2 DEF CommitResolve
    <3>4. i \in DOMAIN request /\ request[i].op = "resolve"
      BY <2>6, <3>1 DEF CommitResolve, RInv, Doing, At
    <3>5. exception = [z \in ExceptionId |-> exception[z]] /\ ExceptionRow(exception[x])
      BY DEF RInv, ExceptionsTyped
    <3>6. /\ request[i].what = x /\ exception[x].version = request[i].seen
          /\ exception'[x] = Resolved(exception[x], request[i].as, i, knew)
      BY <3>3, <3>5 DEF ResolveAt, AtVersion
    <3>7. exception'[x].resolvedBy = i
      BY <3>5, <3>6 DEF Resolved, ExceptionRow
    <3>8. request[i].shown = exception[x].category
      BY <3>4, <3>6 DEF RInv, ShownIsSeen
    <3> QED BY <3>7, <3>8
  <2> QED BY <2>2, <2>3, <2>4, <2>5, <2>6
<1> QED
  BY <1>1, AlwaysRInv, PTL DEF Spec, ResolvedAsSeen

-----------------------------------------------------------------------------
(* Matching.  The search is a recursive function: it exists, and what it   *)
(* finds is proved from the last charge back.  A state of it knows which   *)
(* combinations it still tries, and that what it has found comes before    *)
(* them; each charge taken or passed over loses none.                      *)
CONSTANTS DueDate, PeriodOf, Tenant, ReferencesOf, NameTokens, PostedDate, Books,
          CombinationSize, SearchLimit, CandidateLimit
VARIABLES book, proposals, fresh, category
Match == INSTANCE Matching

(* Matching counts and adds as this module does.                           *)
LEMMA SameMatch ==
  /\ \A X: Match!Cardinality(X) = Cardinality(X)
  /\ \A b, cs: Match!SumOpen(b, cs) = SumFunctionOnSet(b.open, cs)
  /\ \A lines: Match!Allocated(lines) = SumFunctionOnSet(lines, DOMAIN lines)
<1>1. ASSUME NEW X PROVE Match!Cardinality(X) = Cardinality(X)
  BY DEF Match!Cardinality, Cardinality
<1>2. ASSUME NEW f, NEW S PROVE Match!SumFunctionOnSet(f, S) = SumFunctionOnSet(f, S)
  BY DEF Match!SumFunctionOnSet, Match!FoldFunctionOnSet, Match!MapThenFoldSet,
         SumFunctionOnSet, FoldFunctionOnSet, MapThenFoldSet
<1> QED BY <1>1, <1>2 DEF Match!SumOpen, Match!Allocated, Match!SumFunction

(* The loop of the search from charge i on, given the one from the next.   *)
LoopAt(g, b, pool, i) ==
  [s \in Match!SearchState |->
     IF i > Len(DueDate) THEN s.best
     ELSE IF i \notin pool \/ b.open[i] > s.remaining THEN g[i + 1][s]
     ELSE g[i + 1][[s EXCEPT !.best = Match!Entered(Match!With(s, i, b.open[i]), g[i + 1])]]]
IsLoop(g, b, pool, m) == g = [i \in m .. Len(DueDate) + 1 |-> LoopAt(g, b, pool, i)]

(* The loop from a charge depends on that from the next charge alone.      *)
LEMMA LoopsAgree ==
  ASSUME Match!MatchingAssumption, NEW b, NEW pool, NEW g, NEW h, NEW i \in Nat,
         i <= Len(DueDate) => g[i + 1] = h[i + 1]
  PROVE  LoopAt(g, b, pool, i) = LoopAt(h, b, pool, i)
<1>1. Len(DueDate) \in Nat
  BY DEF Match!MatchingAssumption
<1>2. CASE i <= Len(DueDate)
  BY <1>2 DEF LoopAt
<1>3. CASE i > Len(DueDate)
  BY <1>3 DEF LoopAt
<1> QED BY <1>1, <1>2, <1>3

(* The recursive function of the search exists: the counterexample that    *)
(* begins latest would have one after it to be made from.                  *)
LEMMA LoopExists ==
  ASSUME Match!MatchingAssumption, NEW b, NEW pool
  PROVE  \E g: IsLoop(g, b, pool, 1)
<1> DEFINE n == Len(DueDate)
           T == {k \in Nat: k <= n /\ ~ \E g: IsLoop(g, b, pool, n + 1 - k)}
<1>1. n \in Nat
  BY DEF Match!MatchingAssumption
<1> HIDE DEF n
<1>2. SUFFICES ASSUME T # {} PROVE FALSE
  <2>1. n \in Nat /\ n <= n /\ n + 1 - n = 1
    BY <1>1
  <2> QED BY <1>2, <2>1
<1>3. PICK k \in T: \A j \in T: k <= j
  <2>1. T \subseteq Nat
    OBVIOUS
  <2> HIDE DEF T
  <2> QED BY <1>2, <2>1, LeastNat
<1>4. k \in Nat /\ k <= n /\ ~ \E g: IsLoop(g, b, pool, n + 1 - k)
  BY <1>3
<1> DEFINE m == n + 1 - k
<1>5. m \in 1 .. n + 1
  BY <1>1, <1>4
<1>6. \E g: IsLoop(g, b, pool, m + 1)
  <2>1. CASE k = 0
    <3>1. (m + 1) .. n + 1 = {}
      BY <1>1, <2>1
    <3> DEFINE e == [i \in (m + 1) .. n + 1 |-> 0]
    <3>2. e = [i \in (m + 1) .. n + 1 |-> LoopAt(e, b, pool, i)]
      BY <3>1
    <3>3. IsLoop(e, b, pool, m + 1)
      BY <3>2 DEF IsLoop, n
    <3> QED BY <3>3
  <2>2. CASE k # 0
    <3>1. k - 1 \in Nat /\ k - 1 <= n /\ ~ k <= k - 1 /\ n + 1 - (k - 1) = m + 1
      BY <1>1, <1>4, <2>2
    <3> QED BY <1>3, <3>1
  <2> QED BY <2>1, <2>2
<1>7. PICK g: IsLoop(g, b, pool, m + 1)
  BY <1>6
<1> DEFINE h == [i \in m .. n + 1 |-> IF i = m THEN LoopAt(g, b, pool, m) ELSE g[i]]
<1>8. \A i \in m .. n + 1: h[i] = LoopAt(h, b, pool, i)
  <2>1. SUFFICES ASSUME NEW i \in m .. n + 1 PROVE h[i] = LoopAt(h, b, pool, i)
    OBVIOUS
  <2>2. i <= n => h[i + 1] = g[i + 1]
    BY <1>1, <1>5, <2>1
  <2>3. i \in Nat
    BY <1>1, <1>5, <2>1
  <2>4. LoopAt(h, b, pool, i) = LoopAt(g, b, pool, i)
    <3> HIDE DEF h
    <3> QED BY <2>2, <2>3, LoopsAgree DEF n
  <2>5. i # m => g[i] = LoopAt(g, b, pool, i)
    <3>1. i # m => i \in (m + 1) .. n + 1
      BY <1>1, <1>5, <2>1
    <3> HIDE DEF m
    <3> QED BY <1>7, <3>1 DEF IsLoop, n
  <2>6. h[i] = IF i = m THEN LoopAt(g, b, pool, m) ELSE g[i]
    OBVIOUS
  <2> HIDE DEF h, m
  <2> QED BY <2>4, <2>5, <2>6
<1>9. IsLoop(h, b, pool, m)
  <2>1. h = [i \in m .. n + 1 |-> h[i]]
    OBVIOUS
  <2>2. h = [i \in m .. n + 1 |-> LoopAt(h, b, pool, i)]
    <3> HIDE DEF h, m
    <3> QED BY <1>8, <2>1
  <2> HIDE DEF h, m
  <2> QED BY <2>2 DEF IsLoop, n
<1> QED BY <1>4, <1>9

----------------------------------------------------------------------------
(* What the search finds.  b: a book; pool: charges with something open.   *)

Pool(b, pool) == Match!BookFits(b) /\ pool \subseteq Match!Charge /\ \A c \in pool: b.open[c] > 0

(* A combination that comes to the payment and is small enough.            *)
Comes(b, pool, x) ==
  /\ x \subseteq pool /\ x # {} /\ Match!SumOpen(b, x) = b.left
  /\ Cardinality(x) <= CombinationSize
Below(x, i) == {c \in x: c < i}
(* The combinations a loop from charge i on tries, with those it has.      *)
Tried(b, pool, s, i) ==
  {x \in SUBSET pool: Comes(b, pool, x) /\ Below(x, i) = s.current}

(* A state of the search at charge i: what is tried lies before i, what    *)
(* remains is the rest, and what was found before comes first.             *)
Searching(b, pool, s, i) ==
  /\ s \in Match!SearchState /\ s.current \subseteq Below(pool, i)
  /\ s.remaining + Match!SumOpen(b, s.current) = b.left
  /\ Cardinality(s.current) <= CombinationSize
  /\ s.best # {} => /\ Comes(b, pool, s.best)
                    /\ \A x \in Tried(b, pool, s, i): Match!NoLater(s.best, x)

(* The loop is run only when something more is to be tried.                *)
Trying(s) ==
  (s.remaining # 0 \/ s.current = {}) /\ Cardinality(s.current) < CombinationSize

(* The result r of a search from state s at charge i.                      *)
Found(b, pool, s, i, r) ==
  /\ r = s.best \/ (Comes(b, pool, r) /\ Below(r, i) = s.current)
  /\ s.best # {} => r # {} /\ (r = s.best \/ Cardinality(r) < Cardinality(s.best))
  /\ \A x \in Tried(b, pool, s, i): r # {} /\ Match!Preferred(r, x)

(* Charges are finitely many, and their sums are numbers.                  *)
LEMMA PoolFacts ==
  ASSUME Match!MatchingAssumption, NEW b, NEW pool, Pool(b, pool)
  PROVE  /\ Len(DueDate) \in Nat /\ CombinationSize \in Nat
         /\ Match!Charge = 1 .. Len(DueDate) /\ IsFiniteSet(Match!Charge)
         /\ \A x \in SUBSET Match!Charge:
              IsFiniteSet(x) /\ Cardinality(x) \in Nat /\ Match!SumOpen(b, x) \in Nat
         /\ \A c \in Match!Charge: b.open[c] \in Nat
<1>1. Len(DueDate) \in Nat /\ Match!Charge = 1 .. Len(DueDate) /\ CombinationSize \in Nat
  BY DEF Match!MatchingAssumption, Match!Charge
<1>2. IsFiniteSet(Match!Charge)
  BY <1>1, FS_Interval
<1>3. \A c \in Match!Charge: b.open[c] \in Nat
  BY DEF Pool, Match!BookFits
<1>4. ASSUME NEW x \in SUBSET Match!Charge
      PROVE  IsFiniteSet(x) /\ Cardinality(x) \in Nat /\ Match!SumOpen(b, x) \in Nat
  <2>1. IsFiniteSet(x)
    BY <1>2, FS_Subset
  <2>2. \A c \in x: b.open[c] \in Nat
    BY <1>3
  <2>3. SumFunctionOnSet(b.open, x) \in Nat
    BY <2>1, <2>2, SumNat
  <2> QED BY <2>1, <2>3, FS_CardinalityType, SameMatch
<1> QED BY <1>1, <1>2, <1>3, <1>4

(* A combination within another that comes to the same is the same.        *)
LEMMA SameSumSameSet ==
  ASSUME Match!MatchingAssumption, NEW b, NEW pool, Pool(b, pool),
         NEW x \in SUBSET pool, NEW y \in SUBSET x,
         Match!SumOpen(b, x) = Match!SumOpen(b, y)
  PROVE  x = y
<1>1. SUFFICES ASSUME NEW c \in x, c \notin y PROVE FALSE
  OBVIOUS
<1>2. x \subseteq Match!Charge /\ c \in Match!Charge /\ b.open[c] > 0 /\ b.open[c] \in Nat
  BY <1>1, PoolFacts DEF Pool
<1>3. IsFiniteSet(x) /\ (\A d \in x: b.open[d] \in Nat) /\ x \ {c} \in SUBSET x
  BY <1>2, PoolFacts
<1>4. SumFunctionOnSet(b.open, x) = b.open[c] + SumFunctionOnSet(b.open, x \ {c})
  BY <1>1, <1>3, SumTakeOut
<1>5. y \in SUBSET (x \ {c}) /\ IsFiniteSet(x \ {c})
  BY <1>1, <1>3, FS_Subset
<1>6. SumFunctionOnSet(b.open, y) <= SumFunctionOnSet(b.open, x \ {c})
  BY <1>3, <1>5, SumPart
<1>7. SumFunctionOnSet(b.open, y) \in Nat /\ SumFunctionOnSet(b.open, x \ {c}) \in Nat
  BY <1>3, <1>5, FS_Subset, SumNat
<1> QED BY <1>2, <1>4, <1>6, <1>7, SameMatch

(* A smaller set within a finite set is the set only when it is as large.  *)
LEMMA PartIsSmaller ==
  ASSUME NEW x, IsFiniteSet(x), NEW y \in SUBSET x, y # x
  PROVE  Cardinality(y) + 1 <= Cardinality(x) /\ Cardinality(y) \in Nat /\ Cardinality(x) \in Nat
<1>1. IsFiniteSet(y)
  BY FS_Subset
<1>2. Cardinality(y) \in Nat /\ Cardinality(x) \in Nat
  BY <1>1, FS_CardinalityType
<1> QED BY <1>1, <1>2, FS_Subset

(* Entering a search does what its loop does, or has nothing to try but    *)
(* what it has.                                                            *)
LEMMA EnteredFinds ==
  ASSUME Match!MatchingAssumption, NEW b, NEW pool, Pool(b, pool),
         NEW i \in 1 .. Len(DueDate) + 1, NEW s, NEW loop, Searching(b, pool, s, i),
         Trying(s) => Found(b, pool, s, i, loop[s])
  PROVE  Found(b, pool, s, i, Match!Entered(s, loop))
<1> DEFINE size == Cardinality(s.current)
           r == Match!Entered(s, loop)
<1>1. /\ s.current \subseteq pool /\ s.current \subseteq Match!Charge /\ s.best \subseteq Match!Charge
      /\ size \in Nat /\ Cardinality(s.best) \in Nat /\ s.remaining \in Nat
      /\ b.left \in Nat /\ Match!SumOpen(b, s.current) \in Nat /\ CombinationSize \in Nat
      /\ size <= CombinationSize
  BY PoolFacts DEF Searching, Match!SearchState, Below, Pool, Match!BookFits
<1>2. ASSUME NEW x \in Tried(b, pool, s, i)
      PROVE  /\ x \in SUBSET pool /\ s.current \in SUBSET x /\ x # {}
             /\ Match!SumOpen(b, x) = b.left
             /\ IsFiniteSet(x) /\ Cardinality(x) \in Nat /\ Cardinality(x) <= CombinationSize
  BY <1>2, PoolFacts DEF Tried, Comes, Below, Pool
<1>3. ASSUME NEW x \in Tried(b, pool, s, i), s.remaining # 0
      PROVE  size + 1 <= Cardinality(x)
  <2>1. x # s.current
    BY <1>1, <1>2, <1>3 DEF Searching
  <2> QED BY <1>1, <1>2, <2>1, PartIsSmaller
<1>4. CASE s.remaining = 0 /\ s.current # {}
  <2>1. Comes(b, pool, s.current) /\ Below(s.current, i) = s.current
    BY <1>1, <1>4 DEF Searching, Comes, Below
  <2>2. r = Match!Fewer(s.best, s.current)
    BY <1>4 DEF Match!Entered
  <2>3. ASSUME NEW x \in Tried(b, pool, s, i) PROVE x = s.current
    BY <1>1, <1>2, <1>4, <2>3, SameSumSameSet DEF Searching
  <2>4. s.current \in Tried(b, pool, s, i)
    BY <2>1 DEF Tried, Comes
  <2>5. CASE s.best = {} \/ size < Cardinality(s.best)
    <3>1. r = s.current
      BY <2>2, <2>5, SameMatch DEF Match!Fewer
    <3> QED BY <1>4, <2>1, <2>3, <2>5, <3>1 DEF Found, Match!Preferred, Match!NoLater
  <2>6. CASE s.best # {} /\ ~ size < Cardinality(s.best)
    <3>1. r = s.best
      BY <2>2, <2>6, SameMatch DEF Match!Fewer
    <3>2. Cardinality(s.best) < size \/ Cardinality(s.best) = size
      BY <1>1, <2>6
    <3>3. Match!NoLater(s.best, s.current)
      BY <2>4, <2>6 DEF Searching
    <3> QED BY <2>3, <2>6, <3>1, <3>2, <3>3, SameMatch DEF Found, Match!Preferred
  <2> QED BY <2>5, <2>6
<1>5. CASE ~ (s.remaining = 0 /\ s.current # {}) /\ size >= CombinationSize
  <2>1. r = s.best
    BY <1>5, SameMatch DEF Match!Entered
  <2>2. ASSUME NEW x \in Tried(b, pool, s, i) PROVE FALSE
    <3>1. Cardinality(x) <= size /\ s.current \in SUBSET x /\ IsFiniteSet(x) /\ size \in Nat
      BY <1>1, <1>2, <1>5, <2>2
    <3>2. x = s.current
      BY <1>2, <2>2, <3>1, PartIsSmaller
    <3>3. s.remaining = 0
      BY <1>1, <1>2, <2>2, <3>2 DEF Searching
    <3> QED BY <1>2, <1>5, <2>2, <3>2, <3>3
  <2> QED BY <2>1, <2>2 DEF Found
<1>6. CASE /\ ~ (s.remaining = 0 /\ s.current # {}) /\ ~ size >= CombinationSize
           /\ s.best # {} /\ size + 1 >= Cardinality(s.best)
  <2>1. r = s.best
    BY <1>6, SameMatch DEF Match!Entered
  <2>2. ASSUME NEW x \in Tried(b, pool, s, i) PROVE Match!Preferred(s.best, x)
    <3>1. size + 1 <= Cardinality(x)
      <4>1. s.remaining # 0 => size + 1 <= Cardinality(x)
        BY <1>3, <2>2
      <4>2. s.remaining = 0 => s.current = {} /\ x # s.current
        BY <1>2, <1>6, <2>2
      <4>3. x # s.current => size + 1 <= Cardinality(x)
        BY <1>2, <2>2, PartIsSmaller
      <4> QED BY <4>1, <4>2, <4>3
    <3>2. Cardinality(s.best) <= Cardinality(x)
      BY <1>1, <1>2, <1>6, <2>2, <3>1
    <3>3. Match!NoLater(s.best, x)
      BY <1>6, <2>2 DEF Searching
    <3> QED BY <1>1, <1>2, <2>2, <3>2, <3>3, SameMatch DEF Match!Preferred
  <2> QED BY <1>6, <2>1, <2>2 DEF Found
<1>7. CASE /\ ~ (s.remaining = 0 /\ s.current # {}) /\ ~ size >= CombinationSize
           /\ ~ (s.best # {} /\ size + 1 >= Cardinality(s.best))
  <2>1. r = loop[s]
    BY <1>7, SameMatch DEF Match!Entered
  <2>2. Trying(s)
    BY <1>1, <1>7 DEF Trying
  <2> QED BY <2>1, <2>2
<1> QED BY <1>4, <1>5, <1>6, <1>7

(* Before the next charge lie those before this one, and this one.         *)
LEMMA BelowNext ==
  ASSUME Match!MatchingAssumption, NEW x \in SUBSET Match!Charge, NEW i \in 1 .. Len(DueDate)
  PROVE  /\ Below(x, i + 1) = Below(x, i) \cup (x \cap {i})
         /\ i \notin Below(x, i) /\ Below(x, i) \subseteq x
<1>1. Len(DueDate) \in Nat /\ Match!Charge = 1 .. Len(DueDate)
  BY DEF Match!MatchingAssumption, Match!Charge
<1>2. \A c \in x: c < i + 1 <=> (c < i \/ c = i)
  BY <1>1
<1>3. ~ (i < i)
  BY <1>1
<1> QED BY <1>2, <1>3 DEF Below

(* One charge more makes the difference.                                   *)
LEMMA OneMore ==
  ASSUME NEW x, NEW y, NEW z, NEW i, i \notin x, i \notin y
  PROVE  /\ (x \cup (z \cap {i}) = y \cup {i}) <=> (x = y /\ i \in z)
         /\ (x \cup (z \cap {i}) = y) <=> (x = y /\ i \notin z)
<1>1. ASSUME x \cup (z \cap {i}) = y \cup {i} PROVE x = y /\ i \in z
  <2>1. i \in z
    BY <1>1
  <2>2. ASSUME NEW c PROVE c \in x <=> c \in y
    BY <1>1
  <2> QED BY <2>1, <2>2
<1>2. ASSUME x \cup (z \cap {i}) = y PROVE x = y /\ i \notin z
  BY <1>2
<1> QED BY <1>1, <1>2

(* What is tried later was to be tried, and only passing over a charge     *)
(* that fits loses something.                                              *)
LEMMA TriedLater ==
  ASSUME Match!MatchingAssumption, NEW b, NEW pool, Pool(b, pool),
         NEW i \in 1 .. Len(DueDate), NEW s, Searching(b, pool, s, i)
  PROVE  /\ Tried(b, pool, s, i + 1) = {x \in Tried(b, pool, s, i): i \notin x}
         /\ \A x \in Tried(b, pool, s, i): i \in x => i \in pool /\ b.open[i] <= s.remaining
<1>1. Len(DueDate) \in Nat /\ Match!Charge = 1 .. Len(DueDate)
      /\ pool \subseteq Match!Charge /\ s.current \subseteq Below(pool, i) /\ s.remaining \in Nat
  BY PoolFacts DEF Searching, Pool, Match!SearchState
<1>2. \A x \in SUBSET pool: Below(x, i + 1) = Below(x, i) \cup (x \cap {i}) /\ i \notin Below(x, i)
  BY <1>1, BelowNext
<1>3. i \notin s.current
  BY <1>1, <1>2
<1>4. Tried(b, pool, s, i + 1) = {x \in Tried(b, pool, s, i): i \notin x}
  <2>1. \A x \in SUBSET pool: Below(x, i + 1) = s.current <=> (Below(x, i) = s.current /\ i \notin x)
    <3>1. SUFFICES ASSUME NEW x \in SUBSET pool
                   PROVE Below(x, i + 1) = s.current <=> (Below(x, i) = s.current /\ i \notin x)
      OBVIOUS
    <3>2. Below(x, i + 1) = Below(x, i) \cup (x \cap {i}) /\ i \notin Below(x, i)
      BY <1>2, <3>1
    <3> QED BY <1>3, <3>2
  <2> QED BY <2>1 DEF Tried
<1>5. ASSUME NEW x \in Tried(b, pool, s, i), i \in x
      PROVE  i \in pool /\ b.open[i] <= s.remaining
  <2>1. x \in SUBSET pool /\ Match!SumOpen(b, x) = b.left /\ s.current \subseteq x
    BY <1>5 DEF Tried, Comes, Below
  <2>2. x \in SUBSET Match!Charge /\ IsFiniteSet(x) /\ (\A c \in x: b.open[c] \in Nat)
    BY <1>1, <2>1, PoolFacts
  <2>3. SumFunctionOnSet(b.open, s.current \cup {i}) = b.open[i] + SumFunctionOnSet(b.open, s.current)
    <3>1. IsFiniteSet(s.current) /\ \A c \in s.current \cup {i}: b.open[c] \in Int
      <4>1. s.current \cup {i} \subseteq x
        BY <1>5, <2>1
      <4>2. IsFiniteSet(s.current)
        BY <2>1, <2>2, FS_Subset
      <4> QED BY <2>2, <4>1, <4>2
    <3> QED BY <1>3, <3>1, SumAdd
  <2>4. SumFunctionOnSet(b.open, s.current \cup {i}) <= SumFunctionOnSet(b.open, x)
    <3>1. s.current \cup {i} \in SUBSET x
      BY <1>5, <2>1
    <3> QED BY <2>2, <3>1, SumPart
  <2>5. s.remaining + SumFunctionOnSet(b.open, s.current) = SumFunctionOnSet(b.open, x)
    BY <2>1, SameMatch DEF Searching
  <2>6. SumFunctionOnSet(b.open, s.current) \in Nat /\ b.open[i] \in Nat /\ i \in pool
    BY <1>5, <2>1, <2>2, FS_Subset, SumNat
  <2> QED BY <1>1, <2>3, <2>4, <2>5, <2>6
<1> QED BY <1>4, <1>5

(* Taking a charge is a state of the search from the next one on.          *)
LEMMA TakenSearches ==
  ASSUME Match!MatchingAssumption, NEW b, NEW pool, Pool(b, pool),
         NEW i \in 1 .. Len(DueDate), NEW s, Searching(b, pool, s, i), Trying(s),
         i \in pool, b.open[i] <= s.remaining,
         NEW d, d = Match!With(s, i, b.open[i])
  PROVE  /\ Searching(b, pool, d, i + 1) /\ d.best = s.best /\ d.current = s.current \cup {i}
         /\ Tried(b, pool, d, i + 1) = {x \in Tried(b, pool, s, i): i \in x}
<1>1. Len(DueDate) \in Nat /\ Match!Charge = 1 .. Len(DueDate) /\ CombinationSize \in Nat
      /\ pool \subseteq Match!Charge /\ s.current \subseteq Below(pool, i) /\ s.remaining \in Nat
      /\ s \in Match!SearchState /\ b.open[i] \in Nat
  BY PoolFacts DEF Searching, Pool, Match!SearchState
<1>2. d \in Match!SearchState /\ d.best = s.best /\ d.current = s.current \cup {i}
      /\ d.remaining = s.remaining - b.open[i]
  <2>1. s.current \cup {i} \in SUBSET Match!Charge /\ s.remaining - b.open[i] \in Nat
    <3>1. s.current \subseteq pool /\ i \in Match!Charge
      BY <1>1 DEF Below
    <3>2. s.remaining - b.open[i] \in Nat
      BY <1>1
    <3> QED BY <1>1, <3>1, <3>2
  <2> QED BY <1>1, <2>1 DEF Match!With, Match!SearchState
<1>3. i \notin s.current /\ d.current \subseteq Below(pool, i + 1)
  <2>1. Below(pool, i + 1) = Below(pool, i) \cup (pool \cap {i}) /\ i \notin Below(pool, i)
    BY <1>1, BelowNext
  <2> QED BY <1>1, <1>2, <2>1
<1>4. IsFiniteSet(s.current) /\ Cardinality(s.current) \in Nat /\ \A c \in d.current: b.open[c] \in Nat
  <2>1. s.current \in SUBSET Match!Charge /\ d.current \in SUBSET Match!Charge
    BY <1>1, <1>2 DEF Below
  <2> QED BY <2>1, PoolFacts
<1>5. d.remaining + Match!SumOpen(b, d.current) = b.left
  <2>1. SumFunctionOnSet(b.open, d.current) = b.open[i] + SumFunctionOnSet(b.open, s.current)
    BY <1>2, <1>3, <1>4, SumAdd
  <2>2. SumFunctionOnSet(b.open, s.current) \in Nat
    BY <1>2, <1>4, SumNat
  <2> QED BY <1>1, <1>2, <2>1, <2>2, SameMatch DEF Searching
<1>6. Cardinality(d.current) <= CombinationSize
  <2>1. Cardinality(d.current) = Cardinality(s.current) + 1
    <3>1. IsFiniteSet(s.current) /\ i \notin s.current
      BY <1>3, <1>4
    <3>2. Cardinality(s.current \cup {i}) = Cardinality(s.current) + 1
      BY <3>1, FS_AddElement
    <3> QED BY <1>2, <3>2
  <2>2. Cardinality(s.current) < CombinationSize
    BY DEF Trying
  <2> QED BY <1>1, <1>4, <2>1, <2>2
<1>7. Tried(b, pool, d, i + 1) = {x \in Tried(b, pool, s, i): i \in x}
  <2>1. \A x \in SUBSET pool: Below(x, i + 1) = d.current <=> (Below(x, i) = s.current /\ i \in x)
    <3>1. SUFFICES ASSUME NEW x \in SUBSET pool
                   PROVE Below(x, i + 1) = d.current <=> (Below(x, i) = s.current /\ i \in x)
      OBVIOUS
    <3>2. i \notin Below(x, i) /\ Below(x, i + 1) = Below(x, i) \cup (x \cap {i})
      BY <1>1, <3>1, BelowNext
    <3>3. (Below(x, i) \cup (x \cap {i}) = s.current \cup {i}) <=> (Below(x, i) = s.current /\ i \in x)
      BY <1>3, <3>2, OneMore
    <3> QED BY <1>2, <3>2, <3>3
  <2> QED BY <2>1 DEF Tried
<1>8. s.best # {} => /\ Comes(b, pool, s.best)
                     /\ \A x \in Tried(b, pool, d, i + 1): Match!NoLater(s.best, x)
  BY <1>7 DEF Searching
<1> QED BY <1>2, <1>3, <1>5, <1>6, <1>7, <1>8 DEF Searching

(* From any charge on the loop finds what is to be found: from the last on *)
(* nothing, and from another what the rest finds, with it or without it.   *)
LEMMA LoopFinds ==
  ASSUME Match!MatchingAssumption, NEW b, NEW pool, Pool(b, pool),
         NEW g, IsLoop(g, b, pool, 1), NEW i \in 1 .. Len(DueDate),
         \A s: Searching(b, pool, s, i + 1) /\ Trying(s) => Found(b, pool, s, i + 1, g[i + 1][s]),
         NEW s, Searching(b, pool, s, i), Trying(s)
  PROVE  Found(b, pool, s, i, g[i][s])
<1> DEFINE d == Match!With(s, i, b.open[i])
           e == Match!Entered(d, g[i + 1])
           t == [s EXCEPT !.best = e]
<1>1. Len(DueDate) \in Nat /\ Match!Charge = 1 .. Len(DueDate)
      /\ s \in Match!SearchState /\ s.current \subseteq Below(pool, i) /\ pool \subseteq Match!Charge
  BY PoolFacts DEF Searching, Pool
<1>2. g[i] = LoopAt(g, b, pool, i)
  BY <1>1 DEF IsLoop
<1>3. g[i][s] = IF i \notin pool \/ b.open[i] > s.remaining THEN g[i + 1][s] ELSE g[i + 1][t]
  BY <1>1, <1>2 DEF LoopAt
<1>4. \A x \in SUBSET Match!Charge:
        /\ Below(x, i + 1) = s.current => Below(x, i) = s.current
        /\ Below(x, i + 1) = s.current \cup {i} => Below(x, i) = s.current
  <2>1. SUFFICES ASSUME NEW x \in SUBSET Match!Charge
                 PROVE /\ Below(x, i + 1) = s.current => Below(x, i) = s.current
                       /\ Below(x, i + 1) = s.current \cup {i} => Below(x, i) = s.current
    OBVIOUS
  <2>2. Below(x, i + 1) = Below(x, i) \cup (x \cap {i}) /\ i \notin Below(x, i)
    BY BelowNext
  <2>3. i \notin s.current
    BY <1>1, BelowNext
  <2> QED BY <2>2, <2>3, OneMore
<1>5. CASE i \notin pool \/ b.open[i] > s.remaining
  <2>1. Tried(b, pool, s, i + 1) = Tried(b, pool, s, i)
    <3>1. b.open[i] \in Nat /\ s.remaining \in Nat
      BY <1>1, PoolFacts DEF Match!SearchState
    <3>2. ASSUME NEW x \in Tried(b, pool, s, i), i \in x PROVE FALSE
      <4>1. i \in pool /\ b.open[i] <= s.remaining
        BY <3>2, TriedLater
      <4> QED BY <1>5, <3>1, <4>1
    <3>3. Tried(b, pool, s, i + 1) = {x \in Tried(b, pool, s, i): i \notin x}
      BY TriedLater
    <3> QED BY <3>2, <3>3
  <2>2. Searching(b, pool, s, i + 1)
    <3>1. s.current \subseteq Below(pool, i + 1)
      BY <1>1, BelowNext
    <3> QED BY <2>1, <3>1 DEF Searching
  <2>3. Found(b, pool, s, i + 1, g[i][s])
    BY <1>3, <1>5, <2>2
  <2>4. \A x: Comes(b, pool, x) => x \in SUBSET Match!Charge
    BY <1>1 DEF Comes
  <2> QED BY <1>4, <2>1, <2>3, <2>4 DEF Found
<1>6. CASE ~ (i \notin pool \/ b.open[i] > s.remaining)
  <2>1. i \in pool /\ b.open[i] <= s.remaining
    <3>1. b.open[i] \in Nat /\ s.remaining \in Nat
      BY <1>1, PoolFacts DEF Match!SearchState
    <3> QED BY <1>6, <3>1
  <2>2. /\ Searching(b, pool, d, i + 1) /\ d.best = s.best /\ d.current = s.current \cup {i}
        /\ Tried(b, pool, d, i + 1) = {x \in Tried(b, pool, s, i): i \in x}
    BY <2>1, TakenSearches
  <2>3. Found(b, pool, d, i + 1, e)
    <3>1. i + 1 \in 1 .. Len(DueDate) + 1
      BY <1>1
    <3> HIDE DEF d
    <3> QED BY <2>2, <3>1, EnteredFinds
  <2> HIDE DEF d, e
  <2>4. e = s.best \/ (Comes(b, pool, e) /\ Below(e, i + 1) = s.current \cup {i})
    BY <2>2, <2>3 DEF Found
  <2>5. t \in Match!SearchState /\ t.best = e /\ t.current = s.current /\ t.remaining = s.remaining
    <3>1. e \in SUBSET Match!Charge
      BY <1>1, <2>4 DEF Match!SearchState, Comes
    <3> QED BY <1>1, <3>1 DEF Match!SearchState
  <2> HIDE DEF t
  <2>6. Tried(b, pool, t, i + 1) = {x \in Tried(b, pool, s, i): i \notin x}
    <3>1. Tried(b, pool, t, i + 1) = Tried(b, pool, s, i + 1)
      BY <2>5 DEF Tried
    <3> QED BY <3>1, TriedLater
  <2>7. Searching(b, pool, t, i + 1)
    <3>1. e # {} => Comes(b, pool, e)
      BY <2>4 DEF Searching
    <3>2. ASSUME e # {}, NEW x \in Tried(b, pool, t, i + 1) PROVE Match!NoLater(e, x)
      <4>1. x \in Tried(b, pool, s, i) /\ i \notin x /\ Below(x, i) = s.current
        BY <2>6, <3>2 DEF Tried
      <4>2. CASE e = s.best
        BY <3>2, <4>1, <4>2 DEF Searching
      <4>3. CASE Below(e, i + 1) = s.current \cup {i}
        <5>1. i \in e \ x
          BY <4>1, <4>3 DEF Below
        <5>2. \A c \in Match!Charge: c < i => (c \in e <=> c \in x)
          BY <1>1, <4>1, <4>3 DEF Below
        <5> QED BY <5>1, <5>2 DEF Match!NoLater
      <4> QED BY <2>4, <4>2, <4>3
    <3>3. s.current \subseteq Below(pool, i + 1)
      BY <1>1, BelowNext
    <3> QED BY <2>5, <3>1, <3>2, <3>3 DEF Searching
  <2>8. Trying(t)
    BY <2>5 DEF Trying
  <2> DEFINE r == g[i][s]
  <2>9. Found(b, pool, t, i + 1, r)
    BY <1>3, <1>6, <2>7, <2>8
  <2> HIDE DEF r
  <2>10. r = e \/ (Comes(b, pool, r) /\ Below(r, i) = s.current)
    <3>1. r = e \/ (Comes(b, pool, r) /\ Below(r, i + 1) = s.current)
      BY <2>5, <2>9 DEF Found
    <3>2. Comes(b, pool, r) => r \in SUBSET Match!Charge
      BY <1>1 DEF Comes
    <3> QED BY <1>4, <3>1, <3>2
  <2>11. r = s.best \/ (Comes(b, pool, r) /\ Below(r, i) = s.current)
    <3>1. Comes(b, pool, e) => e \in SUBSET Match!Charge
      BY <1>1 DEF Comes
    <3> QED BY <1>4, <2>4, <2>10, <3>1
  <2>12. e # {} => r # {} /\ (r = e \/ Cardinality(r) < Cardinality(e))
    BY <2>5, <2>9 DEF Found
  <2>13. s.best # {} => e # {} /\ (e = s.best \/ Cardinality(e) < Cardinality(s.best))
    BY <2>2, <2>3 DEF Found
  <2>14. Cardinality(r) \in Nat /\ Cardinality(e) \in Nat /\ Cardinality(s.best) \in Nat
         /\ \A x \in Tried(b, pool, s, i): Cardinality(x) \in Nat
    <3>1. e \in SUBSET Match!Charge /\ r \in SUBSET Match!Charge /\ s.best \in SUBSET Match!Charge
      BY <1>1, <2>4, <2>11 DEF Match!SearchState, Comes
    <3>2. \A x \in Tried(b, pool, s, i): x \in SUBSET Match!Charge
      BY <1>1 DEF Tried
    <3> QED BY <3>1, <3>2, PoolFacts
  <2>15. ASSUME NEW x \in Tried(b, pool, s, i) PROVE r # {} /\ Match!Preferred(r, x)
    <3>1. CASE i \in x
      <4>1. e # {} /\ Match!Preferred(e, x)
        BY <2>2, <2>3, <2>15, <3>1 DEF Found
      <4> QED BY <2>12, <2>14, <2>15, <4>1, SameMatch DEF Match!Preferred
    <3>2. CASE i \notin x
      BY <2>6, <2>9, <2>15, <3>2 DEF Found
    <3> QED BY <3>1, <3>2
  <2>16. s.best # {} => r # {} /\ (r = s.best \/ Cardinality(r) < Cardinality(s.best))
    BY <2>12, <2>13, <2>14
  <2> QED BY <2>11, <2>15, <2>16 DEF Found, r
<1> QED BY <1>5, <1>6

(* So does the whole loop, from the first charge on.                       *)
LEMMA WholeLoopFinds ==
  ASSUME Match!MatchingAssumption, NEW b, NEW pool, Pool(b, pool),
         NEW g, IsLoop(g, b, pool, 1)
  PROVE  \A s: Searching(b, pool, s, 1) /\ Trying(s) => Found(b, pool, s, 1, g[1][s])
<1> DEFINE n == Len(DueDate)
           Finds(i) == \A s: Searching(b, pool, s, i) /\ Trying(s) => Found(b, pool, s, i, g[i][s])
           T == {k \in Nat: k <= n /\ ~ Finds(n + 1 - k)}
<1>1. n \in Nat
  BY PoolFacts
<1>2. Finds(n + 1)
  <2>1. SUFFICES ASSUME NEW s, Searching(b, pool, s, n + 1), Trying(s)
                 PROVE  Found(b, pool, s, n + 1, g[n + 1][s])
    OBVIOUS
  <2>2. g[n + 1] = LoopAt(g, b, pool, n + 1)
    BY <1>1 DEF IsLoop
  <2>3. g[n + 1][s] = s.best
    BY <1>1, <2>1, <2>2 DEF LoopAt, Searching
  <2>4. ASSUME NEW x \in Tried(b, pool, s, n + 1) PROVE FALSE
    <3>1. x \subseteq Match!Charge /\ x # {} /\ Match!SumOpen(b, x) = b.left
      BY <2>4 DEF Tried, Comes, Pool
    <3>2. x = s.current
      <4>1. \A c \in x: c < n + 1
        BY <1>1, <3>1, PoolFacts
      <4> QED BY <2>4, <4>1 DEF Tried, Below
    <3>3. s.remaining \in Nat /\ Match!SumOpen(b, x) \in Nat
      BY <2>1, <3>1, PoolFacts DEF Searching, Match!SearchState
    <3>4. s.remaining = 0
      BY <2>1, <3>1, <3>2, <3>3 DEF Searching
    <3> QED BY <2>1, <3>1, <3>2, <3>4 DEF Trying
  <2> QED BY <2>3, <2>4 DEF Found
<1>3. ASSUME NEW i \in 1 .. n, Finds(i + 1) PROVE Finds(i)
  BY <1>3, LoopFinds
<1> HIDE DEF Finds
<1>4. T = {}
  <2>1. SUFFICES ASSUME T # {} PROVE FALSE
    OBVIOUS
  <2>2. PICK k \in T: \A j \in T: k <= j
    <3>1. T \subseteq Nat
      OBVIOUS
    <3> HIDE DEF T
    <3> QED BY <2>1, <3>1, LeastNat
  <2>3. k \in Nat /\ k <= n /\ ~ Finds(n + 1 - k)
    OBVIOUS
  <2>4. k # 0
    BY <1>1, <1>2, <2>3
  <2>5. k - 1 \in Nat /\ k - 1 <= n /\ ~ k <= k - 1
    BY <2>3, <2>4
  <2>6. Finds(n + 1 - (k - 1))
    <3>1. k - 1 \notin T
      BY <2>2, <2>5
    <3> QED BY <2>5, <3>1
  <2>7. n + 1 - (k - 1) = (n + 1 - k) + 1 /\ n + 1 - k \in 1 .. n
    BY <1>1, <2>3, <2>4
  <2> QED BY <1>3, <2>3, <2>6, <2>7
<1>5. n \in Nat /\ n \notin T /\ n <= n /\ n + 1 - n = 1
  BY <1>1, <1>4
<1>6. Finds(1)
  BY <1>5
<1> QED BY <1>6 DEF Finds

(* findExactSubset finds nothing, or a combination that comes to the       *)
(* payment and that it prefers to all others; and if there is one it finds *)
(* one.                                                                    *)
LEMMA SubsetFound ==
  ASSUME Match!MatchingAssumption, NEW b, NEW cs, Pool(b, cs), b.left > 0
  PROVE  LET r == Match!findExactSubset(b, cs) IN
         /\ r = {} \/ Comes(b, Match!FirstFew(cs), r)
         /\ \A x: Comes(b, Match!FirstFew(cs), x) => r # {} /\ Match!Preferred(r, x)
<1> DEFINE pool == Match!FirstFew(cs)
           g == CHOOSE f: IsLoop(f, b, pool, 1)
           s == [current |-> {}, remaining |-> b.left, best |-> {}]
           r == Match!findExactSubset(b, cs)
<1>1. Pool(b, pool)
  BY DEF Pool, Match!FirstFew
<1>2. IsLoop(g, b, pool, 1)
  BY LoopExists
<1>3. r = Match!Entered(s, g[1])
  BY DEF Match!findExactSubset, IsLoop, LoopAt
<1> HIDE DEF g, r, pool
<1>4. Len(DueDate) \in Nat /\ CombinationSize \in Nat /\ b.left \in Nat
  BY <1>1, PoolFacts DEF Pool, Match!BookFits
<1>5. Cardinality({}) = 0 /\ Match!SumOpen(b, {}) = 0
  BY FS_EmptySet, SumEmpty, SameMatch
<1>6. s \in Match!SearchState /\ s.current = {} /\ s.remaining = b.left /\ s.best = {}
  BY <1>4 DEF Match!SearchState
<1> HIDE DEF s
<1>7. Searching(b, pool, s, 1)
  BY <1>4, <1>5, <1>6 DEF Searching
<1>8. Found(b, pool, s, 1, r)
  <2>1. Trying(s) => Found(b, pool, s, 1, g[1][s])
    BY <1>1, <1>2, <1>7, WholeLoopFinds
  <2>2. 1 \in 1 .. Len(DueDate) + 1
    BY <1>4
  <2> QED BY <1>1, <1>3, <1>7, <2>1, <2>2, EnteredFinds
<1>9. \A x: Comes(b, pool, x) => x \in Tried(b, pool, s, 1)
  <2>1. SUFFICES ASSUME NEW x, Comes(b, pool, x) PROVE Below(x, 1) = {}
    BY <1>6 DEF Tried, Comes
  <2>2. \A c \in x: c \in 1 .. Len(DueDate)
    BY <1>1, <2>1, PoolFacts DEF Comes, Pool
  <2> QED BY <1>4, <2>2 DEF Below
<1>10. r = {} \/ Comes(b, pool, r)
  BY <1>6, <1>8 DEF Found
<1>11. \A x: Comes(b, pool, x) => r # {} /\ Match!Preferred(r, x)
  BY <1>8, <1>9 DEF Found
<1> QED BY <1>10, <1>11 DEF r, pool

----------------------------------------------------------------------------
(* What is proposed                                                        *)

(* The lesser of two is one of them, and no more than either.              *)
LEMMA LessOfTwo ==
  ASSUME NEW x \in Int, NEW y \in Int
  PROVE  Match!Min({x, y}) \in {x, y} /\ Match!Min({x, y}) <= x /\ Match!Min({x, y}) <= y
<1>1. \E z \in {x, y}: \A w \in {x, y}: z <= w
  <2>1. CASE x <= y
    BY <2>1
  <2>2. CASE ~ x <= y
    BY <2>2
  <2> QED BY <2>1, <2>2
<1> QED BY <1>1 DEF Match!Min

(* What is taken in full comes to what was open.                           *)
LEMMA FullLines ==
  ASSUME Match!MatchingAssumption, NEW b, NEW cs, Pool(b, cs)
  PROVE  LET lines == Match!InFull(b, cs) IN
         /\ DOMAIN lines = cs /\ lines = Match!InFull(b, DOMAIN lines)
         /\ \A c \in cs: lines[c] = b.open[c] /\ lines[c] \in 1 .. b.open[c]
         /\ Match!Allocated(lines) = Match!SumOpen(b, cs)
<1> DEFINE lines == Match!InFull(b, cs)
<1>1. DOMAIN lines = cs /\ \A c \in cs: lines[c] = b.open[c]
  BY DEF Match!InFull
<1>2. lines = Match!InFull(b, DOMAIN lines)
  BY <1>1
<1> HIDE DEF lines
<1>3. cs \in SUBSET Match!Charge /\ \A c \in cs: b.open[c] \in Nat /\ b.open[c] > 0
  BY PoolFacts DEF Pool
<1>4. IsFiniteSet(cs)
  BY <1>3, PoolFacts
<1>5. SumFunctionOnSet(lines, cs) = SumFunctionOnSet(b.open, cs)
  BY <1>1, <1>4, SumSame
<1>6. \A c \in cs: lines[c] \in 1 .. b.open[c]
  BY <1>1, <1>3
<1> QED BY <1>1, <1>2, <1>5, <1>6, SameMatch DEF lines

(* A nonempty set of charges has an oldest and a newest.                   *)
LEMMA Oldest ==
  ASSUME Match!MatchingAssumption, NEW x \in SUBSET Match!Charge, x # {}
  PROVE  /\ \E c \in x: \A d \in x: c <= d
         /\ \E c \in x: \A d \in x: d <= c
<1>1. Len(DueDate) \in Nat /\ Match!Charge = 1 .. Len(DueDate)
  BY DEF Match!MatchingAssumption, Match!Charge
<1>2. x \subseteq Nat
  BY <1>1
<1>3. \E c \in x: \A d \in x: c <= d
  BY <1>2, LeastNat
<1> DEFINE y == {k \in Nat: \E c \in x: k = Len(DueDate) - c}
<1>4. y \subseteq Nat /\ y # {}
  <2>1. PICK c \in x: TRUE
    OBVIOUS
  <2>2. Len(DueDate) - c \in Nat
    BY <1>1, <2>1
  <2> QED BY <2>1, <2>2
<1>5. PICK k \in y: \A m \in y: k <= m
  <2> HIDE DEF y
  <2> QED BY <1>4, LeastNat
<1>6. PICK c \in x: k = Len(DueDate) - c
  BY <1>5
<1>7. ASSUME NEW d \in x PROVE d <= c
  <2>1. Len(DueDate) - d \in Nat /\ c \in Nat /\ d \in Nat
    BY <1>1, <1>2, <1>6, <1>7
  <2>2. k <= Len(DueDate) - d
    BY <1>5, <2>1
  <2> QED BY <1>1, <1>6, <2>1, <2>2
<1> QED BY <1>3, <1>6, <1>7

(* What came before a charge.                                              *)
Ahead(b, cs, c) == Match!SumOpen(b, {d \in cs: d < c})

(* What came before a charge, with what is open of it, came before those   *)
(* after it.                                                               *)
LEMMA BeforeGrows ==
  ASSUME Match!MatchingAssumption, NEW b, NEW cs, Pool(b, cs),
         NEW c \in cs, NEW d \in cs, d < c
  PROVE  /\ Ahead(b, cs, c) \in Nat /\ Ahead(b, cs, d) \in Nat
         /\ Ahead(b, cs, d) + b.open[d] <= Ahead(b, cs, c)
<1> DEFINE under(e) == {f \in cs: f < e}
<1>1. Len(DueDate) \in Nat /\ cs \subseteq 1 .. Len(DueDate) /\ \A e \in cs: e \in Nat
  <2>1. Len(DueDate) \in Nat /\ cs \subseteq 1 .. Len(DueDate)
    BY PoolFacts DEF Pool
  <2> QED BY <2>1
<1>2. \A x \in SUBSET cs: IsFiniteSet(x) /\ (\A e \in x: b.open[e] \in Nat)
                         /\ SumFunctionOnSet(b.open, x) \in Nat
  BY PoolFacts, SameMatch DEF Pool
<1>3. d \in under(c) /\ d \notin under(d) /\ under(d) \in SUBSET (under(c) \ {d})
  <2>1. ~ d < d /\ \A e \in cs: e < d => e < c
    BY <1>1
  <2> QED BY <2>1
<1>4. under(c) \in SUBSET cs /\ under(d) \in SUBSET cs /\ under(c) \ {d} \in SUBSET cs
  OBVIOUS
<1>5. Ahead(b, cs, c) = SumFunctionOnSet(b.open, under(c)) /\ Ahead(b, cs, d) = SumFunctionOnSet(b.open, under(d))
  BY SameMatch DEF Ahead
<1> HIDE DEF under
<1>6. SumFunctionOnSet(b.open, under(c)) = b.open[d] + SumFunctionOnSet(b.open, under(c) \ {d})
  BY <1>2, <1>3, <1>4, SumTakeOut
<1>7. SumFunctionOnSet(b.open, under(d)) <= SumFunctionOnSet(b.open, under(c) \ {d})
  BY <1>2, <1>3, <1>4, SumPart
<1>8. SumFunctionOnSet(b.open, under(c) \ {d}) \in Nat /\ SumFunctionOnSet(b.open, under(d)) \in Nat
      /\ SumFunctionOnSet(b.open, under(c)) \in Nat /\ b.open[d] \in Nat
  BY <1>2, <1>3, <1>4
<1> QED BY <1>5, <1>6, <1>7, <1>8

(* A fill takes the oldest charges, all but the last in full, and no more  *)
(* than the payment has.                                                   *)
LEMMA FillLines ==
  ASSUME Match!MatchingAssumption, NEW b, NEW cs, Pool(b, cs), cs # {}, b.left > 0
  PROVE  LET lines == Match!Fill(b, cs) IN
         /\ DOMAIN lines \subseteq cs /\ DOMAIN lines # {}
         /\ \A c \in DOMAIN lines: lines[c] \in 1 .. b.open[c]
         /\ \A c \in DOMAIN lines, d \in cs:
              d < c => d \in DOMAIN lines /\ lines[d] = b.open[d]
         /\ Match!Allocated(lines) \in Nat /\ Match!Allocated(lines) <= b.left
<1> DEFINE lines == Match!Fill(b, cs)
           D == {c \in cs: Ahead(b, cs, c) < b.left}
<1>1. DOMAIN lines = D /\ \A c \in D: lines[c] = Match!Min({b.open[c], b.left - Ahead(b, cs, c)})
  BY DEF Match!Fill, Ahead
<1>2. /\ cs \in SUBSET Match!Charge /\ b.left \in Nat /\ Len(DueDate) \in Nat
      /\ \A c \in cs: b.open[c] \in Nat /\ b.open[c] > 0 /\ c \in Nat
  BY PoolFacts DEF Pool, Match!BookFits
<1>3. \A c \in cs: Ahead(b, cs, c) \in Nat
  <2>1. \A c \in cs: {d \in cs: d < c} \in SUBSET Match!Charge
    BY <1>2
  <2> QED BY <2>1, PoolFacts DEF Ahead
<1>4. ASSUME NEW c \in D
      PROVE  /\ lines[c] \in 1 .. b.open[c] /\ lines[c] + Ahead(b, cs, c) <= b.left
             /\ b.open[c] + Ahead(b, cs, c) <= b.left => lines[c] = b.open[c]
  <2>1. c \in cs /\ Ahead(b, cs, c) < b.left /\ Ahead(b, cs, c) \in Nat /\ b.open[c] \in Nat /\ b.open[c] > 0
    BY <1>2, <1>3, <1>4
  <2>2. b.left - Ahead(b, cs, c) \in Nat /\ b.left - Ahead(b, cs, c) > 0
    BY <1>2, <2>1
  <2>3. /\ lines[c] \in {b.open[c], b.left - Ahead(b, cs, c)}
        /\ lines[c] <= b.open[c] /\ lines[c] <= b.left - Ahead(b, cs, c)
    <3>1. lines[c] = Match!Min({b.open[c], b.left - Ahead(b, cs, c)})
      BY <1>1, <1>4
    <3> HIDE DEF lines
    <3>2. b.open[c] \in Int /\ b.left - Ahead(b, cs, c) \in Int
      BY <2>1, <2>2
    <3> QED BY <3>1, <3>2, LessOfTwo
  <2> HIDE DEF lines, D
  <2>4. lines[c] \in Nat /\ lines[c] > 0
    BY <2>1, <2>2, <2>3
  <2>5. b.left \in Nat
    BY <1>2
  <2> QED BY <2>1, <2>3, <2>4, <2>5
<1> HIDE DEF lines
<1>5. ASSUME NEW c \in D, NEW d \in cs, d < c PROVE d \in D /\ lines[d] = b.open[d]
  <2>1. Ahead(b, cs, d) + b.open[d] <= Ahead(b, cs, c) /\ Ahead(b, cs, c) < b.left
    BY <1>5, BeforeGrows
  <2>2. Ahead(b, cs, d) \in Nat /\ Ahead(b, cs, c) \in Nat /\ b.open[d] \in Nat
    BY <1>2, <1>3, <1>5
  <2>3. b.left \in Nat
    BY <1>2
  <2>4. Ahead(b, cs, d) < b.left /\ b.open[d] + Ahead(b, cs, d) <= b.left
    <3> HIDE DEF D
    <3> QED BY <2>1, <2>2, <2>3
  <2>5. d \in D
    BY <1>5, <2>4
  <2> QED BY <1>4, <2>4, <2>5
<1>6. D # {}
  <2>1. PICK c \in cs: \A d \in cs: c <= d
    BY <1>2, Oldest
  <2>2. {d \in cs: d < c} = {}
    BY <1>2, <2>1
  <2>3. Ahead(b, cs, c) = 0
    BY <2>2, SumEmpty, SameMatch DEF Ahead
  <2> QED BY <1>2, <2>1, <2>3
<1>7. D \in SUBSET cs /\ IsFiniteSet(D) /\ \A c \in D: lines[c] \in Nat
  <2>1. IsFiniteSet(D)
    BY <1>2, PoolFacts
  <2> QED BY <1>2, <1>4, <2>1
<1>8. SumFunctionOnSet(lines, D) \in Nat /\ SumFunctionOnSet(lines, D) <= b.left
  <2>1. PICK m \in D: \A d \in D: d <= m
    BY <1>2, <1>6, <1>7, Oldest
  <2>2. SumFunctionOnSet(lines, D) = lines[m] + SumFunctionOnSet(lines, D \ {m})
    BY <1>7, <2>1, SumTakeOut
  <2>3. D \ {m} = {d \in cs: d < m}
    <3>1. \A d \in D \ {m}: d < m
      BY <1>2, <1>7, <2>1
    <3>2. \A d \in cs: d < m => d \in D /\ d # m
      BY <1>2, <1>5, <1>7, <2>1
    <3> QED BY <1>7, <3>1, <3>2
  <2>4. \A d \in D \ {m}: lines[d] = b.open[d]
    BY <1>5, <2>1, <2>3
  <2>5. IsFiniteSet(D \ {m})
    BY <1>7, FS_Subset
  <2>6. SumFunctionOnSet(lines, D \ {m}) = Ahead(b, cs, m)
    <3>1. SumFunctionOnSet(lines, D \ {m}) = SumFunctionOnSet(b.open, D \ {m})
      <4> HIDE DEF D
      <4> QED BY <2>4, <2>5, SumSame
    <3> QED BY <2>3, <3>1, SameMatch DEF Ahead
  <2>7. SumFunctionOnSet(lines, D) \in Nat
    BY <1>7, SumNat
  <2> QED BY <1>4, <2>1, <2>2, <2>6, <2>7
<1>9. Match!Allocated(lines) = SumFunctionOnSet(lines, D)
  BY <1>1, SameMatch
<1> QED BY <1>1, <1>4, <1>5, <1>6, <1>7, <1>8, <1>9 DEF lines

(* Some of what a tenant owes, taken in full and coming to no more than    *)
(* the payment has, can be approved.                                       *)
LEMMA FullSound ==
  ASSUME Match!MatchingAssumption, Match!BookFits(book),
         NEW t, NEW s \in SUBSET Match!Owed(t), s # {}, Match!SumOpen(book, s) <= book.left,
         NEW p, p.lines = Match!InFull(book, s)
  PROVE  /\ Match!Approvable(p)
         /\ DOMAIN p.lines = s /\ p.lines = Match!InFull(book, DOMAIN p.lines)
         /\ Match!Allocated(p.lines) = Match!SumOpen(book, s) /\ Match!Allocated(p.lines) \in Nat
<1>1. Pool(book, s)
  BY DEF Pool, Match!Owed, Match!Payable, Match!Candidates
<1>2. /\ DOMAIN p.lines = s /\ p.lines = Match!InFull(book, DOMAIN p.lines)
      /\ \A c \in s: p.lines[c] \in 1 .. book.open[c]
      /\ Match!Allocated(p.lines) = Match!SumOpen(book, s)
  BY <1>1, FullLines
<1>3. Match!SumOpen(book, s) \in Nat
  BY <1>1, PoolFacts DEF Pool
<1>4. t \in Tenant
  <2>1. PICK c \in s: TRUE
    OBVIOUS
  <2>2. book.tenant[c] = t /\ c \in Match!Charge
    BY <1>1, <2>1 DEF Match!Owed, Pool
  <2> QED BY <2>2 DEF Match!BookFits
<1> QED BY <1>2, <1>3, <1>4 DEF Match!Approvable

(* So can a fill of all a tenant owes.                                     *)
LEMMA FillSound ==
  ASSUME Match!MatchingAssumption, Match!BookFits(book), book.left > 0,
         NEW t, Match!Owed(t) # {}, NEW p, p.lines = Match!Fill(book, Match!Owed(t))
  PROVE  /\ Match!Approvable(p) /\ DOMAIN p.lines \subseteq Match!Owed(t)
         /\ \A c \in DOMAIN p.lines, d \in Match!Owed(t):
              d < c => d \in DOMAIN p.lines /\ p.lines[d] = book.open[d]
         /\ Match!Allocated(p.lines) \in Nat
<1> DEFINE cs == Match!Owed(t)
<1>1. Pool(book, cs)
  BY DEF Pool, Match!Owed, Match!Payable, Match!Candidates
<1>2. t \in Tenant
  <2>1. PICK c \in cs: TRUE
    OBVIOUS
  <2>2. book.tenant[c] = t /\ c \in Match!Charge
    BY <1>1, <2>1 DEF Match!Owed, Pool
  <2> QED BY <2>2 DEF Match!BookFits
<1> HIDE DEF cs
<1>3. /\ DOMAIN p.lines \subseteq cs /\ DOMAIN p.lines # {}
      /\ \A c \in DOMAIN p.lines: p.lines[c] \in 1 .. book.open[c]
      /\ \A c \in DOMAIN p.lines, d \in cs: d < c => d \in DOMAIN p.lines /\ p.lines[d] = book.open[d]
      /\ Match!Allocated(p.lines) \in Nat /\ Match!Allocated(p.lines) <= book.left
  BY <1>1, FillLines DEF cs
<1> QED BY <1>2, <1>3 DEF cs, Match!Approvable

(* A proposal as it was drafted.                                           *)
LEMMA DraftIs ==
  ASSUME NEW strategy, NEW lines, NEW reference, NEW points, NEW p,
         p = Match!Draft(strategy, lines, reference, points)
  PROVE  p.strategy = strategy /\ p.lines = lines
BY DEF Match!Draft

FullStrategy == {"EXACT_REFERENCE_AND_AMOUNT", "EXACT_AMOUNT_SINGLE_CHARGE"}
FillStrategy == {"REFERENCE_PARTIAL_AMOUNT", "DESCRIPTION_HEURISTIC"}

(* One charge that is as much as the payment: it finishes it.              *)
LEMMA ExactSound ==
  ASSUME Match!MatchingAssumption, Match!BookFits(book),
         NEW t, NEW c \in Match!Owed(t), book.open[c] = book.left,
         NEW p, p.lines = Match!InFull(book, {c}), p.strategy \in FullStrategy
  PROVE  /\ Match!Approvable(p) /\ Match!KeepsPromise(p) /\ DOMAIN p.lines \subseteq Match!Owed(t)
         /\ Match!Allocated(p.lines) = book.left /\ book.left \in Nat
<1>1. Pool(book, {c})
  BY DEF Pool, Match!Owed, Match!Payable, Match!Candidates
<1>2. book.left \in Nat /\ book.open[c] \in Nat
  BY <1>1, PoolFacts DEF Pool, Match!BookFits
<1>3. Match!SumOpen(book, {c}) = book.left
  <2>1. SumFunctionOnSet(book.open, {} \cup {c}) = book.open[c] + SumFunctionOnSet(book.open, {})
    <3>1. IsFiniteSet({}) /\ c \notin {} /\ \A d \in {} \cup {c}: book.open[d] \in Int
      BY <1>2, FS_EmptySet
    <3> QED BY <3>1, SumAdd
  <2>2. SumFunctionOnSet(book.open, {}) = 0 /\ {} \cup {c} = {c}
    BY SumEmpty
  <2>3. SumFunctionOnSet(book.open, {c}) = book.open[c] + 0
    BY <2>1, <2>2
  <2> QED BY <1>2, <2>3, SameMatch
<1>4. Match!SumOpen(book, {c}) <= book.left
  BY <1>2, <1>3
<1>5. /\ Match!Approvable(p) /\ DOMAIN p.lines = {c} /\ p.lines = Match!InFull(book, DOMAIN p.lines)
      /\ Match!Allocated(p.lines) = book.left
  BY <1>3, <1>4, FullSound
<1> QED BY <1>2, <1>5 DEF Match!KeepsPromise, FullStrategy

(* Oldest first is what a fill promises.                                   *)
LEMMA FillKeeps ==
  ASSUME Match!MatchingAssumption, Match!BookFits(book), book.left > 0,
         NEW t, Match!Owed(t) # {},
         NEW p, p.lines = Match!Fill(book, Match!Owed(t)), p.strategy \in FillStrategy
  PROVE  /\ Match!Approvable(p) /\ Match!KeepsPromise(p) /\ DOMAIN p.lines \subseteq Match!Owed(t)
         /\ Match!Allocated(p.lines) \in Nat
<1>1. /\ Match!Approvable(p) /\ DOMAIN p.lines \subseteq Match!Owed(t)
      /\ \A c \in DOMAIN p.lines, d \in Match!Owed(t):
           d < c => d \in DOMAIN p.lines /\ p.lines[d] = book.open[d]
      /\ Match!Allocated(p.lines) \in Nat
  BY FillSound
<1>2. ASSUME NEW c \in DOMAIN p.lines, NEW d \in Match!Payable(book),
             d < c, book.tenant[c] = book.tenant[d]
      PROVE  d \in DOMAIN p.lines /\ p.lines[d] = book.open[d]
  <2>1. d \in Match!Owed(t)
    BY <1>1, <1>2 DEF Match!Owed
  <2> QED BY <1>1, <1>2, <2>1
<1> QED BY <1>1, <1>2 DEF Match!KeepsPromise, FillStrategy

(* What a tenant owes is found when it comes to the payment.               *)
LEMMA CombinationSound ==
  ASSUME Match!MatchingAssumption, Match!BookFits(book), book.left > 0,
         NEW t, NEW r, r = Match!findExactSubset(book, Match!Owed(t)), r # {},
         NEW p, p.lines = Match!InFull(book, r), p.strategy = "COMBINED_CHARGES"
  PROVE  /\ Match!Approvable(p) /\ Match!KeepsPromise(p) /\ DOMAIN p.lines \subseteq Match!Owed(t)
         /\ Match!Allocated(p.lines) = book.left /\ book.left \in Nat
<1> DEFINE cs == Match!Owed(t)
           few == Match!FirstFew(cs)
<1>1. Pool(book, cs) /\ few \subseteq cs
  BY DEF Pool, Match!Owed, Match!Payable, Match!Candidates, Match!FirstFew
<1>2. Comes(book, few, r) /\ \A x: Comes(book, few, x) => Match!Preferred(r, x)
  BY <1>1, SubsetFound
<1>3. r \in SUBSET cs /\ Match!SumOpen(book, r) = book.left /\ book.left \in Nat
      /\ Cardinality(r) <= CombinationSize
  BY <1>1, <1>2 DEF Comes, Match!BookFits
<1>4. Match!SumOpen(book, r) <= book.left
  BY <1>3
<1>5. /\ Match!Approvable(p) /\ DOMAIN p.lines = r /\ p.lines = Match!InFull(book, DOMAIN p.lines)
      /\ Match!Allocated(p.lines) = book.left
  BY <1>3, <1>4, FullSound
<1>6. ASSUME NEW u \in Tenant, NEW x \in Match!ExactSubsets(u), r \subseteq Match!Owed(u)
      PROVE  Match!Preferred(r, x)
  <2>1. u = t
    <3>1. PICK c \in r: TRUE
      OBVIOUS
    <3> QED BY <1>3, <1>6, <3>1 DEF Match!Owed
  <2>2. x \subseteq few /\ x # {} /\ Match!SumOpen(book, x) = book.left
    BY <1>6, <2>1 DEF Match!ExactSubsets
  <2>3. CASE Cardinality(x) <= CombinationSize
    BY <1>2, <2>2, <2>3 DEF Comes
  <2>4. CASE ~ Cardinality(x) <= CombinationSize
    <3>1. Cardinality(x) \in Nat /\ Cardinality(r) \in Nat /\ CombinationSize \in Nat
      BY <1>1, <1>3, <2>2, PoolFacts DEF Pool
    <3>2. Cardinality(r) < Cardinality(x)
      BY <1>3, <2>4, <3>1
    <3> QED BY <3>2, SameMatch DEF Match!Preferred
  <2> QED BY <2>3, <2>4
<1> QED BY <1>3, <1>5, <1>6 DEF Match!KeepsPromise

Sound(p) == Match!Approvable(p) /\ Match!KeepsPromise(p) /\ Match!Allocated(p.lines) \in Nat

(* What is proposed for the tenant of a reference, strategy by strategy.   *)
ExactDrafts(hit) ==
  {Match!Draft("EXACT_REFERENCE_AND_AMOUNT", Match!InFull(book, {c}), hit.points, 300):
     c \in {d \in Match!Exact(book, Match!Owed(hit.tenant)):
              Match!Cardinality({e \in Match!Exact(book, Match!Owed(hit.tenant)): e < d}) < 2}}
CombinedDrafts(hit) ==
  {Match!Draft("COMBINED_CHARGES", Match!InFull(book, s), hit.points, 240):
     s \in {x \in {Match!findExactSubset(book, Match!Owed(hit.tenant))}:
              Match!Exact(book, Match!Owed(hit.tenant)) = {} /\ Match!Cardinality(x) > 1}}
PartialDrafts(hit) ==
  {Match!Draft("REFERENCE_PARTIAL_AMOUNT", Match!Fill(book, s), hit.points, 120):
     s \in {x \in {Match!Owed(hit.tenant)}:
              /\ Match!Exact(book, Match!Owed(hit.tenant)) = {}
              /\ book.left < Match!SumOpen(book, Match!Owed(hit.tenant))}}
OverDrafts(hit) ==
  {Match!Draft("OVERPAYMENT_WITH_REMAINDER", Match!InFull(book, s), hit.points, 100):
     s \in {x \in {Match!Owed(hit.tenant)}: book.left > Match!SumOpen(book, Match!Owed(hit.tenant))}}

(* These are all of its drafts.                                            *)
LEMMA DraftsAre ==
  ASSUME NEW hit
  PROVE  Match!DraftsForTenant(book, hit) =
           IF Match!Owed(hit.tenant) = {} THEN {}
           ELSE ExactDrafts(hit) \cup CombinedDrafts(hit) \cup PartialDrafts(hit) \cup OverDrafts(hit)
BY DEF Match!DraftsForTenant, Match!Owed, ExactDrafts, CombinedDrafts, PartialDrafts, OverDrafts

(* All of it is sound.                                                     *)
LEMMA ForTenantSound ==
  ASSUME Match!MatchingAssumption, Match!BookFits(book), book.left > 0,
         NEW hit, NEW p \in Match!DraftsForTenant(book, hit)
  PROVE  Sound(p) /\ DOMAIN p.lines \subseteq Match!Owed(hit.tenant)
<1> DEFINE t == hit.tenant
           cs == Match!Owed(t)
           r == Match!findExactSubset(book, cs)
<1>1. cs # {} /\ p \in ExactDrafts(hit) \cup CombinedDrafts(hit) \cup PartialDrafts(hit) \cup OverDrafts(hit)
  BY DraftsAre
<1> HIDE DEF cs, r
<1>2. ASSUME p \in ExactDrafts(hit)
      PROVE  Sound(p) /\ DOMAIN p.lines \subseteq Match!Owed(t)
  <2>3. PICK c \in Match!Exact(book, cs):
          p = Match!Draft("EXACT_REFERENCE_AND_AMOUNT", Match!InFull(book, {c}), hit.points, 300)
    BY <1>2 DEF ExactDrafts, cs
  <2>1. c \in Match!Owed(t) /\ book.open[c] = book.left
    BY DEF Match!Exact, cs
  <2>2. p.lines = Match!InFull(book, {c}) /\ p.strategy \in FullStrategy
    BY <2>3, DraftIs DEF FullStrategy
  <2> QED BY <2>1, <2>2, ExactSound DEF Sound
<1>3. ASSUME p \in CombinedDrafts(hit)
      PROVE  Sound(p) /\ DOMAIN p.lines \subseteq Match!Owed(t)
  <2>4. /\ Match!Cardinality(r) > 1
        /\ p = Match!Draft("COMBINED_CHARGES", Match!InFull(book, r), hit.points, 240)
    BY <1>3 DEF CombinedDrafts, r, cs
  <2>1. r # {}
    <3>1. Match!Cardinality({}) = 0
      BY FS_EmptySet, SameMatch
    <3> QED BY <2>4, <3>1
  <2>2. p.lines = Match!InFull(book, r) /\ p.strategy = "COMBINED_CHARGES"
    BY <2>4, DraftIs
  <2>3. r = Match!findExactSubset(book, Match!Owed(t))
    BY DEF r, cs
  <2> QED BY <2>1, <2>2, <2>3, CombinationSound DEF Sound
<1>4. ASSUME p \in PartialDrafts(hit)
      PROVE  Sound(p) /\ DOMAIN p.lines \subseteq Match!Owed(t)
  <2>2. p = Match!Draft("REFERENCE_PARTIAL_AMOUNT", Match!Fill(book, cs), hit.points, 120)
    BY <1>4 DEF PartialDrafts, cs
  <2>1. p.lines = Match!Fill(book, Match!Owed(t)) /\ p.strategy \in FillStrategy
    BY <2>2, DraftIs DEF FillStrategy, cs
  <2> QED BY <1>1, <2>1, FillKeeps DEF Sound, cs
<1>5. ASSUME p \in OverDrafts(hit)
      PROVE  Sound(p) /\ DOMAIN p.lines \subseteq Match!Owed(t)
  <2>5. /\ book.left > Match!SumOpen(book, cs)
        /\ p = Match!Draft("OVERPAYMENT_WITH_REMAINDER", Match!InFull(book, cs), hit.points, 100)
    BY <1>5 DEF OverDrafts, cs
  <2>1. p.lines = Match!InFull(book, cs) /\ p.strategy = "OVERPAYMENT_WITH_REMAINDER"
    BY <2>5, DraftIs
  <2>2. Match!SumOpen(book, cs) <= book.left
    <3>1. Pool(book, cs)
      BY DEF Pool, Match!Owed, Match!Payable, Match!Candidates, cs
    <3>2. Match!SumOpen(book, cs) \in Nat /\ book.left \in Nat
      BY <3>1, PoolFacts DEF Pool, Match!BookFits
    <3> QED BY <2>5, <3>2
  <2>3. Match!Approvable(p) /\ DOMAIN p.lines = cs /\ Match!Allocated(p.lines) \in Nat
    <3>1. cs \in SUBSET Match!Owed(t)
      BY DEF cs
    <3> QED BY <1>1, <2>1, <2>2, <3>1, FullSound
  <2>4. Match!KeepsPromise(p)
    BY <2>1 DEF Match!KeepsPromise
  <2> QED BY <2>3, <2>4 DEF Sound, cs
<1> QED BY <1>1, <1>2, <1>3, <1>4, <1>5

(* A set that counts one has one member.                                   *)
LEMMA OnlyMember ==
  ASSUME NEW x, IsFiniteSet(x), Cardinality(x) = 1
  PROVE  \E c \in x: x = {c}
<1>1. x # {}
  BY FS_EmptySet
<1>2. PICK c \in x: TRUE
  BY <1>1
<1>3. IsFiniteSet({c}) /\ Cardinality({c}) = 1 /\ {c} \in SUBSET x
  BY FS_Singleton
<1> QED BY <1>3, PartIsSmaller

(* What is proposed when no reference is known.                            *)
LEMMA WithoutReferenceSound ==
  ASSUME Match!MatchingAssumption, Match!BookFits(book), book.left > 0,
         NEW p \in Match!DraftsWithoutReference(book)
  PROVE  Sound(p)
<1> DEFINE exact == Match!Exact(book, Match!Payable(book))
<1>1. \/ /\ Match!Cardinality(exact) = 1
         /\ p = Match!Draft("EXACT_AMOUNT_SINGLE_CHARGE", Match!InFull(book, exact), 0, 360)
      \/ \E t \in Tenant: /\ Match!Owed(t) # {}
           /\ p = Match!Draft("DESCRIPTION_HEURISTIC", Match!Fill(book, Match!Owed(t)), 0,
                              Match!Similarity(NameTokens[t], book.memoTokens))
  BY DEF Match!DraftsWithoutReference, Match!Owed, Match!Resembling
<1>2. ASSUME Match!Cardinality(exact) = 1,
             p = Match!Draft("EXACT_AMOUNT_SINGLE_CHARGE", Match!InFull(book, exact), 0, 360)
      PROVE  Sound(p)
  <2>1. exact \in SUBSET Match!Charge
    BY DEF Match!Exact, Match!Payable, Match!Candidates
  <2>2. IsFiniteSet(exact) /\ Cardinality(exact) = 1
    <3>1. Len(DueDate) \in Nat /\ Match!Charge = 1 .. Len(DueDate)
      BY DEF Match!MatchingAssumption, Match!Charge
    <3>2. IsFiniteSet(Match!Charge)
      BY <3>1, FS_Interval
    <3> HIDE DEF exact
    <3> QED BY <1>2, <2>1, <3>2, FS_Subset, SameMatch
  <2>3. PICK c \in exact: exact = {c}
    <3> HIDE DEF exact
    <3> QED BY <2>2, OnlyMember
  <2>4. c \in Match!Owed(book.tenant[c]) /\ book.open[c] = book.left
    BY DEF Match!Exact, Match!Owed
  <2>5. p.lines = Match!InFull(book, {c}) /\ p.strategy \in FullStrategy
    <3> HIDE DEF exact
    <3> QED BY <1>2, <2>3, DraftIs DEF FullStrategy
  <2> QED BY <2>4, <2>5, ExactSound DEF Sound
<1>3. ASSUME NEW t \in Tenant, Match!Owed(t) # {},
             p = Match!Draft("DESCRIPTION_HEURISTIC", Match!Fill(book, Match!Owed(t)), 0,
                             Match!Similarity(NameTokens[t], book.memoTokens))
      PROVE  Sound(p)
  <2>1. p.lines = Match!Fill(book, Match!Owed(t)) /\ p.strategy \in FillStrategy
    BY <1>3, DraftIs DEF FillStrategy
  <2> QED BY <1>3, <2>1, FillKeeps DEF Sound
<1> HIDE DEF exact
<1> QED BY <1>1, <1>2, <1>3

(* So whatever is proposed is sound.                                       *)
LEMMA SuggestionsSound ==
  ASSUME Match!MatchingAssumption, Match!BookFits(book), book.left > 0,
         NEW p \in Match!generateSuggestions(book)
  PROVE  Sound(p)
BY ForTenantSound, WithoutReferenceSound DEF Match!generateSuggestions

(* A known reference is honoured: one charge, or a combination, that comes *)
(* to the payment is proposed if there is one, and something is proposed   *)
(* whenever what is owed is more or less than the payment.                 *)
LEMMA SuggestionsHonour ==
  ASSUME Match!MatchingAssumption, Match!BookFits(book), book.left > 0,
         proposals = Match!generateSuggestions(book)
  PROVE  Match!ReferenceHonoured
<1> DEFINE hit == Match!resolveReference(book)
           t == hit.tenant
           cs == Match!Owed(t)
           r == Match!findExactSubset(book, cs)
           exact == Match!Exact(book, cs)
<1>1. SUFFICES ASSUME hit # Match!NoHit
               PROVE /\ \A p \in proposals: DOMAIN p.lines \subseteq cs
                     /\ (\E s \in Match!ExactSubsets(t): Match!Cardinality(s) <= CombinationSize)
                        => \E p \in proposals: Match!Allocated(p.lines) = book.left
                     /\ proposals # {} \/ Match!SumOpen(book, cs) \in {0, book.left}
  BY DEF Match!ReferenceHonoured
<1>2. book.left \in Nat /\ Pool(book, cs) /\ IsFiniteSet(cs) /\ Match!SumOpen(book, cs) \in Nat
  <2>1. Pool(book, cs)
    BY DEF Pool, Match!Owed, Match!Payable, Match!Candidates
  <2> QED BY <2>1, PoolFacts DEF Pool, Match!BookFits
<1>3. proposals = Match!DraftsForTenant(book, hit)
  BY <1>1, <1>2 DEF Match!generateSuggestions
<1> HIDE DEF hit
<1>4. \A p \in proposals: DOMAIN p.lines \subseteq cs
  BY <1>3, ForTenantSound
<1>5. ASSUME exact # {} PROVE \E p \in proposals: Match!Allocated(p.lines) = book.left
  <2>1. exact \in SUBSET Match!Charge /\ exact \in SUBSET cs
    BY DEF Match!Exact, Match!Owed, Match!Payable, Match!Candidates
  <2>2. PICK c \in exact: \A d \in exact: c <= d
    <3> HIDE DEF exact
    <3> QED BY <1>5, <2>1, Oldest
  <2>3. {e \in exact: e < c} = {}
    <3>1. \A d \in exact: d \in Nat
      <4>1. Match!Charge = 1 .. Len(DueDate) /\ Len(DueDate) \in Nat
        BY DEF Match!MatchingAssumption, Match!Charge
      <4> QED BY <2>1, <4>1
    <3> HIDE DEF exact
    <3> QED BY <2>2, <3>1
  <2>4. Match!Cardinality({e \in exact: e < c}) = 0
    <3> HIDE DEF exact
    <3> QED BY <2>3, FS_EmptySet, SameMatch
  <2> DEFINE p == Match!Draft("EXACT_REFERENCE_AND_AMOUNT", Match!InFull(book, {c}), hit.points, 300)
  <2>5. p \in proposals
    <3>1. c \in {d \in exact: Match!Cardinality({e \in exact: e < d}) < 2}
      BY <2>4
    <3>2. cs # {} /\ p \in ExactDrafts(hit)
      BY <2>1, <3>1 DEF ExactDrafts
    <3> HIDE DEF exact, p, cs
    <3> QED BY <1>3, <3>2, DraftsAre DEF cs
  <2>6. p.lines = Match!InFull(book, {c}) /\ p.strategy \in FullStrategy
    BY DraftIs DEF FullStrategy
  <2>7. c \in Match!Owed(t) /\ book.open[c] = book.left
    BY <2>1 DEF Match!Exact
  <2> HIDE DEF p
  <2>8. Match!Allocated(p.lines) = book.left
    BY <2>6, <2>7, ExactSound
  <2> QED BY <2>5, <2>8
<1>6. ASSUME exact = {}, NEW s \in Match!ExactSubsets(t), Match!Cardinality(s) <= CombinationSize
      PROVE  \E p \in proposals: Match!Allocated(p.lines) = book.left
  <2>1. Comes(book, Match!FirstFew(cs), s) /\ cs # {}
    BY <1>6, SameMatch DEF Match!ExactSubsets, Comes, Match!FirstFew
  <2>2. r # {} /\ Comes(book, Match!FirstFew(cs), r)
    BY <1>2, <2>1, SubsetFound
  <2>3. r \in SUBSET cs /\ Match!SumOpen(book, r) = book.left
    BY <2>2 DEF Comes, Match!FirstFew
  <2>4. IsFiniteSet(r) /\ Cardinality(r) \in Nat
    BY <1>2, <2>3, FS_Subset, FS_CardinalityType
  <2>5. Cardinality(r) > 1
    <3>1. ASSUME Cardinality(r) = 1 PROVE FALSE
      <4>1. PICK c \in r: r = {c}
        BY <2>4, <3>1, OnlyMember
      <4>2. SumFunctionOnSet(book.open, {c}) = book.open[c] + SumFunctionOnSet(book.open, {c} \ {c})
        <5>1. IsFiniteSet({c}) /\ \A d \in {c}: book.open[d] \in Int
          <6>1. book.open[c] \in Nat
            BY <1>2, <2>3, PoolFacts DEF Pool
          <6>2. IsFiniteSet({c})
            BY FS_Singleton
          <6> QED BY <6>1, <6>2
        <5> QED BY <5>1, SumTakeOut
      <4>3. {c} \ {c} = {} /\ SumFunctionOnSet(book.open, {}) = 0 /\ book.open[c] \in Nat
        BY <1>2, <2>3, SumEmpty, PoolFacts DEF Pool
      <4>4. book.open[c] = book.left
        BY <2>3, <4>1, <4>2, <4>3, SameMatch
      <4> QED BY <1>6, <2>3, <4>4 DEF Match!Exact
    <3>2. Cardinality(r) # 0
      BY <2>2, <2>4, FS_EmptySet
    <3> QED BY <2>4, <3>1, <3>2
  <2> DEFINE p == Match!Draft("COMBINED_CHARGES", Match!InFull(book, r), hit.points, 240)
  <2>6. p \in proposals
    <3>1. Match!Cardinality(r) > 1
      BY <2>5, SameMatch
    <3>2. p \in CombinedDrafts(hit)
      BY <1>6, <3>1 DEF CombinedDrafts
    <3> HIDE DEF p, cs, exact
    <3> QED BY <1>3, <2>1, <3>2, DraftsAre DEF cs
  <2>7. p.lines = Match!InFull(book, r) /\ p.strategy = "COMBINED_CHARGES"
    BY DraftIs
  <2> HIDE DEF p
  <2>8. Match!Allocated(p.lines) = book.left
    BY <2>2, <2>7, CombinationSound
  <2> QED BY <2>6, <2>8
<1>7. proposals # {} \/ Match!SumOpen(book, cs) \in {0, book.left}
  <2>1. CASE cs = {}
    BY <2>1, SumEmpty, SameMatch
  <2>2. CASE exact # {}
    BY <1>5, <2>2
  <2>3. CASE cs # {} /\ exact = {} /\ book.left < Match!SumOpen(book, cs)
    <3>1. Match!Draft("REFERENCE_PARTIAL_AMOUNT", Match!Fill(book, cs), hit.points, 120) \in PartialDrafts(hit)
      BY <2>3 DEF PartialDrafts
    <3> QED BY <1>3, <2>3, <3>1, DraftsAre
  <2>4. CASE cs # {} /\ book.left > Match!SumOpen(book, cs)
    <3>1. Match!Draft("OVERPAYMENT_WITH_REMAINDER", Match!InFull(book, cs), hit.points, 100) \in OverDrafts(hit)
      BY <2>4 DEF OverDrafts
    <3> QED BY <1>3, <2>4, <3>1, DraftsAre
  <2> HIDE DEF cs, exact
  <2> QED BY <1>2, <2>1, <2>2, <2>3, <2>4
<1> HIDE DEF cs, exact
<1> QED BY <1>4, <1>5, <1>6, <1>7

(* Proposals that are there were made for the book as it is; and a payment *)
(* without an exception has the one that finishes it, or is finished.      *)
Proposed ==
  /\ Match!BookFits(book)
  /\ IF fresh THEN book.left > 0 /\ proposals = Match!generateSuggestions(book) ELSE proposals = {}
  /\ category = "new" => ~ fresh /\ book.left > 0
  /\ category = "none" => (fresh /\ Match!Confident(book, proposals)) \/ book.left = 0

(* To approve a proposal leaves a book that rows can be.                   *)
LEMMA ApprovedFits ==
  ASSUME Match!MatchingAssumption, Match!BookFits(book),
         NEW p, Sound(p), Match!Approve(p)
  PROVE  Match!BookFits(book)' /\ book'.left = book.left - Match!Allocated(p.lines)
<1>1. /\ DOMAIN book = {"tenant", "open", "left", "closed", "twin", "reference", "memoReferences", "memoTokens"}
      /\ book.tenant \in [Match!Charge -> Tenant] /\ book.open \in [Match!Charge -> Nat] /\ book.left \in Nat
  BY DEF Match!BookFits
<1>2. /\ DOMAIN p.lines \subseteq Match!Charge
      /\ \A c \in DOMAIN p.lines: p.lines[c] \in 1 .. book.open[c]
      /\ Match!Allocated(p.lines) \in Nat /\ Match!Allocated(p.lines) <= book.left
  BY DEF Sound, Match!Approvable, Match!Owed, Match!Payable, Match!Candidates
<1> DEFINE left == book.left - Match!Allocated(p.lines)
           open == [c \in Match!Charge |->
                      IF c \in DOMAIN p.lines THEN book.open[c] - p.lines[c] ELSE book.open[c]]
<1>3. book' = [book EXCEPT !.left = left, !.open = open]
  BY <1>1 DEF Match!Approve
<1>4. left \in Nat
  BY <1>1, <1>2
<1>5. open \in [Match!Charge -> Nat]
  <2>1. ASSUME NEW c \in Match!Charge
        PROVE  (IF c \in DOMAIN p.lines THEN book.open[c] - p.lines[c] ELSE book.open[c]) \in Nat
    <3>1. book.open[c] \in Nat
      BY <1>1
    <3>2. c \in DOMAIN p.lines => book.open[c] - p.lines[c] \in Nat
      BY <1>2, <3>1
    <3> QED BY <3>1, <3>2
  <2> QED BY <2>1
<1> HIDE DEF left, open
<1>6. /\ DOMAIN book' = DOMAIN book /\ book'.tenant = book.tenant
      /\ book'.left = left /\ book'.open = open
  BY <1>1, <1>3
<1> QED BY <1>1, <1>4, <1>5, <1>6 DEF Match!BookFits, left

(* What is proposed stays what was proposed for the book as it is.         *)
LEMMA ProposedStays ==
  ASSUME Match!MatchingAssumption, Proposed, [Match!Next]_Match!vars
  PROVE  Proposed'
<1>1. CASE Match!Ingest
  <2>1. book' = book /\ category = "new" /\ fresh' = TRUE
        /\ proposals' = Match!generateSuggestions(book) /\ category' = Match!Classified(book, proposals')
    BY <1>1 DEF Match!Ingest
  <2>2. category' # "new" /\ (category' = "none" => Match!Confident(book, proposals'))
    BY <2>1 DEF Match!Classified
  <2> QED BY <2>1, <2>2 DEF Proposed
<1>2. CASE Match!Regenerate
  BY <1>2 DEF Match!Regenerate, Proposed
<1>3. ASSUME NEW p \in proposals, Match!Approve(p) PROVE Proposed'
  <2>1. /\ fresh /\ book.left > 0 /\ book.left \in Nat /\ Match!BookFits(book)
        /\ proposals = Match!generateSuggestions(book)
    BY <1>3 DEF Proposed, Match!BookFits
  <2>2. Sound(p)
    BY <1>3, <2>1, SuggestionsSound
  <2>3. Match!BookFits(book)' /\ book'.left = book.left - Match!Allocated(p.lines)
    BY <1>3, <2>1, <2>2, ApprovedFits
  <2>4. proposals' = {} /\ fresh' = FALSE /\ category' = category
    BY <1>3 DEF Match!Approve
  <2>5. category # "new"
    BY <2>1 DEF Proposed
  <2>6. category = "none" => book'.left = 0
    <3>1. category = "none" => Match!Allocated(p.lines) = book.left
      BY <1>3, <2>1 DEF Proposed, Match!Confident
    <3> QED BY <2>1, <2>3, <3>1
  <2> QED BY <2>3, <2>4, <2>5, <2>6 DEF Proposed
<1>4. CASE UNCHANGED Match!vars
  BY <1>4 DEF Match!vars, Proposed
<1> QED BY <1>1, <1>2, <1>3, <1>4 DEF Match!Next

(* What was proposed for the book as it is is sound.                       *)
LEMMA ProposedSound ==
  ASSUME Match!MatchingAssumption, Proposed
  PROVE  Match!ProposalsSound
<1>1. ASSUME NEW p \in proposals PROVE Match!Approvable(p) /\ Match!KeepsPromise(p)
  BY <1>1, SuggestionsSound DEF Proposed, Sound
<1>2. fresh => Match!ReferenceHonoured
  BY SuggestionsHonour DEF Proposed
<1>3. category = "none" => Match!Cardinality(proposals) = 1 \/ book.left = 0
  BY DEF Proposed, Match!Confident
<1> QED BY <1>1, <1>2, <1>3 DEF Match!ProposalsSound

(* Whatever was approved before, in whatever order: every proposal of a    *)
(* payment can be approved as it stands and keeps the promise of its       *)
(* strategy, a combination is the one the engine prefers of all that come  *)
(* to the payment, a known reference is honoured, and a payment ingested   *)
(* without an exception has one proposal that finishes it.  For any        *)
(* charges, tenants, references, balances and limits.                      *)
THEOREM ProposalsAreSound ==
  Match!MatchingAssumption => (Match!Spec => []Match!ProposalsSound)
<1> SUFFICES ASSUME Match!MatchingAssumption PROVE Match!Spec => []Match!ProposalsSound
  OBVIOUS
<1>1. Match!Init => Proposed
  BY DEF Match!Init, Match!MatchingAssumption, Proposed
<1>2. Proposed /\ [Match!Next]_Match!vars => Proposed'
  BY ProposedStays
<1>3. Proposed => Match!ProposalsSound
  BY ProposedSound
<1> QED BY <1>1, <1>2, <1>3, PTL DEF Match!Spec
=============================================================================
