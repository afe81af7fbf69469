-------------------------- MODULE PeriodLocksProofs --------------------------
(***************************************************************************)
(* What the period locks guarantee for any number of sessions and periods. *)
(* The argument is one inductive invariant: a session holds exactly the    *)
(* locks it has taken (LockDiscipline), so that whatever it read under     *)
(* them is still true when it commits (VerdictStands, TransitionStands).   *)
(***************************************************************************)
EXTENDS PeriodLocks, TLAPS

(* What a session asked for is well formed, and the locks it holds are     *)
(* those of its request that it has taken.                                 *)
LockDiscipline ==
    \A t \in Tx :
        /\ req[t].target \in req[t].need
        /\ todo[t] \subseteq req[t].need
        /\ req[t].kind \in Transition => req[t].need = {req[t].target}
        /\ pc[t] = "idle" => \A p \in Period : holder[p] # t
        /\ pc[t] = "locking" => want[t] \in todo[t]
        /\ pc[t] \in {"deciding", "committing"} => todo[t] = {}
        /\ pc[t] # "idle" =>
              \A p \in Period : holder[p] = t <=> p \in req[t].need \ todo[t]

(* The locks a session has taken come before those it has still to take.   *)
SortedSoFar ==
    \A t \in Tx :
        pc[t] = "locking" /\ req[t].kind # "importBatch" =>
            /\ \A p \in req[t].need \ todo[t], q \in todo[t] : p < q
            /\ \A q \in todo[t] : want[t] <= q

(* A posting that may commit writes only into periods that are not closed. *)
VerdictStands ==
    \A t \in Tx :
        pc[t] = "committing" /\ req[t].kind \in Posting =>
            /\ found[t].accepted \subseteq req[t].need
            /\ req[t].kind # "providerReversal"
                  => \A p \in found[t].accepted : status[p] # "CLOSED"

(* What a transition read is still so.                                     *)
TransitionStands ==
    \A t \in Tx :
        pc[t] = "committing" /\ req[t].kind \in Transition =>
            /\ found[t].version = version[req[t].target]
            /\ found[t].posted = posted[req[t].target]
            /\ req[t].kind = "startReview" => status[req[t].target] # "CLOSED"
            /\ req[t].kind = "close" => status[req[t].target] = "IN_REVIEW"
            /\ req[t].kind \in {"close", "reopen"}
                  => req[t].expected = version[req[t].target]

IInv ==
    /\ TypeOK
    /\ LockDiscipline
    /\ SortedSoFar
    /\ VerdictStands
    /\ TransitionStands
    /\ SnapshotExact

----------------------------------------------------------------------------
(* The first period of the property exists. *)
LEMMA PeriodOne == 1 \in Period
  BY PeriodAssumption DEF Period

(* The empty database of Init satisfies the invariant. *)
LEMMA InitIInv == Init => IInv
<1> SUFFICES ASSUME Init PROVE IInv
  OBVIOUS
<1>1. TypeOK
  BY PeriodOne DEF Init, TypeOK, Status, NothingAsked, NothingFound, Request, Kind, Posting
<1>2. LockDiscipline
  BY PeriodOne, NoTxAssumption
  DEF Init, LockDiscipline, NothingAsked, Transition
<1>3. SortedSoFar /\ VerdictStands /\ TransitionStands
  BY DEF Init, SortedSoFar, VerdictStands, TransitionStands
<1>4. SnapshotExact
  BY DEF Init, SnapshotExact
<1> QED
  BY <1>1, <1>2, <1>3, <1>4 DEF IInv

(* A transaction begins: it asks for locks and holds none. *)
LEMMA BeginIInv ==
  ASSUME IInv, NEW t \in Tx, Begin(t)
  PROVE  IInv'
<1>0. PICK k \in Kind, p \in Period, S \in SUBSET Period, e \in 0..MaxVersion :
        LET r == [kind |-> k, target |-> p, need |-> S, expected |-> e] IN
        /\ WellFormed(r)
        /\ req' = [req EXCEPT ![t] = r]
        /\ todo' = [todo EXCEPT ![t] = S]
        /\ \E q \in Period : NextLock(k, q, S) /\ want' = [want EXCEPT ![t] = q]
  BY Zenon DEF Begin
<1> DEFINE r == [kind |-> k, target |-> p, need |-> S, expected |-> e]
<1>1. PICK q \in Period :
        /\ WellFormed(r)
        /\ req' = [req EXCEPT ![t] = r]
        /\ todo' = [todo EXCEPT ![t] = S]
        /\ NextLock(k, q, S)
        /\ want' = [want EXCEPT ![t] = q]
  BY <1>0, Zenon
<1>2. /\ pc[t] = "idle"
      /\ pc' = [pc EXCEPT ![t] = "locking"]
      /\ UNCHANGED <<status, version, posted, unwound, snapshot, holder, found>>
  BY DEF Begin, db
<1>3. /\ r \in Request
      /\ p \in S
      /\ k \in Transition => S = {p}
      /\ q \in S
      /\ k # "importBatch" => \A m \in S : q <= m
  BY <1>1, BoundAssumption DEF WellFormed, NextLock, Least, Request, Transition
<1>4. TypeOK'
  BY <1>1, <1>2, <1>3 DEF IInv, TypeOK
<1>5. LockDiscipline'
  BY <1>1, <1>2, <1>3 DEF IInv, TypeOK, LockDiscipline
<1>6. SortedSoFar'
  BY <1>1, <1>2, <1>3 DEF IInv, TypeOK, SortedSoFar
<1>7. VerdictStands' /\ TransitionStands' /\ SnapshotExact'
  BY <1>1, <1>2 DEF IInv, TypeOK, VerdictStands, TransitionStands, SnapshotExact
<1> QED
  BY <1>4, <1>5, <1>6, <1>7 DEF IInv

(* One lock more. *)
LEMMA AcquireIInv ==
  ASSUME IInv, NEW t \in Tx, Acquire(t)
  PROVE  IInv'
<1> DEFINE left == todo[t] \ {want[t]}
<1>1. /\ pc[t] = "locking"
      /\ holder[want[t]] = NoTx
      /\ holder' = [holder EXCEPT ![want[t]] = t]
      /\ todo' = [todo EXCEPT ![t] = left]
      /\ UNCHANGED <<status, version, posted, unwound, snapshot, req, found>>
  BY DEF Acquire, LockIsFree, db
<1>2. \/ /\ left = {}
         /\ pc' = [pc EXCEPT ![t] = "deciding"]
         /\ UNCHANGED want
      \/ /\ UNCHANGED pc
         /\ \E q \in Period : /\ NextLock(req[t].kind, q, left)
                              /\ want' = [want EXCEPT ![t] = q]
  BY DEF Acquire
<1>3. want[t] \in Period /\ todo[t] \subseteq Period
  BY DEF IInv, TypeOK
<1>4. TypeOK'
  <2>1. pc' \in [Tx -> {"idle", "locking", "deciding", "committing"}] /\ want' \in [Tx -> Period]
    BY <1>2 DEF IInv, TypeOK
  <2>2. holder' \in [Period -> Tx \cup {NoTx}] /\ todo' \in [Tx -> SUBSET Period]
    BY <1>1, <1>3 DEF IInv, TypeOK
  <2> QED
    BY <1>1, <2>1, <2>2 DEF IInv, TypeOK
<1>5. LockDiscipline'
  <2>1. ASSUME NEW u \in Tx, u # t
        PROVE  /\ UNCHANGED <<req[u], todo[u], want[u], pc[u]>>
               /\ \A p \in Period : holder'[p] = u <=> holder[p] = u
    BY <1>1, <1>2, <1>3, <2>1, NoTxAssumption DEF IInv, TypeOK
  <2>2. want[t] \in todo[t] /\ want[t] \in req[t].need
    BY <1>1 DEF IInv, LockDiscipline
  <2>3. \A p \in Period : holder'[p] = t <=> p \in req'[t].need \ todo'[t]
    BY <1>1, <1>3, <2>2 DEF IInv, TypeOK, LockDiscipline
  <2>4. pc'[t] = "locking" => want'[t] \in todo'[t]
    BY <1>1, <1>2, <1>3 DEF IInv, TypeOK, NextLock, Least
  <2>5. pc'[t] # "idle" /\ (pc'[t] \in {"deciding", "committing"} => todo'[t] = {})
    BY <1>1, <1>2 DEF IInv, TypeOK
  <2> QED
    BY <1>1, <2>1, <2>3, <2>4, <2>5 DEF IInv, LockDiscipline
<1>6. SortedSoFar'
  <2>1. ASSUME NEW u \in Tx, u # t
        PROVE  UNCHANGED <<req[u], todo[u], want[u], pc[u]>>
    BY <1>1, <1>2, <2>1 DEF IInv, TypeOK
  <2>2. ASSUME pc'[t] = "locking", req'[t].kind # "importBatch"
        PROVE  /\ \A p \in req'[t].need \ todo'[t], q \in todo'[t] : p < q
               /\ \A q \in todo'[t] : want'[t] <= q
    <3>1. Least(want'[t], left)
      BY <1>1, <1>2, <2>2 DEF IInv, TypeOK, NextLock
    <3>2. /\ \A p \in req[t].need \ todo[t], q \in todo[t] : p < q
          /\ \A q \in todo[t] : want[t] <= q
      BY <1>1, <2>2 DEF IInv, SortedSoFar
    <3>3. \A p \in Period : p \in Nat
      BY PeriodAssumption DEF Period
    <3>4. req[t].need \subseteq Period
      BY DEF IInv, TypeOK, Request
    <3>5. todo'[t] = left /\ req'[t] = req[t]
      BY <1>1 DEF IInv, TypeOK
    <3> QED
      BY <1>3, <3>1, <3>2, <3>3, <3>4, <3>5 DEF Least
  <2> QED
    BY <2>1, <2>2 DEF IInv, SortedSoFar
<1>7. VerdictStands' /\ TransitionStands' /\ SnapshotExact'
  BY <1>1, <1>2 DEF IInv, TypeOK, VerdictStands, TransitionStands, SnapshotExact
<1> QED
  BY <1>4, <1>5, <1>6, <1>7 DEF IInv

----------------------------------------------------------------------------
(* Two sessions that have all their locks touch different periods. *)
LEMMA LockedApart ==
  ASSUME IInv, NEW t \in Tx, NEW u \in Tx, t # u,
         pc[t] \in {"deciding", "committing"}, pc[u] \in {"deciding", "committing"}
  PROVE  req[t].need \cap req[u].need = {}
<1>1. \A p \in Period : p \in req[t].need => holder[p] = t
  BY DEF IInv, LockDiscipline
<1>2. \A p \in Period : p \in req[u].need => holder[p] = u
  BY DEF IInv, LockDiscipline
<1>3. req[t].need \subseteq Period
  BY DEF IInv, TypeOK, Request
<1> QED
  BY <1>1, <1>2, <1>3

(* The end of a transaction: it holds nothing, the others are untouched.   *)
LEMMA FinishSession ==
  ASSUME IInv, NEW t \in Tx, Finish(t)
  PROVE  /\ holder' \in [Period -> Tx \cup {NoTx}]
         /\ pc' \in [Tx -> {"idle", "locking", "deciding", "committing"}]
         /\ req' \in [Tx -> Request]
         /\ todo' \in [Tx -> SUBSET Period]
         /\ want' \in [Tx -> Period]
         /\ found' \in [Tx -> [accepted : SUBSET Period, version : Nat, posted : Nat]]
         /\ LockDiscipline'
         /\ SortedSoFar'
         /\ pc'[t] = "idle"
         /\ \A u \in Tx \ {t} : UNCHANGED <<req[u], todo[u], want[u], pc[u], found[u]>>
<1>1. /\ pc' = [pc EXCEPT ![t] = "idle"]
      /\ holder' = [p \in Period |-> IF holder[p] = t THEN NoTx ELSE holder[p]]
      /\ req' = [req EXCEPT ![t] = NothingAsked]
      /\ todo' = [todo EXCEPT ![t] = {}]
      /\ want' = [want EXCEPT ![t] = 1]
      /\ found' = [found EXCEPT ![t] = NothingFound]
  BY DEF Finish
<1>2. /\ NothingAsked \in Request
      /\ NothingFound \in [accepted : SUBSET Period, version : Nat, posted : Nat]
      /\ NothingAsked.target \in NothingAsked.need
      /\ NothingAsked.kind \notin Transition
  BY PeriodOne DEF NothingAsked, NothingFound, Request, Kind, Posting, Transition
<1>3. /\ holder' \in [Period -> Tx \cup {NoTx}]
      /\ pc' \in [Tx -> {"idle", "locking", "deciding", "committing"}]
      /\ req' \in [Tx -> Request]
      /\ todo' \in [Tx -> SUBSET Period]
      /\ want' \in [Tx -> Period]
      /\ found' \in [Tx -> [accepted : SUBSET Period, version : Nat, posted : Nat]]
  BY <1>1, <1>2, PeriodOne DEF IInv, TypeOK
<1>4. \A u \in Tx \ {t} :
         /\ UNCHANGED <<req[u], todo[u], want[u], pc[u], found[u]>>
         /\ \A p \in Period : holder'[p] = u <=> holder[p] = u
  BY <1>1, NoTxAssumption DEF IInv, TypeOK
<1>5. /\ pc'[t] = "idle"
      /\ todo'[t] = {}
      /\ req'[t] = NothingAsked
      /\ \A p \in Period : holder'[p] # t
  BY <1>1, NoTxAssumption DEF IInv, TypeOK
<1>6. LockDiscipline'
  BY <1>2, <1>4, <1>5 DEF IInv, LockDiscipline
<1>7. SortedSoFar'
  BY <1>4, <1>5 DEF IInv, SortedSoFar
<1> QED
  BY <1>3, <1>4, <1>5, <1>6, <1>7

(* Rolling back changes no row. *)
LEMMA RollbackIInv ==
  ASSUME IInv, NEW t \in Tx, Finish(t), UNCHANGED db
  PROVE  IInv'
<1>1. UNCHANGED <<status, version, posted, unwound, snapshot>>
  BY DEF db
<1>2. TypeOK'
  BY <1>1, FinishSession DEF IInv, TypeOK
<1>3. /\ pc'[t] = "idle"
      /\ \A u \in Tx \ {t} : UNCHANGED <<req[u], pc[u], found[u]>>
  BY FinishSession
<1>4. VerdictStands'
  BY <1>1, <1>3 DEF IInv, VerdictStands
<1>5. TransitionStands'
  BY <1>1, <1>3 DEF IInv, TransitionStands
<1>6. SnapshotExact'
  BY <1>1 DEF IInv, SnapshotExact
<1> QED
  BY <1>2, <1>4, <1>5, <1>6, FinishSession DEF IInv

(* The verdict of a posting, taken with every lock in hand. *)
LEMMA DecidePostingIInv ==
  ASSUME IInv, NEW t \in Tx, DecidePosting(t)
  PROVE  IInv'
<1>1. CASE ~MayPost(req[t])
  <2>1. Finish(t) /\ UNCHANGED db
    BY <1>1 DEF DecidePosting
  <2> QED
    BY <2>1, RollbackIInv
<1>2. CASE MayPost(req[t])
  <2> DEFINE f == [NothingFound EXCEPT !.accepted = Accepted(req[t])]
  <2>1. /\ pc[t] = "deciding"
        /\ req[t].kind \in Posting
        /\ pc' = [pc EXCEPT ![t] = "committing"]
        /\ found' = [found EXCEPT ![t] = f]
        /\ UNCHANGED <<status, version, posted, unwound, snapshot>>
        /\ UNCHANGED <<holder, req, todo, want>>
    BY <1>2 DEF DecidePosting, db
  <2>2. /\ req[t] \in Request
        /\ req[t].target \in req[t].need
        /\ req[t].kind \notin Transition
    BY <2>1 DEF IInv, TypeOK, LockDiscipline, Posting, Transition
  <2>3. Accepted(req[t]) \subseteq req[t].need
    BY <2>2 DEF Accepted
  <2>4. f \in [accepted : SUBSET Period, version : Nat, posted : Nat]
        /\ f.accepted = Accepted(req[t])
    BY <2>2, <2>3 DEF NothingFound, Request
  <2>5. req[t].kind # "providerReversal"
          => \A p \in f.accepted : status[p] # "CLOSED"
    BY <1>2, <2>1, <2>2, <2>4
    DEF Accepted, MayPost, periodAcceptsPostings, StatusUnderLock, Posting, Request
  <2>6. TypeOK'
    BY <2>1, <2>4 DEF IInv, TypeOK
  <2>7. LockDiscipline' /\ SortedSoFar' /\ SnapshotExact'
    BY <2>1 DEF IInv, TypeOK, LockDiscipline, SortedSoFar, SnapshotExact
  <2>8. VerdictStands'
    BY <2>1, <2>3, <2>4, <2>5 DEF IInv, TypeOK, VerdictStands
  <2>9. TransitionStands'
    BY <2>1, <2>2 DEF IInv, TypeOK, TransitionStands
  <2> QED
    BY <2>6, <2>7, <2>8, <2>9 DEF IInv
<1> QED
  BY <1>1, <1>2

(* The verdict of a transition, and what a close counts for its snapshot. *)
LEMMA DecideTransitionIInv ==
  ASSUME IInv, NEW t \in Tx, DecideTransition(t)
  PROVE  IInv'
<1>1. CASE ~MayMove(req[t])
  <2>1. Finish(t) /\ UNCHANGED db
    BY <1>1 DEF DecideTransition
  <2> QED
    BY <2>1, RollbackIInv
<1>2. CASE MayMove(req[t])
  <2> DEFINE p == req[t].target
             f == [accepted |-> {}, version |-> version[p], posted |-> posted[p]]
  <2>1. /\ pc[t] = "deciding"
        /\ req[t].kind \in Transition
        /\ pc' = [pc EXCEPT ![t] = "committing"]
        /\ found' = [found EXCEPT ![t] = f]
        /\ UNCHANGED <<status, version, posted, unwound, snapshot>>
        /\ UNCHANGED <<holder, req, todo, want>>
    BY <1>2 DEF DecideTransition, db
  <2>2. req[t] \in Request /\ p \in Period /\ req[t].kind \notin Posting
    BY <2>1 DEF IInv, TypeOK, Request, Posting, Transition
  <2>3. f \in [accepted : SUBSET Period, version : Nat, posted : Nat]
    BY <2>2 DEF IInv, TypeOK
  <2>4. /\ req[t].kind = "startReview" => status[p] # "CLOSED"
        /\ req[t].kind = "close" => status[p] = "IN_REVIEW"
        /\ req[t].kind \in {"close", "reopen"} => req[t].expected = version[p]
    BY <1>2 DEF MayMove, StatusUnderLock
  <2>5. TypeOK'
    BY <2>1, <2>3 DEF IInv, TypeOK
  <2>6. LockDiscipline' /\ SortedSoFar' /\ SnapshotExact'
    BY <2>1 DEF IInv, TypeOK, LockDiscipline, SortedSoFar, SnapshotExact
  <2>7. VerdictStands'
    BY <2>1, <2>2 DEF IInv, TypeOK, VerdictStands
  <2>8. TransitionStands'
    BY <2>1, <2>4 DEF IInv, TypeOK, TransitionStands
  <2> QED
    BY <2>5, <2>6, <2>7, <2>8 DEF IInv
<1> QED
  BY <1>1, <1>2

(* Entries and missing rows of the locked periods appear at the commit.    *)
LEMMA CommitPostingIInv ==
  ASSUME IInv, NEW t \in Tx, CommitPosting(t)
  PROVE  IInv'
<1> DEFINE need == req[t].need
<1>1. /\ pc[t] = "committing"
      /\ req[t].kind \in Posting
      /\ status' = [p \in Period |->
                       IF p \in need
                       THEN IF status[p] = "ABSENT" THEN "OPEN" ELSE status[p]
                       ELSE status[p]]
      /\ Finish(t)
      /\ UNCHANGED <<version, snapshot>>
  BY DEF CommitPosting, RowsCreated, StatusUnderLock
<1>2. /\ found[t].accepted \subseteq need
      /\ req[t].kind # "providerReversal"
            => \A p \in found[t].accepted : status[p] # "CLOSED"
  BY <1>1 DEF IInv, VerdictStands
<1>3. /\ posted' \in [Period -> Nat]
      /\ unwound' \in [Period -> Nat]
      /\ \A p \in Period : p \notin found[t].accepted => posted'[p] = posted[p]
      /\ \A p \in Period : status[p] = "CLOSED" => posted'[p] = posted[p]
  <2>1. CASE req[t].kind = "providerReversal"
    BY <2>1 DEF CommitPosting, Count, IInv, TypeOK
  <2>2. CASE req[t].kind # "providerReversal"
    BY <1>2, <2>2 DEF CommitPosting, Count, IInv, TypeOK
  <2> QED
    BY <2>1, <2>2
<1>4. \A p \in Period : /\ status'[p] = "CLOSED" <=> status[p] = "CLOSED"
                        /\ p \notin need => status'[p] = status[p]
  BY <1>1 DEF IInv, TypeOK
<1>5. /\ pc'[t] = "idle"
      /\ \A u \in Tx \ {t} : UNCHANGED <<req[u], pc[u], found[u]>>
  BY <1>1, FinishSession
<1>6. TypeOK'
  BY <1>1, <1>3, FinishSession DEF IInv, TypeOK, Status
<1>7. VerdictStands'
  <2>1. ASSUME NEW u \in Tx, pc[u] = "committing", req[u].kind \in Posting
        PROVE  found[u].accepted \subseteq Period
    BY DEF IInv, TypeOK
  <2> QED
    BY <1>4, <1>5, <2>1 DEF IInv, VerdictStands
<1>8. TransitionStands'
  <2>1. ASSUME NEW u \in Tx \ {t}, pc[u] = "committing"
        PROVE  req[u].target \notin need
    BY <1>1, <2>1, LockedApart DEF IInv, LockDiscipline
  <2>2. \A u \in Tx : req[u].target \in Period
    BY DEF IInv, TypeOK, Request
  <2> QED
    BY <1>1, <1>2, <1>3, <1>4, <1>5, <2>1, <2>2 DEF IInv, TransitionStands
<1>9. SnapshotExact'
  BY <1>1, <1>3, <1>4 DEF IInv, SnapshotExact
<1> QED
  BY <1>1, <1>6, <1>7, <1>8, <1>9, FinishSession DEF IInv

(* A transition moves its own period, whose lock it holds. *)
LEMMA CommitTransitionIInv ==
  ASSUME IInv, NEW t \in Tx, CommitTransition(t)
  PROVE  IInv'
<1> DEFINE p == req[t].target
           k == req[t].kind
<1>1. /\ pc[t] = "committing"
      /\ k \in Transition
      /\ status' = [status EXCEPT ![p] = NewStatus(k)]
      /\ version' = [version EXCEPT ![p] = @ + 1]
      /\ snapshot' = IF k = "close" THEN [snapshot EXCEPT ![p] = found[t].posted]
                                    ELSE snapshot
      /\ Finish(t)
      /\ UNCHANGED <<posted, unwound>>
  BY DEF CommitTransition, IInv, TransitionStands
<1>2. /\ p \in Period
      /\ p \in req[t].need
      /\ found[t].posted = posted[p]
      /\ found[t].posted \in Nat
  BY <1>1 DEF IInv, TypeOK, Request, LockDiscipline, TransitionStands
<1>3. /\ NewStatus(k) \in Status
      /\ NewStatus(k) = "CLOSED" <=> k = "close"
  BY <1>1 DEF NewStatus, Transition, Status
<1>4. /\ pc'[t] = "idle"
      /\ \A u \in Tx \ {t} : UNCHANGED <<req[u], pc[u], found[u]>>
  BY <1>1, FinishSession
<1>5. TypeOK'
  BY <1>1, <1>2, <1>3, FinishSession DEF IInv, TypeOK
<1>6. ASSUME NEW u \in Tx \ {t}, pc[u] = "committing"
      PROVE  p \notin req[u].need
  BY <1>1, <1>2, <1>6, LockedApart
<1>7. VerdictStands'
  BY <1>1, <1>4, <1>6 DEF IInv, TypeOK, VerdictStands
<1>8. TransitionStands'
  <2>1. \A u \in Tx : req[u].target \in req[u].need
    BY DEF IInv, LockDiscipline
  <2> QED
    BY <1>1, <1>4, <1>6, <2>1 DEF IInv, TypeOK, TransitionStands
<1>9. SnapshotExact'
  <2>1. \A q \in Period : q # p => status'[q] = status[q] /\ snapshot'[q] = snapshot[q]
    BY <1>1, <1>2 DEF IInv, TypeOK
  <2>2. status'[p] = "CLOSED" => snapshot'[p] = posted[p]
    BY <1>1, <1>2, <1>3 DEF IInv, TypeOK
  <2> QED
    BY <1>1, <2>1, <2>2 DEF IInv, SnapshotExact
<1> QED
  BY <1>1, <1>5, <1>7, <1>8, <1>9, FinishSession DEF IInv

(* Every action of PeriodLocks preserves the invariant, one step each. *)
LEMMA NextIInv == IInv /\ [Next]_vars => IInv'
<1> SUFFICES ASSUME IInv, [Next]_vars PROVE IInv'
  OBVIOUS
<1>1. ASSUME NEW t \in Tx, Begin(t) PROVE IInv'
  BY <1>1, BeginIInv
<1>2. ASSUME NEW t \in Tx, Acquire(t) PROVE IInv'
  BY <1>2, AcquireIInv
<1>3. ASSUME NEW t \in Tx, DecidePosting(t) PROVE IInv'
  BY <1>3, DecidePostingIInv
<1>4. ASSUME NEW t \in Tx, DecideTransition(t) PROVE IInv'
  BY <1>4, DecideTransitionIInv
<1>5. ASSUME NEW t \in Tx, CommitPosting(t) PROVE IInv'
  BY <1>5, CommitPostingIInv
<1>6. ASSUME NEW t \in Tx, CommitTransition(t) PROVE IInv'
  BY <1>6, CommitTransitionIInv
<1>7. ASSUME NEW t \in Tx, Rollback(t) PROVE IInv'
  BY <1>7, RollbackIInv DEF Rollback
<1>8. CASE UNCHANGED vars
  BY <1>8 DEF vars, db, session, IInv, TypeOK, LockDiscipline, SortedSoFar,
              VerdictStands, TransitionStands, SnapshotExact
<1> QED
  BY <1>1, <1>2, <1>3, <1>4, <1>5, <1>6, <1>7, <1>8 DEF Next

(* The inductive invariant holds in every reachable state. *)
LEMMA Invariance == Spec => []IInv
<1> QED
  BY InitIInv, NextIInv, PTL DEF Spec

----------------------------------------------------------------------------
(* The variables keep their types: rows, locks and sessions of any number  *)
(* of periods and sessions.                                                *)
THEOREM TypeCorrect == Spec => []TypeOK
<1>1. IInv => TypeOK
  BY DEF IInv
<1> QED
  BY <1>1, Invariance, PTL

(* While a period is CLOSED, its close snapshot counts exactly the entries *)
(* that the checked posting paths ever wrote into it.                      *)
THEOREM SnapshotIsExact == Spec => []SnapshotExact
<1>1. IInv => SnapshotExact
  BY DEF IInv
<1> QED
  BY <1>1, Invariance, PTL

(* The version compare-and-swap of a period transition cannot fail.        *)
THEOREM CompareAndSwapNeverFails == Spec => []LockedVersionIsCurrent
<1>1. IInv => LockedVersionIsCurrent
  BY DEF IInv, TransitionStands, LockedVersionIsCurrent
<1> QED
  BY <1>1, Invariance, PTL

(* A session waits only for a waiting session that asks for a later lock,  *)
(* unless that session is an import batch: sorted order leaves no circle.  *)
THEOREM SortedLocksCannotDeadlock == Spec => []WaitsClimb
<1>1. IInv => WaitsClimb
  <2> SUFFICES ASSUME IInv, NEW t \in Tx, NEW u \in Tx, WaitsFor(t, u),
                      pc[u] = "locking", req[u].kind # "importBatch"
               PROVE  want[t] < want[u]
    BY DEF WaitsClimb
  <2>1. want[t] \in Period /\ holder[want[t]] = u
    BY DEF IInv, TypeOK, WaitsFor
  <2>2. want[t] \in req[u].need \ todo[u]
    BY <2>1 DEF IInv, LockDiscipline
  <2>3. want[u] \in todo[u]
    BY DEF IInv, LockDiscipline
  <2> QED
    BY <2>2, <2>3 DEF IInv, SortedSoFar
<1> QED
  BY <1>1, Invariance, PTL

(* No checked path ever commits an entry into a CLOSED period. *)
THEOREM ClosedPeriodsRefusePostings == Spec => NoPostingIntoClosed
<1>1. IInv /\ [Next]_vars
        => [\A p \in Period : posted'[p] # posted[p] => status[p] # "CLOSED"]_vars
  <2> SUFFICES ASSUME IInv, Next, NEW p \in Period, posted'[p] # posted[p]
               PROVE  status[p] # "CLOSED"
    OBVIOUS
  <2>1. PICK t \in Tx : CommitPosting(t)
    BY DEF Next, Begin, Acquire, DecidePosting, DecideTransition, CommitTransition,
           Rollback, db
  <2>2. /\ req[t].kind # "providerReversal"
        /\ p \in found[t].accepted
    BY <2>1 DEF CommitPosting, Count, IInv, TypeOK
  <2> QED
    BY <2>1, <2>2 DEF CommitPosting, IInv, VerdictStands
<1> QED
  BY <1>1, Invariance, PTL DEF Spec, NoPostingIntoClosed

(* A period closes only out of review, and is closed or reopened only by a *)
(* controller who had seen its last transition.                            *)
THEOREM ControllersSeeTheLastTransition == Spec => TransitionsSeeTheLastOne
<1> DEFINE Closes(p) == status'[p] = "CLOSED" /\ status[p] # "CLOSED"
           Moves(p) == (status'[p] = "CLOSED") # (status[p] = "CLOSED")
           Seen(p) == \E t \in Tx : /\ pc[t] = "committing" /\ pc'[t] = "idle"
                                    /\ req[t].target = p
                                    /\ req[t].expected = version[p]
<1>1. IInv /\ [Next]_vars
        => [\A p \in Period : /\ Closes(p) => status[p] = "IN_REVIEW"
                              /\ Moves(p) => Seen(p)]_vars
  <2> SUFFICES ASSUME IInv, Next, NEW p \in Period
               PROVE  /\ Closes(p) => status[p] = "IN_REVIEW"
                      /\ Moves(p) => Seen(p)
    OBVIOUS
  <2>1. CASE status'[p] = status[p]
    BY <2>1
  <2>2. ASSUME NEW t \in Tx, CommitPosting(t)
        PROVE  ~Moves(p) /\ ~Closes(p)
    BY <2>2 DEF CommitPosting, RowsCreated, StatusUnderLock
  <2>3. ASSUME NEW t \in Tx, CommitTransition(t), status'[p] # status[p]
        PROVE  /\ Closes(p) => status[p] = "IN_REVIEW"
               /\ Moves(p) => Seen(p)
    <3>1. /\ pc[t] = "committing"
          /\ req[t].kind \in Transition
          /\ status' = [status EXCEPT ![req[t].target] = NewStatus(req[t].kind)]
          /\ Finish(t)
      BY <2>3 DEF CommitTransition
    <3>2. p = req[t].target /\ status'[p] = NewStatus(req[t].kind)
      BY <2>3, <3>1 DEF IInv, TypeOK
    <3>3. /\ req[t].kind = "startReview" => status[p] # "CLOSED"
          /\ req[t].kind = "close" => status[p] = "IN_REVIEW"
          /\ req[t].kind \in {"close", "reopen"} => req[t].expected = version[p]
      BY <3>1, <3>2 DEF IInv, TransitionStands
    <3>4. pc'[t] = "idle"
      BY <3>1, FinishSession
    <3> QED
      BY <3>1, <3>2, <3>3, <3>4 DEF NewStatus, Transition
  <2> QED
    BY <2>1, <2>2, <2>3
    DEF Next, Begin, Acquire, DecidePosting, DecideTransition, Rollback, db
<1> QED
  BY <1>1, Invariance, PTL DEF Spec, TransitionsSeeTheLastOne
=============================================================================
