----------------------------- MODULE MCDelivery -----------------------------
(***************************************************************************)
(* Instance for TLC.  The import and the feed share nothing but the outbox *)
(* and its queues, so a behaviour has one of them: an organization without *)
(* a provider, or one whose import was cancelled long ago.                 *)
(***************************************************************************)
EXTENDS Delivery

CONSTANT MaxTroubles  \* bound: what may go wrong, or be asked for again, in one behaviour

VARIABLE troubles

\* 1 is a payment that is held back, 2 reverses it, 3 is a payment out that is
\* sent twice, 4 is on an account that is not held, 5 comes in another currency
\* and late.
MCTarget == <<0, 1, 0, 0, 0>>

\* The feed, which interleaves more, gets one trouble less than the import.
MCInit == /\ OutboxInit /\ FeedInit
          /\ \/ ImportInit /\ ~connected /\ troubles = 0
             \/ /\ connected /\ troubles = 1
                /\ batch = [status |-> "CANCELLED", hash |-> 0, checkpoint |-> 0, created |-> 0]
                /\ file = 0
                /\ payments = [p \in Versions \X Rows |-> IF p[2] \in Known THEN 1 ELSE 0]
                /\ records = [r \in Rows |-> NoRecord]
                /\ client = [c \in Clients |-> Idle]
                /\ importRun = [w \in Workers |-> NoRun]
                /\ confirmed = {} /\ overtaken = FALSE

\* A run that can only fail, because the file was replaced or a payment
\* collides, is no trouble of its own.
Forced(w) == \/ On(w, "changed") \/ (On(w, "slice") /\ ~ENABLED CommitSlice(w))
             \/ Syncing(w, "item") /\ ~ENABLED ApplyItem(w)

\* A request that comes while another is under way is worth two troubles.
Begins(c) == BeginValidate(c) \/ Cancel(c) \/ \E v \in Versions: BeginConfirm(c, v)
Overlap == \E c \in Clients: Begins(c) /\ \E d \in Clients \ {c}: client[d] # Idle

\* Clients are alike: one comes alone, the other while it is under way.
InTurn == \A c, d \in Clients:
            c < d /\ client[d] = Idle /\ client'[d] # Idle => client[c] # Idle

Trouble == \/ \E w \in Workers: \/ Crash(w) \/ RejectSync(w)
                                \/ (FailBatch(w) \/ ThrowSync(w)) /\ ~Forced(w)
           \/ \E w \in Dispatchers: AbortPass(w) \/ PublishFails(w)
           \/ \E e \in Events: Stall(e) /\ ~Orphaned(e)
           \/ \E c \in Clients: \/ ApiFails(c) \/ Retry(c)
                                \/ ReadObject(c) /\ client'[c].hash # file
           \/ RequestSync /\ outbox[1].status # "absent"
           \/ \E i \in Items: StoreHook(i)

MCNext == /\ Next /\ InTurn
          /\ troubles' = troubles + (IF Overlap THEN 2 ELSE IF Trouble THEN 1 ELSE 0)
          /\ troubles' <= MaxTroubles

MCSpec == MCInit /\ [][MCNext]_<<vars, troubles>> /\ Fairness
=============================================================================
