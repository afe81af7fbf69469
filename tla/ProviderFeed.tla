---------------------------- MODULE ProviderFeed ----------------------------
(***************************************************************************)
(* Payments and reversals that arrive from the banking provider: the sync  *)
(* job that walks its pages behind a cursor                                *)
(* (apps/worker/src/processors/provider-sync.processor.ts), the simulator  *)
(* that serves them (packages/integrations/src/provider/simulator.ts) and  *)
(* the webhooks that report reversals on their own.                        *)
(*                                                                         *)
(* The stream is 1..LastItem.  An item is a payment in, a payment out, or  *)
(* a reversal of an earlier one.  A page is the set of deliveries 2*i and, *)
(* for an item sent twice, 2*i + 1; they are applied in ascending order,   *)
(* which is the order of the page: what was held back comes first and has  *)
(* a smaller number.                                                       *)
(***************************************************************************)
EXTENDS Outbox

CONSTANTS LastItem,
          PageSize,   \* bank.syncPageSize
          MaxPages,   \* MAX_PAGES_PER_RUN
          Target,     \* Target[i]: what item i reverses, 0 for a payment
          Outgoing,   \* payments out
          Unheld,     \* on accounts that Rentwell does not hold
          Foreign,    \* payments in another currency than their account's
          Late,       \* held back from its page and delivered with the next
          Twice,      \* delivered twice in its page
          Refused,    \* ingest throws: its period is closed
          Flaky,      \* offsets at which the first fetch of an instance fails
          MaxSyncs    \* bound: syncs requested

Items == 1..LastItem

ASSUME FeedAssumption ==
  /\ LastItem \in Nat /\ PageSize \in Nat \ {0} /\ MaxPages \in Nat \ {0}
  /\ Target \in [Items -> 0..(LastItem + 1)]   \* LastItem + 1: never delivered
  /\ Outgoing \subseteq Items /\ Unheld \subseteq Items /\ Foreign \subseteq Items
  /\ Late \subseteq Items /\ Twice \subseteq Items
  /\ Refused \subseteq Items /\ Flaky \subseteq Nat

VARIABLES connected,  \* the IntegrationConnection exists
          cursor,     \* its syncCursor: "null" is the offset 0 with nothing deferred
          paid,       \* paid[i]: payments with the external id of item i
          reversed,   \* payments that are REVERSED
          conflicts,  \* items for which an exception was opened: INTEGRATION_CONFLICT,
                      \* or CURRENCY_MISMATCH
          hooks,      \* hooks[i]: the stored webhook that reports reversal i
          reports,    \* the PROVIDER_SYNC_COMPLETED audit events of syncs
          syncRun     \* syncRun[w]: the sync that process w is running

feedVars == <<connected, cursor, paid, reversed, conflicts, hooks, reports, syncRun>>

Start == [offset |-> 0, deferred |-> {}]

NoSync == [step |-> "idle", event |-> 0, cursor |-> Start, pages |-> 0, left |-> {}, found |-> FALSE]
\* The steps are idle, fetch, page, item, done and told.

FeedInit ==
  /\ connected \in BOOLEAN
  /\ cursor = Start
  /\ paid = [i \in Items |-> 0]
  /\ reversed = {} /\ conflicts = {} /\ reports = {}
  /\ hooks = [i \in Items |-> "none"]
  /\ syncRun = [w \in Workers |-> NoSync]

-----------------------------------------------------------------------------
(* The provider                                                            *)

InSlice(c) == {i \in Items: c.offset < i /\ i <= c.offset + PageSize}
OnTime(c) == InSlice(c) \ Late

\* fetchTransactions
Page(c) == {2 * i: i \in c.deferred \cup OnTime(c)} \cup {2 * i + 1: i \in OnTime(c) \cap Twice}

(* A mutation: the cursor forgets what was held back. *)
NextCursorForgets(c) ==
  [offset |-> IF c.offset + PageSize < LastItem THEN c.offset + PageSize ELSE LastItem,
   deferred |-> {}]

NextCursor(c) == [offset   |-> IF c.offset + PageSize < LastItem THEN c.offset + PageSize ELSE LastItem,
                  deferred |-> InSlice(c) \cap Late]
HasMore(c) == NextCursor(c).offset < LastItem \/ NextCursor(c).deferred # {}

ItemOf(d) == d \div 2
IsPayment(i) == Target[i] = 0
Received(i) == i \in Items /\ paid[i] > 0

-----------------------------------------------------------------------------
(* The sync job                                                            *)

Syncing(w, s) == syncRun[w].step = s
LetGo(w) == syncRun' = [syncRun EXCEPT ![w] = NoSync]

\* TransactionsService.requestSync
RequestSync ==
  /\ connected /\ Cardinality({e \in Events: outbox[e].kind = "sync"}) < MaxSyncs
  /\ \E e \in Events: IsNext(e) /\ outbox' = Appended(e, "sync")
  /\ UNCHANGED <<feedVars, pass, jobs>>

\* A new adapter is built for the run, so nothing is remembered of fetches
\* that failed before.
TakeSync(w) ==
  /\ Syncing(w, "idle")
  /\ \E e \in Events:
       /\ Waiting(e, "sync")
       /\ jobs' = Taken(w, e)
       /\ syncRun' = [syncRun EXCEPT ![w] =
            [NoSync EXCEPT !.step = "fetch", !.event = e, !.cursor = cursor]]
  /\ UNCHANGED <<connected, cursor, paid, reversed, conflicts, hooks, reports, outbox, pass>>

FetchPage(w) ==
  /\ Syncing(w, "fetch") /\ syncRun[w].cursor.offset \notin Flaky
  /\ syncRun' = [syncRun EXCEPT ![w].step = "page", ![w].pages = @ + 1,
                                ![w].left = Page(syncRun[w].cursor)]
  /\ UNCHANGED <<connected, cursor, paid, reversed, conflicts, hooks, reports, outboxVars>>

\* What the run turns to next, in the order of the page.
Turn(w) == CHOOSE d \in syncRun[w].left: \A x \in syncRun[w].left: d <= x
Current(w) == ItemOf(Turn(w))

\* An item on an account that is not held is only logged.  Of the others the
\* payment is looked up: a payment inside the transaction that ingests it, the
\* target of a reversal before the one that applies it.
LookUp(w) ==
  /\ Syncing(w, "page") /\ syncRun[w].left # {}
  /\ syncRun' = IF Current(w) \in Unheld
                  THEN [syncRun EXCEPT ![w].left = @ \ {Turn(w)}]
                  ELSE [syncRun EXCEPT ![w].step = "item", ![w].found =
                         IF IsPayment(Current(w)) THEN paid[Current(w)] > 0
                                                  ELSE Received(Target[Current(w)])]
  /\ UNCHANGED <<connected, cursor, paid, reversed, conflicts, hooks, reports, outboxVars>>

(* A mutation: no unique index on the external id. *)
FitsAlways(i) == TRUE

\* The unique index on the external id lets the insert through.  When another
\* run has inserted the payment since, the transaction is lost.
Fits(i) == paid[i] = 0

\* A payment is ingested once.  A payment out that is delivered again does not
\* look like the stored one and opens a conflict, as another currency does.
ApplyPayment(i, found) ==
  /\ \/ /\ found
        /\ conflicts' = IF i \in Outgoing THEN conflicts \cup {i} ELSE conflicts
        /\ UNCHANGED paid
     \/ /\ ~found /\ i \in Foreign
        /\ conflicts' = conflicts \cup {i}
        /\ UNCHANGED paid
     \/ /\ ~found /\ i \notin Foreign \cup Refused /\ Fits(i)
        /\ paid' = [paid EXCEPT ![i] = @ + 1]
        /\ UNCHANGED conflicts
  /\ UNCHANGED reversed

\* applyReversal: a reversal of a payment never received is a conflict.
ApplyReversal(i, found) ==
  /\ IF found THEN reversed' = reversed \cup {Target[i]} /\ UNCHANGED conflicts
              ELSE conflicts' = conflicts \cup {i} /\ UNCHANGED reversed
  /\ UNCHANGED paid

ApplyItem(w) ==
  /\ Syncing(w, "item")
  /\ IF IsPayment(Current(w)) THEN ApplyPayment(Current(w), syncRun[w].found)
                              ELSE ApplyReversal(Current(w), syncRun[w].found)
  /\ syncRun' = [syncRun EXCEPT ![w].step = "page", ![w].found = FALSE, ![w].left = @ \ {Turn(w)}]
  /\ UNCHANGED <<connected, cursor, hooks, reports, outboxVars>>

\* The cursor moves when the whole page is applied.  It is null after the last
\* page, and the next sync starts over.  A run that has fetched MaxPages stops
\* where it is.
SaveCursor(w) ==
  /\ Syncing(w, "page") /\ syncRun[w].left = {}
  /\ LET more == HasMore(syncRun[w].cursor)
         next == IF more THEN NextCursor(syncRun[w].cursor) ELSE Start
     IN /\ cursor' = next
        /\ syncRun' = [syncRun EXCEPT ![w].cursor = next,
             ![w].step = IF more /\ syncRun[w].pages < MaxPages THEN "fetch" ELSE "done"]
  /\ UNCHANGED <<connected, paid, reversed, conflicts, hooks, reports, outboxVars>>

\* The audit row of the run, with its number of pages.
ReportSync(w) ==
  /\ Syncing(w, "done")
  /\ reports' = reports \cup {[event |-> syncRun[w].event, pages |-> syncRun[w].pages]}
  /\ syncRun' = [syncRun EXCEPT ![w].step = "told"]
  /\ UNCHANGED <<connected, cursor, paid, reversed, conflicts, hooks, outboxVars>>

FinishSync(w) ==
  /\ Syncing(w, "told")
  /\ jobs' = Succeeded(w, syncRun[w].event)
  /\ LetGo(w)
  /\ UNCHANGED <<connected, cursor, paid, reversed, conflicts, hooks, reports, outbox, pass>>

(* A mutation: a run that is refused reports like one that went through. *)
RejectSyncReported(w) ==
  /\ Syncing(w, "fetch")
  /\ syncRun' = [syncRun EXCEPT ![w].step = "done"]
  /\ UNCHANGED <<connected, cursor, paid, reversed, conflicts, hooks, reports, outboxVars>>

\* The provider refuses for good, as it does a cursor that is not its own: the
\* job ends without an error and without a report.
RejectSync(w) ==
  /\ Syncing(w, "fetch")
  /\ jobs' = Succeeded(w, syncRun[w].event)
  /\ LetGo(w)
  /\ UNCHANGED <<connected, cursor, paid, reversed, conflicts, hooks, reports, outbox, pass>>

\* A fetch that fails for now, an item that cannot be ingested, an insert that
\* collides, the audit row: what was applied so far stays, the cursor stays.
ThrowSync(w) ==
  /\ ~Syncing(w, "idle")
  /\ jobs' = Threw(w, syncRun[w].event)
  /\ LetGo(w)
  /\ UNCHANGED <<connected, cursor, paid, reversed, conflicts, hooks, reports, outbox, pass>>

-----------------------------------------------------------------------------
(* Webhooks                                                                *)

\* POST webhooks/bank, stored once whatever the provider repeats.
StoreHook(i) ==
  /\ connected /\ ~IsPayment(i) /\ hooks[i] = "none"
  /\ hooks' = [hooks EXCEPT ![i] = "stored"]
  /\ UNCHANGED <<connected, cursor, paid, reversed, conflicts, reports, syncRun, outboxVars>>

\* The claim of the event, the reversal and processedAt commit together.  A
\* payment that was never received is only logged.
ProcessHook(i) ==
  /\ hooks[i] = "stored"
  /\ hooks' = [hooks EXCEPT ![i] = "processed"]
  /\ reversed' = IF Received(Target[i]) THEN reversed \cup {Target[i]} ELSE reversed
  /\ UNCHANGED <<connected, cursor, paid, conflicts, reports, syncRun, outboxVars>>

RunSync(w) == \/ TakeSync(w) \/ FetchPage(w) \/ LookUp(w) \/ ApplyItem(w)
              \/ SaveCursor(w) \/ ReportSync(w) \/ FinishSync(w)

FeedNext == \/ RequestSync
            \/ \E w \in Workers: RunSync(w) \/ RejectSync(w) \/ ThrowSync(w)
            \/ \E i \in Items: StoreHook(i) \/ ProcessHook(i)
=============================================================================
