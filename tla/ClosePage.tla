----------------------------- MODULE ClosePage ------------------------------
(***************************************************************************)
(* The month-end page of a controller (apps/web CloseWorkspace.tsx) and    *)
(* what its requests do to the periods (close.resolver.ts and              *)
(* close.service.ts, in one step each: PeriodLocks has their locks).       *)
(*                                                                         *)
(* The page asks two things of a month, its checklist and its row, and     *)
(* each answer comes on its own.  Ticks and the confirmation belong to the *)
(* page and not to the month: they stand when another month is chosen (a   *)
(* change of property does the same).                                      *)
(***************************************************************************)
EXTENDS Integers, FiniteSets, Sequences, Functions

CONSTANTS
    Month,
    Code,            \* the acknowledgements a checklist may list
    NeedsReason,     \* those that need a reason
    Rows,            \* the periods to begin with
    MaxVersions, MaxTicks, MaxPresses, MaxChoices  \* bounds

\* period: the rows, with what a checklist would find, Code or "blocker";
\* month: chosen; readiness, record: the cache, by month; asking: queries under
\* way; acknowledged: the ticks; made: ticks so far; confirming: the box is
\* open; pressed: the close whose answer is awaited;
\* settled: made, when a close was last seen to succeed; presses: all closes
\* sent; closes: those that closed, as [press, told];
\* choices so far.
VARIABLES period, month, readiness, record, asking, acknowledged, made,
          confirming, pressed, settled, presses, closes, choices
serverVars == <<period, closes>>
cacheVars == <<readiness, record, asking>>
formVars == <<acknowledged, made, confirming, pressed, settled, presses>>
vars == <<serverVars, month, choices, cacheVars, formVars>>

\* A property has a period of each of its months.
ClosePageAssumption ==
  Rows \subseteq [Month -> [status: {"OPEN", "IN_REVIEW", "CLOSED"}, version: Nat,
                           facts: SUBSET (Code \cup {"blocker"})]]

Unknown == [status |-> "unknown", facts |-> {}]
Evaluated(row) == [status |-> row.status, facts |-> row.facts]
NoTick == [n |-> 0, reason |-> FALSE]
Nobody == [press |-> 0, answer |-> "none"]

----------------------------------------------------------------------------
(* The queries                                                             *)

Shown == readiness[month]
Required(facts) == facts \cap Code
Cleared == [c \in Code |-> NoTick]

(* A mutation: the ticks stand after a close. *)
Standing == acknowledged

\* What is left of the ticks after a close: nothing.
Swept == Cleared

Choose(m) ==
  /\ m # month /\ month' = m
  /\ choices < MaxChoices /\ choices' = choices + 1
  /\ asking' = {<<"readiness", m>>, <<"record", m>>}
  /\ UNCHANGED <<serverVars, readiness, record, formVars>>

\* A query that fails is one whose answer never comes.
Answer(q) ==
  /\ q \in asking /\ asking' = asking \ {q}
  /\ IF q[1] = "readiness"
       THEN readiness' = [readiness EXCEPT ![q[2]] = Evaluated(period[q[2]])] /\ UNCHANGED record
       ELSE record' = [record EXCEPT ![q[2]] = period[q[2]].version] /\ UNCHANGED readiness
  /\ UNCHANGED <<serverVars, month, choices, formVars>>

\* refetchAll: the month the mutation was for, whatever is shown by now.
AskAgain(m) == asking' = asking \cup {<<"readiness", m>>, <<"record", m>>}

----------------------------------------------------------------------------
(* The checklist                                                           *)

Tick(c) ==
  /\ c \in Required(Shown.facts) /\ acknowledged[c] = NoTick /\ made < MaxTicks
  /\ acknowledged' = [acknowledged EXCEPT ![c] = [n |-> made + 1, reason |-> FALSE]]
  /\ made' = made + 1
  /\ UNCHANGED <<serverVars, month, choices, cacheVars, confirming, pressed, settled, presses>>
Untick(c) ==
  /\ c \in Required(Shown.facts) /\ acknowledged[c] # NoTick
  /\ acknowledged' = [acknowledged EXCEPT ![c] = NoTick]
  /\ UNCHANGED <<serverVars, month, choices, cacheVars, made, confirming, pressed, settled, presses>>
GiveReason(c) ==
  /\ c \in Required(Shown.facts) \cap NeedsReason
  /\ acknowledged[c] # NoTick /\ ~acknowledged[c].reason
  /\ acknowledged' = [acknowledged EXCEPT ![c].reason = TRUE]
  /\ UNCHANGED <<serverVars, month, choices, cacheVars, made, confirming, pressed, settled, presses>>

Accepted(ticks, facts) ==
  \A c \in Required(facts): ticks[c] # NoTick /\ (c \in NeedsReason => ticks[c].reason)
canClose(row) == row.status = "IN_REVIEW" /\ "blocker" \notin row.facts
readyToSubmit == canClose(Shown) /\ Accepted(acknowledged, Shown.facts)

\* Only the opening of the box asks for readyToSubmit: it may be shown later
\* over other ticks, another checklist, another month.
OpenBox ==
  /\ ~confirming /\ readyToSubmit /\ confirming' = TRUE
  /\ UNCHANGED <<serverVars, month, choices, cacheVars, acknowledged, made, pressed, settled, presses>>
BoxShown == confirming /\ Shown.status = "IN_REVIEW"
Cancel ==
  /\ BoxShown /\ confirming' = FALSE
  /\ UNCHANGED <<serverVars, month, choices, cacheVars, acknowledged, made, pressed, settled, presses>>

----------------------------------------------------------------------------
(* Closing                                                                 *)

Moved(row, status) == [row EXCEPT !.status = status, !.version = @ + 1]
Versions == FoldFunction(LAMBDA row, n: row.version + n, 0, period)

\* closePeriod: the version, the transition, the blockers, the acknowledgements.
Allowed(r) ==
  /\ period[r.month].version = r.version
  /\ canClose(period[r.month]) /\ Accepted(acknowledged, period[r.month].facts)
Given == {acknowledged[c].n: c \in Code} \ {0}

\* The request is served when it is sent, and its answer comes later or never;
\* one that is served later finds the version moved on, or nothing changed.
Press ==
  LET r == [month |-> month, version |-> record[month], ticks |-> Given, settled |-> settled]
      p == Len(presses) + 1
  IN /\ BoxShown /\ r.version > 0 /\ pressed = Nobody
     /\ p <= MaxPresses /\ Versions < MaxVersions
     /\ presses' = Append(presses, r)
     /\ pressed' = [press |-> p, answer |-> IF Allowed(r) THEN "closed" ELSE "refused"]
     /\ IF Allowed(r)
          THEN /\ period' = [period EXCEPT ![month] = Moved(@, "CLOSED")]
               /\ closes' = Append(closes, [press |-> p, told |-> FALSE])
          ELSE UNCHANGED <<period, closes>>
     /\ UNCHANGED <<month, choices, cacheVars, acknowledged, made, confirming, settled>>

\* The answer and all that is asked again after it arrive: the page is cleared.
Succeed ==
  /\ pressed.answer = "closed"
  /\ LET m == presses[pressed.press].month IN
       /\ readiness' = [readiness EXCEPT ![m] = Evaluated(period[m])]
       /\ record' = [record EXCEPT ![m] = period[m].version]
  /\ closes' = [k \in DOMAIN closes |-> [closes[k] EXCEPT !.told = @ \/ closes[k].press = pressed.press]]
  /\ acknowledged' = Swept /\ confirming' = FALSE
  /\ settled' = made /\ pressed' = Nobody
  /\ UNCHANGED <<period, month, choices, asking, made, presses>>

\* Refused, or not all that is asked again arrives.
Disappoint ==
  /\ pressed.answer # "none"
  /\ AskAgain(presses[pressed.press].month) /\ pressed' = Nobody
  /\ UNCHANGED <<serverVars, month, choices, readiness, record, acknowledged, made, confirming, settled, presses>>

Lose ==
  /\ pressed # Nobody /\ pressed' = Nobody
  /\ UNCHANGED <<serverVars, month, choices, cacheVars, acknowledged, made, confirming, settled, presses>>

----------------------------------------------------------------------------
(* The other transitions                                                   *)

Transition(m, from, to) ==
  /\ Versions < MaxVersions
  /\ period' = IF period[m].status = from THEN [period EXCEPT ![m] = Moved(@, to)] ELSE period

startReview ==
  /\ Shown.status = "OPEN" /\ Transition(month, "OPEN", "IN_REVIEW") /\ AskAgain(month)
  /\ UNCHANGED <<closes, month, choices, readiness, record, formVars>>
reopenPeriod ==
  /\ Shown.status = "CLOSED" /\ record[month] > 0
  /\ IF record[month] = period[month].version
       THEN Transition(month, "CLOSED", "OPEN") ELSE UNCHANGED period
  /\ AskAgain(month)
  /\ UNCHANGED <<closes, month, choices, readiness, record, formVars>>

\* External: another controller does the same things on a page of theirs.
Colleague(m) ==
  /\ \/ period[m].status = "OPEN" /\ Transition(m, "OPEN", "IN_REVIEW")
     \/ canClose(period[m]) /\ Transition(m, "IN_REVIEW", "CLOSED")
     \/ period[m].status = "CLOSED" /\ Transition(m, "CLOSED", "OPEN")
  /\ UNCHANGED <<closes, month, choices, cacheVars, formVars>>
Init ==
  /\ period \in Rows /\ month \in Month
  /\ readiness = [m \in Month |-> Unknown] /\ record = [m \in Month |-> 0]
  /\ asking = {<<"readiness", month>>, <<"record", month>>}
  /\ acknowledged = Cleared /\ made = 0 /\ settled = 0 /\ confirming = FALSE
  /\ pressed = Nobody /\ presses = <<>> /\ closes = <<>>
  /\ choices = 0
Next ==
  \/ \E m \in Month: Choose(m) \/ Colleague(m)
  \/ \E q \in asking: Answer(q)
  \/ \E c \in Code: Tick(c) \/ Untick(c) \/ GiveReason(c)
  \/ OpenBox \/ Cancel \/ Press \/ Succeed \/ Disappoint \/ Lose
  \/ startReview \/ reopenPeriod

----------------------------------------------------------------------------
(* Properties                                                              *)

\* An acceptance is spent by the close that the page sees succeed, although it
\* may have been given for another month: nothing sent later carries it.
SpentOnce == \A p \in DOMAIN presses: \A n \in presses[p].ticks: n > presses[p].settled

\* Pressed again after a lost answer, the page does not close a month twice
\* over: one press closes once, and the same ticks close a month a second time
\* only if it was reopened and the first answer never arrived whole.
ClosedOncePerPress ==
  \A j, k \in DOMAIN closes: (j < k) =>
    LET first == presses[closes[j].press]
        second == presses[closes[k].press]
    IN /\ closes[j].press # closes[k].press
       /\ (first.month = second.month /\ first.ticks \cap second.ticks # {})
          => ~closes[j].told /\ second.version >= first.version + 3

TicksSpentOnce == SpentOnce /\ ClosedOncePerPress
=============================================================================
