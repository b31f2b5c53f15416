----------------------------- MODULE RecapBudget -----------------------------
(***************************************************************************)
(* The spending limits of one series: plans of bounded calls reserved as a *)
(* whole before the first of them is sent, the charges that replace the    *)
(* reservations, and the limits an owner may lower under them.             *)
(*                                                                         *)
(* Limits count in two calendars: a recap's month is local, the app's is   *)
(* UTC.  A call counts at the time it was reserved, and once it is sent at *)
(* the time of its dispatch.                                               *)
(*                                                                         *)
(* Every action is one transaction under the control lock.  The caller of  *)
(* a dispatch may have read the clock before it waited for that lock.      *)
(*                                                                         *)
(* Simplifications.  Amounts are small numbers.  A plan is known by its    *)
(* name and always has the same calls.  Which request a call stands for,   *)
(* in which order a job makes them, and how many may be in flight at once  *)
(* is the GenerationLedger's and MediaStages' matter.  Receipts older than *)
(* the limits are not modelled, nor charges nobody can bound.              *)
(***************************************************************************)
EXTENDS Integers, FiniteSetsExt

CONSTANTS Plans, Episodes, Calls,  \* what may be reserved
          Plan,        \* the plan of a call
          Most,        \* the most a call may cost
          Charges,     \* what it turns out to cost
          Operation,   \* the job or stage a call is released with
          Episode, Category, Provider,  \* of a plan
          Allowance,   \* the allowance a plan replaces, NoCall for none
          NoCall,
          Requested,   \* the plans somebody asks for
          Early,       \* the plans whose caller reads the clock before it has the lock
          Defaults,    \* the limits nobody changed
          CapChoices,  \* the limits an owner may save
          AppCaps,     \* the monthly limits of the app, 0 for none
          LocalMonth, AppMonth,  \* the calendars
          MaxSaves     \* bound on changes of limits

Times == DOMAIN LocalMonth
EpisodeScopes == {"video_episode", "combined_episode"}
Scopes == EpisodeScopes \cup {"video_month", "combined_month"}
\* Every balance of the series: an episode's, or a month's for all of them.
Balances == (EpisodeScopes \X Episodes) \cup
            ((Scopes \ EpisodeScopes) \X {CHOOSE any \in Episodes : TRUE})

BudgetAssumption ==
  /\ Plan \in [Calls -> Plans] /\ Most \in [Calls -> Nat \ {0}]
  /\ IsFiniteSet(Calls) /\ Charges \in [Calls -> SUBSET Nat]
  /\ Episode \in [Plans -> Episodes] /\ Category \in [Plans -> {"video", "written", "managed"}]
  /\ NoCall \notin Calls /\ Allowance \in [Plans -> Calls \cup {NoCall}]
  /\ Early \subseteq Plans /\ Requested \subseteq Plans
  /\ CapChoices \subseteq [Scopes -> Nat \ {0}] /\ Defaults \in CapChoices
  /\ AppCaps \subseteq Nat /\ MaxSaves \in Nat
  /\ Times \subseteq Nat /\ Times # {}
  /\ LocalMonth \in [Times -> Nat] /\ AppMonth \in [Times -> Nat]
  /\ \A t, u \in Times : t <= u => LocalMonth[t] <= LocalMonth[u] /\ AppMonth[t] <= AppMonth[u]

VARIABLES allocations,  \* what each call was allowed and what became of it
          plans,        \* the plans reserved
          caps,         \* the series' limits
          appCap,       \* the app's limit
          holds,        \* the provider accounts held, or "control"
          today,        \* the clock
          saves         \* changes of limits so far

budgetVars == <<allocations, plans, caps, appCap, holds, today, saves>>

Unused == [state |-> "none", at |-> 0, held |-> 0, known |-> 0, open |-> FALSE]

Init ==
  /\ allocations = [c \in Calls |-> Unused]
  /\ plans = {}
  /\ caps = Defaults /\ appCap \in AppCaps
  /\ holds = {}
  /\ today = CHOOSE t \in Times : \A u \in Times : t <= u
  /\ saves = 0

-----------------------------------------------------------------------------
(* Balances.                                                               *)

Total(amounts) == MapThenSumSet(LAMBDA c : amounts[c], Calls)

\* Reservations of earlier months are carried forward, their charges are not.
InMonth(a, month, now) ==
  IF month[a.at] = month[now] THEN a.known + a.held
  ELSE IF month[a.at] < month[now] THEN a.held ELSE 0

InScope(c, scope, episode) ==
  /\ Category[Plan[c]] \in IF scope \in {"video_episode", "video_month"}
                           THEN {"video"} ELSE {"video", "written"}
  /\ scope \in EpisodeScopes => Episode[Plan[c]] = episode

\* What each call adds to a balance of the series, and to the app's.
Amounts(ledger, scope, episode, now) ==
  [c \in Calls |-> IF ledger[c].state = "none" \/ ~InScope(c, scope, episode) THEN 0
                   ELSE IF scope \in EpisodeScopes THEN ledger[c].known + ledger[c].held
                   ELSE InMonth(ledger[c], LocalMonth, now)]
AppAmounts(ledger, now) ==
  [c \in Calls |-> IF ledger[c].state = "none" THEN 0 ELSE InMonth(ledger[c], AppMonth, now)]

Committed(ledger, scope, episode, now) == Total(Amounts(ledger, scope, episode, now))

Fits(ledger, episode, now) ==
  \A scope \in Scopes : Committed(ledger, scope, episode, now) <= caps[scope]

FitsApp(ledger, now) == appCap # 0 => Total(AppAmounts(ledger, now)) <= appCap

\* A call whose outcome is open stops its episode.
Unknown(episode) == \E c \in Calls : allocations[c].open /\ Episode[Plan[c]] = episode

-----------------------------------------------------------------------------
(* Reserving and sending.                                                  *)

\* The calls of a plan are reserved together; an envelope makes way for them.
Reserved(p, now) ==
  [c \in Calls |->
    IF Plan[c] = p
      THEN [Unused EXCEPT !.state = "reserved", !.at = now, !.held = Most[c]]
    ELSE IF c = Allowance[p]
      THEN [allocations[c] EXCEPT !.state = "settled", !.held = 0]
    ELSE allocations[c]]

Admits(ledger, p, now) ==
  /\ Category[p] # "managed" => Fits(ledger, Episode[p], now)
  /\ FitsApp(ledger, now)

\* An envelope that was already given back is not there to be replaced.
Reservable(p) ==
  /\ Allowance[p] # NoCall => allocations[Allowance[p]].state = "reserved"
  /\ ~Unknown(Episode[p])

\* The owner's retake of a film reserves its plan ahead.
Reserve(p) ==
  /\ p \in Early /\ Allowance[p] = NoCall
  /\ p \notin plans
  /\ Reservable(p)
  /\ Admits(Reserved(p, today), p, today)
  /\ allocations' = Reserved(p, today)
  /\ plans' = plans \cup {p}
  /\ UNCHANGED <<caps, appCap, holds, today, saves>>

\* The clock is read again once the lock is held.
FaultyDispatchTime(seen) == seen
DispatchTime(seen) == today

(***************************************************************************)
(* admit_provider_allocation or authorize_dispatch, with the binding of    *)
(* the allocation: the first call of a plan reserves all of it, and the    *)
(* whole is undone when the limits of the dispatch's months do not hold.   *)
(***************************************************************************)
Dispatch(c, seen) ==
  LET p == Plan[c]
      planned == IF p \in plans THEN allocations ELSE Reserved(p, seen)
      now == DispatchTime(seen)
      ledger == [planned EXCEPT ![c].state = "sent", ![c].at = today, ![c].open = TRUE]
  IN /\ \A q \in Plans : c # Allowance[q]
     /\ {Provider[p], "control"} \cap holds = {}
     /\ p \notin plans => Reservable(p)
     /\ ~Unknown(Episode[p])
     /\ planned[c].state = "reserved"
     /\ Admits(planned, p, seen) /\ Admits(ledger, p, now)
     /\ allocations' = ledger
     /\ plans' = plans \cup {p}
     /\ UNCHANGED <<caps, appCap, holds, today, saves>>

-----------------------------------------------------------------------------
(* Charges.                                                                *)

(***************************************************************************)
(* settle_allocation.  More than was allowed holds the account, or         *)
(* everything when no call was sent for it.                                *)
(***************************************************************************)
Charge(c, amount, open) ==
  /\ allocations' = [allocations EXCEPT ![c].state = "settled", ![c].held = 0,
                                        ![c].known = amount, ![c].open = open]
  /\ holds' = IF amount <= Most[c] THEN holds
              ELSE holds \cup {IF allocations[c].state = "reserved" THEN "control"
                               ELSE Provider[Plan[c]]}
  /\ UNCHANGED <<plans, caps, appCap, today, saves>>

\* A receipt decides the outcome; it must agree with an invoice that came first.
Receive(c, amount) ==
  /\ \/ allocations[c].state = "sent"
     \/ allocations[c].state = "settled" /\ allocations[c].open /\ amount = allocations[c].known
  /\ Charge(c, amount, FALSE)

\* reconcile_allocation: an owner's invoice charges, and decides no outcome.
Invoice(c, amount) ==
  /\ allocations[c].state \in {"reserved", "sent"}
  /\ Charge(c, amount, allocations[c].open)

\* The owner accepts that an outcome stays unknown; its reservation stays.
Accept(c) ==
  /\ allocations[c].open
  /\ allocations' = [allocations EXCEPT ![c].open = FALSE]
  /\ UNCHANGED <<plans, caps, appCap, holds, today, saves>>

\* release_unsubmitted: completing a script keeps the envelope of its film.
Releasable(o, completed) ==
  {c \in Calls : /\ Operation[c] = o /\ allocations[c].state = "reserved"
                 /\ ~(completed /\ \E p \in Plans : c = Allowance[p])}

Release(o, completed) ==
  /\ Releasable(o, completed) # {}
  /\ allocations' = [c \in Calls |-> IF c \in Releasable(o, completed)
                                     THEN [allocations[c] EXCEPT !.state = "settled", !.held = 0]
                                     ELSE allocations[c]]
  /\ UNCHANGED <<plans, caps, appCap, holds, today, saves>>

-----------------------------------------------------------------------------
(* Limits.                                                                 *)

Overcommits(new) ==
  \E b \in Balances : Committed(allocations, b[1], b[2], today) > new[b[1]]

SaveCaps(new, acknowledged) ==
  /\ saves < MaxSaves
  /\ Overcommits(new) => acknowledged
  /\ caps' = new
  /\ saves' = saves + 1
  /\ UNCHANGED <<allocations, plans, appCap, holds, today>>

SaveAppCap(new) ==
  /\ saves < MaxSaves
  /\ new # appCap
  /\ appCap' = new
  /\ saves' = saves + 1
  /\ UNCHANGED <<allocations, plans, caps, holds, today>>

\* An account with a call of unknown outcome stays held.
ClearHold(h) ==
  /\ h \in holds
  /\ \A c \in Calls : Provider[Plan[c]] = h => allocations[c].state # "sent" /\ ~allocations[c].open
  /\ holds' = holds \ {h}
  /\ UNCHANGED <<allocations, plans, caps, appCap, today, saves>>

Tick ==
  /\ today + 1 \in Times
  /\ today' = today + 1
  /\ UNCHANGED <<allocations, plans, caps, appCap, holds, saves>>

-----------------------------------------------------------------------------
Seen(p) == {today} \cup {t \in Times : p \in Early /\ t = today - 1}

Next ==
  \/ \E p \in Requested : Reserve(p)
  \/ \E c \in Calls : Plan[c] \in Requested /\ \E seen \in Seen(Plan[c]) : Dispatch(c, seen)
  \/ \E c \in Calls : \E amount \in Charges[c] : Receive(c, amount) \/ Invoice(c, amount)
  \/ \E c \in Calls : Accept(c)
  \/ \E c \in Calls, completed \in BOOLEAN : Release(Operation[c], completed)
  \/ \E new \in CapChoices, acknowledged \in BOOLEAN : SaveCaps(new, acknowledged)
  \/ \E new \in AppCaps : SaveAppCap(new)
  \/ \E h \in holds : ClearHold(h)
  \/ Tick

Spec == Init /\ [][Next]_budgetVars

-----------------------------------------------------------------------------
(* Properties.                                                             *)

Allocations == [state : {"none", "reserved", "sent", "settled"}, at : Times \cup {0},
                held : Nat, known : Nat, open : BOOLEAN]
TypeOK ==
  /\ allocations \in [Calls -> Allocations]
  /\ plans \subseteq Plans
  /\ caps \in CapChoices /\ appCap \in AppCaps
  /\ holds \subseteq {Provider[p] : p \in Plans} \cup {"control"}
  /\ today \in Times /\ saves \in 0 .. MaxSaves

(* A balance is over its limit only after the limit was lowered under it   *)
(* or a provider charged more than it was allowed to; and what is over     *)
(* never grows, whatever is reserved, sent, charged or replaced at the     *)
(* turn of a month.                                                        *)
Overran == \E c \in Calls : allocations'[c].known > Most[c] /\ allocations[c].known = 0
Balance(scope, e) == Committed(allocations, scope, e, today)
AppBalance == Total(AppAmounts(allocations, today))
KeepsLimits ==
  /\ \A b \in Balances :
       Balance(b[1], b[2])' > caps'[b[1]] =>
         caps' # caps \/ Overran \/ (Balance(b[1], b[2]) > caps[b[1]]
                                       /\ Balance(b[1], b[2])' <= Balance(b[1], b[2]))
  /\ appCap' # 0 /\ AppBalance' > appCap' =>
       appCap' # appCap \/ Overran \/ (appCap # 0 /\ AppBalance > appCap
                                         /\ AppBalance' <= AppBalance)

LimitsKept == [][KeepsLimits]_budgetVars

-----------------------------------------------------------------------------
(* Why limits are kept: the inductive invariant.  What is not charged yet  *)
(* is reserved in full, what is charged is reserved no longer, and nothing *)
(* counts at a time to come.                                               *)
Accounted(c) ==
  LET a == allocations[c] IN
  /\ a.state = "none" => a.known = 0 /\ a.held = 0
  /\ a.state \in {"reserved", "sent"} => a.known = 0 /\ a.held = Most[c]
  /\ a.state = "settled" => a.held = 0
  /\ a.state # "none" => a.at \in Times /\ a.at <= today

BudgetInvariant == TypeOK /\ \A c \in Calls : Accounted(c)
=============================================================================
