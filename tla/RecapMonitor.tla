----------------------------- MODULE RecapMonitor -----------------------------
(***************************************************************************)
(* The monitor of the weekly recaps.  Every replica of the API wakes each  *)
(* minute; one of them takes the lease, looks at the work, resumes what    *)
(* was held, at most twice, and asks the owner for help, by mail, with     *)
(* what it cannot resume or what does not move.  Any replica sends what is *)
(* due.  A replica uses the time and the owner it read at first, however   *)
(* long it takes; it may die at any step.                                  *)
(*                                                                         *)
(* One period is tracked.  Its games are over, so that the checks are an   *)
(* hour apart.  The work on it and the mail provider are external: the     *)
(* provider remembers a key for a while, and its answer can be lost.       *)
(*                                                                         *)
(* Simplifications.  What is read of the work is one step, as is the one   *)
(* failure that stands for all of them.  A message is what it was written  *)
(* about, its owner and the release that laid it out.                      *)
(***************************************************************************)
EXTENDS Integers

CONSTANTS Replicas, Owners, None,
          Hour, Lease, Collect,    \* scaled: 3600, 300 and 240 seconds
          MailLease, Retry,        \* 120 and 300 seconds
          Window, ProviderWindow,  \* 23 and 24 hours
          Stall,                   \* the longest a wake-up lasts
          MaxGeneration, MaxRelease, MaxTime

VARIABLES clock,
          work,      \* on the recap
          owner,     \* the address of the owner
          row,       \* of RecapMonitorState
          alerts,    \* the row of RecapMonitorAlert for each blocker
          replicas,
          resumed,   \* recoveries so far
          accepted,  \* what the provider remembers under each key
          mailed     \* how often each blocker was mailed

monitorVars == <<clock, work, owner, row, alerts, replicas, resumed, accepted, mailed>>
mail == <<accepted, mailed>>

Tracked == {"recap", "source"}
Blockers == {"blocked", "changed", "exhausted", "stalled", "source"}

Works == [state : {"held", "running", "done", "blocked"}, generation : 0 .. MaxGeneration]
Messages == [body : Works \cup {None}, to : Owners, release : Nat]
Accepted == [message : Messages, at : Nat]

MonitorAssumption ==
  /\ {Hour, Lease, Collect, MailLease, Retry, Window, ProviderWindow, Stall} \subseteq Nat \ {0}
  /\ Collect < Lease /\ Lease <= Hour /\ Window + Stall <= ProviderWindow
  /\ {MaxGeneration, MaxRelease} \subseteq Nat /\ MaxTime \in Nat \ {0}
  /\ None \notin Accepted  \* no value of the program

Unseen == [status |-> "none"]
NoAlert == [state |-> "none"]

\* initialize
Init ==
  /\ clock = 1 /\ resumed = 0 /\ owner \in Owners
  /\ work = [state |-> "held", generation |-> 0]
  /\ row = [token |-> None, until |-> 0, next |-> 0, seen |-> [k \in Tracked |-> Unseen]]
  /\ alerts = [b \in Blockers |-> NoAlert]
  /\ replicas = [r \in Replicas |-> [at |-> "asleep", release |-> 1]]
  /\ accepted = [b \in Blockers |-> None]
  /\ mailed = [b \in Blockers |-> 0]

-----------------------------------------------------------------------------
At(r, at) == replicas[r].at = at
Now(r) == replicas[r].now

Release(r) == replicas[r].release

Becomes(r, replica) == replicas' = [replicas EXCEPT ![r] = replica]

Asleep(release) == [at |-> "asleep", release |-> release]
Looking(r, at, item) == [at |-> at, release |-> Release(r), now |-> Now(r), item |-> item]
Mailing(r, now, to) == [at |-> "mails", release |-> Release(r), now |-> now, owner |-> to]

\* The lease is still the one that was taken.
Leads(r) == row.token = r /\ row.until > clock

\* claim, and what was seen before
Wake(r) ==
  /\ At(r, "asleep")
  /\ IF row.next <= clock /\ row.until <= clock
     THEN /\ row' = [row EXCEPT !.token = r, !.until = clock + Lease, !.next = clock + Hour]
          /\ Becomes(r, [at |-> "collects", release |-> Release(r), now |-> clock])
     ELSE /\ Becomes(r, Mailing(r, clock, owner))
          /\ UNCHANGED row
  /\ UNCHANGED <<clock, work, owner, alerts, resumed, mail>>

-----------------------------------------------------------------------------
(* What is seen, and what is done about it.                                *)

Item(status, reason, progress) ==
  [status |-> status, reason |-> reason, progress |-> progress,
   unchanged |-> 0, checked |-> None, recoveries |-> 0]

\* collect
Observed ==
  CASE work.state = "blocked" -> Item("help", "blocked", work)
    [] work.state = "done" -> Item("complete", "", work)
    [] OTHER -> Item("pending", "", work)

InTime(r) == clock - Now(r) <= Collect

\* The attempts made so far are taken from what was seen before.
Look(r) ==
  LET old == row.seen["recap"] IN
  /\ At(r, "collects") /\ InTime(r)
  /\ Becomes(r, Looking(r, IF work.state = "held" THEN "recovers" ELSE "reports",
                        IF old = Unseen THEN Observed
                        ELSE [Observed EXCEPT !.recoveries = old.recoveries]))
  /\ UNCHANGED <<clock, work, owner, row, alerts, resumed, mail>>

\* recover
Recovered(item) ==
  CASE item.recoveries >= 2 -> [item EXCEPT !.status = "help", !.reason = "exhausted"]
    [] item.recoveries < 2 /\ work.state # "held" ->
         [item EXCEPT !.status = "help", !.reason = "changed"]
    [] OTHER -> [item EXCEPT !.recoveries = @ + 1]

Larger(a, b) == IF a > b THEN a ELSE b

\* recovery_step: the counter is saved with the recovery.
Recover(r) ==
  LET old == row.seen["recap"]
      item == IF old = Unseen THEN replicas[r].item
              ELSE [replicas[r].item EXCEPT !.recoveries = Larger(@, old.recoveries)]
  IN
  /\ At(r, "recovers") /\ InTime(r)
  /\ Becomes(r, Looking(r, "reports", IF Leads(r) THEN Recovered(item) ELSE item))
  /\ IF Leads(r)
     THEN /\ row' = [row EXCEPT !.seen["recap"] =
                IF old = Unseen THEN Recovered(item)
                ELSE [Recovered(item) EXCEPT !.unchanged = old.unchanged, !.checked = old.checked]]
          /\ IF Recovered(item).recoveries > item.recoveries
             THEN /\ work' = [state |-> "running", generation |-> work.generation + 1]
                  /\ resumed' = resumed + 1
             ELSE UNCHANGED <<work, resumed>>
     ELSE UNCHANGED <<row, work, resumed>>
  /\ work'.generation <= MaxGeneration
  /\ UNCHANGED <<clock, owner, alerts, mail>>

-----------------------------------------------------------------------------
(* finish: one transaction, of the holder of the lease.                    *)

\* What is tracked survives an outage of the sources.
Reported(recap) == IF recap = Unseen THEN row.seen["recap"] ELSE recap

Updated(item, old) ==
  IF item = Unseen THEN Unseen
  ELSE IF old = Unseen THEN [item EXCEPT !.checked = clock]
  ELSE [item EXCEPT
          !.recoveries = Larger(@, old.recoveries),
          !.unchanged = IF item.progress = old.progress /\ item.status = old.status
                           /\ old.checked # None /\ clock - old.checked >= Hour
                        THEN old.unchanged + 1 ELSE 0,
          !.checked = clock]

Stalled(item) == item.status = "pending" /\ item.unchanged >= 2
Asks(item) == item.status = "help" \/ Stalled(item)

Blocker(k, item) ==
  CASE k = "source" -> "source"
    [] item.status = "help" -> item.reason
    [] OTHER -> "stalled"

Seen(recap, source) ==
  [k \in Tracked |-> Updated(IF k = "recap" THEN Reported(recap) ELSE source, row.seen[k])]

Asking(seen) == {k \in Tracked : Asks(seen[k])}

Alerted(seen, b) ==
  LET a == alerts[b]
      active == \E k \in Asking(seen) : Blocker(k, seen[k]) = b
      about == seen[CHOOSE k \in Asking(seen) : Blocker(k, seen[k]) = b].progress
  IN
  CASE active /\ a = NoAlert ->
         [state |-> "pending", recipient |-> owner, body |-> about,
          first |-> 0, next |-> clock, lease |-> 0, envelope |-> None]
    [] active /\ a.state = "cancelled" /\ a.first = 0 ->
         [a EXCEPT !.state = "pending", !.body = about, !.next = clock]
    [] ~active /\ a.state \in {"pending", "sending"} ->
         [a EXCEPT !.state = IF a.first > 0 THEN "quarantined" ELSE "cancelled"]
    [] OTHER -> a

\* tick, its end: what is due is sent with the owner of now.
Mails(r) == Becomes(r, Mailing(r, Now(r), owner))

Finish(r, recap, source) ==
  LET seen == Seen(recap, source) IN
  /\ IF Leads(r)
     THEN /\ row' = [token |-> None, until |-> 0, next |-> clock + Hour, seen |-> seen]
          /\ alerts' = [b \in Blockers |-> Alerted(seen, b)]
     ELSE UNCHANGED <<row, alerts>>
  /\ Mails(r)
  /\ UNCHANGED <<clock, work, owner, resumed, mail>>

Report(r) ==
  /\ At(r, "reports") /\ InTime(r)
  /\ Finish(r, replicas[r].item, Unseen)

\* tick, its except: the sources or the database failed, or 240 seconds were up.
\* That may not be saved either.
Fail(r) ==
  /\ replicas[r].at \in {"collects", "recovers", "reports"}
  /\ \/ Finish(r, Unseen, Item("pending", "", None))
     \/ Mails(r) /\ UNCHANGED <<clock, work, owner, row, alerts, resumed, mail>>

-----------------------------------------------------------------------------
(* deliver, with the time of the wake-up.                                  *)

Message(r, b) ==
  [body |-> alerts[b].body, to |-> replicas[r].owner, release |-> replicas[r].release]

(* A fault: an unresolved send is repeated for as long as it takes.        *)
FaultyUnresolved(a, message, now) == a.first > 0 /\ a.envelope # message

\* email_outcome_unresolved
Unresolved(a, message, now) ==
  a.first > 0 /\ (now - a.first >= Window \/ a.envelope # message)

Due(r, b) ==
  /\ alerts[b].state \in {"pending", "sending"}
  /\ alerts[b].lease <= Now(r) /\ alerts[b].next <= Now(r)

Claim(r, b) ==
  LET a == alerts[b]  m == Message(r, b) IN
  /\ At(r, "mails") /\ Due(r, b)
  /\ IF a.recipient # m.to \/ Unresolved(a, m, Now(r))
     THEN /\ alerts' = [alerts EXCEPT ![b].state = "quarantined", ![b].lease = Now(r) + MailLease]
          /\ UNCHANGED replicas
     ELSE /\ alerts' = [alerts EXCEPT ![b] =
               [a EXCEPT !.state = "sending", !.envelope = m, !.lease = Now(r) + MailLease,
                         !.first = IF @ > 0 THEN @ ELSE Now(r), !.next = Now(r) + Retry]]
          /\ Becomes(r, [at |-> "sends", release |-> Release(r), now |-> Now(r),
                         owner |-> replicas[r].owner, blocker |-> b, message |-> m])
  /\ UNCHANGED <<clock, work, owner, row, resumed, mail>>

Remembered(b) == accepted[b] # None /\ clock < accepted[b].at + ProviderWindow

\* resend: the message is taken or not, and that is known or not.  A key that
\* is remembered is taken for the message it came with, and for no other.
Send(r, taken, answer) ==
  LET b == replicas[r].blocker  m == replicas[r].message IN
  /\ At(r, "sends")
  /\ answer = "accepted" => taken
  /\ taken => answer \in {"accepted", "unknown"}
  /\ taken /\ Remembered(b) => accepted[b].message = m
  /\ IF taken /\ ~Remembered(b)
     THEN /\ accepted' = [accepted EXCEPT ![b] = [message |-> m, at |-> clock]]
          /\ mailed' = [mailed EXCEPT ![b] = @ + 1]
     ELSE UNCHANGED mail
  /\ Becomes(r, [at |-> "records", release |-> Release(r), now |-> Now(r),
                 owner |-> replicas[r].owner, blocker |-> b, answer |-> answer])
  /\ UNCHANGED <<clock, work, owner, row, alerts, resumed>>

\* deliver, its last transaction: whatever has become of the alert.
Record(r, delay) ==
  LET b == replicas[r].blocker  answer == replicas[r].answer IN
  /\ At(r, "records")
  /\ alerts' = [alerts EXCEPT
       ![b].state = CASE answer = "accepted" -> "sent" [] answer = "refused" -> "quarantined"
                      [] OTHER -> @,
       ![b].next = IF answer = "limited" THEN Now(r) + delay ELSE @,
       ![b].lease = 0]
  /\ Becomes(r, Mailing(r, Now(r), replicas[r].owner))
  /\ UNCHANGED <<clock, work, owner, row, resumed, mail>>

Sleep(r) ==
  /\ At(r, "mails") /\ Becomes(r, Asleep(Release(r)))
  /\ UNCHANGED <<clock, work, owner, row, alerts, resumed, mail>>

-----------------------------------------------------------------------------
(* The rest of the world.                                                  *)

\* A process dies, or a release replaces it.
Restart(r, release) ==
  /\ release \in Release(r) .. MaxRelease
  /\ ~At(r, "asleep") \/ release > Release(r)
  /\ Becomes(r, Asleep(release))
  /\ UNCHANGED <<clock, work, owner, row, alerts, resumed, mail>>

\* The work goes on, or the owner resumes it.
WorkMoves ==
  /\ \/ work.state = "running" /\ work' \in [state : {"held", "done"}, generation : {work.generation}]
     \/ work.state # "blocked" /\ work' = [work EXCEPT !.state = "blocked"]
     \/ /\ work.state \in {"held", "blocked"} /\ work.generation < MaxGeneration
        /\ work' = [state |-> "running", generation |-> work.generation + 1]
  /\ UNCHANGED <<clock, owner, row, alerts, replicas, resumed, mail>>

OwnerMoves ==
  /\ owner' \in Owners \ {owner}
  /\ UNCHANGED <<clock, work, row, alerts, replicas, resumed, mail>>

Tick ==
  /\ clock < MaxTime /\ clock' = clock + 1
  /\ \A r \in Replicas : ~At(r, "asleep") => clock < Now(r) + Stall
  /\ UNCHANGED <<work, owner, row, alerts, replicas, resumed, mail>>

ReplicaNext(r) ==
  \/ Wake(r) \/ Look(r) \/ Recover(r) \/ Report(r) \/ Fail(r) \/ Sleep(r)
  \/ \E b \in Blockers : Claim(r, b)
  \/ \E taken \in BOOLEAN, answer \in {"accepted", "unknown", "limited", "refused"} :
       Send(r, taken, answer)
  \/ \E delay \in {Retry, ProviderWindow} : Record(r, delay)
  \/ \E release \in 1 .. MaxRelease : Restart(r, release)

Next == WorkMoves \/ OwnerMoves \/ Tick \/ \E r \in Replicas : ReplicaNext(r)

Spec == Init /\ [][Next]_monitorVars

-----------------------------------------------------------------------------
Items == [status : {"help", "complete", "pending"}, reason : Blockers \cup {""},
          progress : Works \cup {None}, unchanged : Nat, checked : Nat \cup {None}, recoveries : Nat]
Alerts == [state : {"pending", "sending", "sent", "cancelled", "quarantined"}, recipient : Owners,
           body : Works \cup {None}, first : Nat, next : Nat, lease : Nat,
           envelope : Messages \cup {None}]

TypeOK ==
  /\ clock \in 1 .. MaxTime /\ resumed \in Nat /\ owner \in Owners /\ work \in Works
  /\ row \in [token : Replicas \cup {None}, until : Nat, next : Nat,
              seen : [Tracked -> Items \cup {Unseen}]]
  /\ alerts \in [Blockers -> Alerts \cup {NoAlert}]
  /\ DOMAIN replicas = Replicas
  /\ \A r \in Replicas : replicas[r].at \in
       {"asleep", "collects", "recovers", "reports", "mails", "sends", "records"}
  /\ accepted \in [Blockers -> Accepted \cup {None}] /\ mailed \in [Blockers -> Nat]

\* However the replicas, their crashes and lost answers interleave, a blocker
\* is mailed once, to the owner it was found for, and as it was found; and the
\* work is resumed twice at most, even when the sources fail in between.
AsksOnce ==
  /\ resumed <= 2
  /\ \A b \in Blockers :
       /\ mailed[b] <= 1
       /\ accepted[b] # None =>
            /\ accepted[b].message = alerts[b].envelope
            /\ accepted[b].message.to = alerts[b].recipient
            /\ accepted[b].message.body = alerts[b].body

-----------------------------------------------------------------------------
(* Why the owner is asked once: the inductive invariant.                   *)

\* The recoveries are counted in what was seen.
Counted ==
  /\ resumed <= 2
  /\ resumed = IF row.seen["recap"] = Unseen THEN 0 ELSE row.seen["recap"].recoveries

Sent(b) == alerts[b] # NoAlert /\ alerts[b].first > 0

\* From its first sending on an alert keeps its envelope, and only that is
\* taken by the provider, which remembers it for the window at least.
Enveloped ==
  \A b \in Blockers :
    /\ Sent(b) =>
         /\ alerts[b].envelope \in Messages /\ alerts[b].first <= clock
         /\ alerts[b].envelope.to = alerts[b].recipient /\ alerts[b].envelope.body = alerts[b].body
    /\ accepted[b] # None =>
         /\ Sent(b) /\ accepted[b].message = alerts[b].envelope
         /\ alerts[b].first <= accepted[b].at
    /\ mailed[b] = IF accepted[b] = None THEN 0 ELSE 1

\* A replica is not older than it may get, has seen no more recoveries than
\* there were, and sends the envelope in the window of its key.
ReplicaSound(p) ==
  /\ p.release \in Nat
  /\ p.at # "asleep" => p.now \in 1 .. clock /\ clock <= p.now + Stall
  /\ p.at \in {"recovers", "reports"} => p.item \in Items /\ p.item.recoveries <= resumed
  /\ p.at \in {"mails", "sends", "records"} => p.owner \in Owners
  /\ p.at \in {"sends", "records"} => p.blocker \in Blockers /\ Sent(p.blocker)
  /\ p.at = "sends" => /\ p.message = alerts[p.blocker].envelope
                       /\ p.now - alerts[p.blocker].first < Window

MonitorInvariant ==
  TypeOK /\ Counted /\ Enveloped /\ \A r \in Replicas : ReplicaSound(replicas[r])
=============================================================================
