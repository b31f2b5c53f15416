--------------------------- MODULE OperationsProofs ---------------------------
(***************************************************************************)
(* Proofs about the modules that MCOperations instantiates, and about      *)
(* their composition.  First RecapWatchdog, which MCOperations extends:    *)
(* its types, and that an incident is mailed once, in one envelope, to the *)
(* owner.  Then RecapMonitor, AutomaticPlanning, RefreshQueue and          *)
(* RecapBudget as MCOperations instantiates them: that a step keeps the    *)
(* inductive invariant of the module.  Then the properties of the          *)
(* composition, from these and from the theorems of GenerationRestore,     *)
(* MediaRetention and YahooConnection, which have proofs of their own.     *)
(***************************************************************************)
EXTENDS MCOperations, FiniteSetTheorems, SequenceTheorems, WellFoundedInduction, TLAPS

(* An incident that is opened or goes on is one.                           *)
LEMMA CurrentType ==
  ASSUME TypeOK, NEW incident \in Current
  PROVE  incident \in Incidents
<1>1. CASE mem # None
  BY <1>1 DEF TypeOK, Current
<1>2. CASE mem = None
  <2>1. PICK k \in Keys : incident = Opened(k)
    BY <1>2 DEF Current
  <2> QED
    BY <2>1 DEF TypeOK, Opened, Incidents
<1> QED
  BY <1>1, <1>2

(* Every step keeps the types.                                             *)
LEMMA TypeStep ==
  ASSUME TypeOK, WatchdogInvariant, [Next]_vars
  PROVE  TypeOK'
<1>1. CASE Check
  BY <1>1, RecapWatchdogAssumption DEF Check, TypeOK, Files, Pcs, mailbox
<1>2. CASE Healthy
  BY <1>2 DEF Healthy, End, TypeOK, Files, Pcs, mailbox
<1>3. ASSUME NEW incident \in Current, Unhealthy(incident) PROVE TypeOK'
  BY <1>3, CurrentType DEF Unhealthy, End, TypeOK, Files, Pcs, mailbox
<1>4. ASSUME NEW reason \in Reasons, Envelope(reason) PROVE TypeOK'
  <2>1. mem \in Incidents /\ file \in Files /\ file.incident = mem
    BY <1>4 DEF Envelope, TypeOK, WatchdogInvariant, Saved, Files
  <2>2. mem' \in Incidents
    BY <1>4, <2>1 DEF Envelope, Enveloped, TypeOK, Incidents, Payloads
  <2> QED
    BY <1>4, <2>1, <2>2 DEF Envelope, TypeOK, Files, Pcs, mailbox
<1>5. CASE Send
  <2>1. mem \in Incidents /\ mem.payload \in Payloads
    BY <1>5 DEF Send, TypeOK, WatchdogInvariant, Incidents
  <2>2. Message \in Messages
    BY <2>1 DEF Message, Messages, TypeOK, Incidents
  <2> QED
    BY <1>5, <2>2 DEF Send, TypeOK, Pcs
<1>6. CASE Accepted
  <2>1. file \in Files /\ file.incident \in Incidents
    BY <1>6 DEF Accepted, TypeOK, WatchdogInvariant, Saved, Files
  <2>2. file' = [file EXCEPT !.incident = [file.incident EXCEPT !.sent = TRUE]]
    BY <1>6 DEF Accepted
  <2>3. [file.incident EXCEPT !.sent = TRUE] \in Incidents
    BY <2>1 DEF Incidents
  <2> QED
    BY <1>6, <2>1, <2>2, <2>3 DEF Accepted, End, TypeOK, Files, Pcs, mailbox
<1>7. CASE Stop \/ Tick \/ \E address \in Addresses : Configure(address)
  BY <1>7 DEF Stop, Tick, Configure, End, TypeOK, Pcs, mailbox
<1>8. CASE UNCHANGED vars
  BY <1>8 DEF vars, TypeOK
<1> QED
  BY <1>1, <1>2, <1>3, <1>4, <1>5, <1>6, <1>7, <1>8 DEF Next

(* Every step keeps the invariant.                                         *)
LEMMA InvariantStep ==
  ASSUME TypeOK, WatchdogInvariant, [Next]_vars
  PROVE  WatchdogInvariant'
<1> USE RecapWatchdogAssumption
<1>1. CASE Check
  BY <1>1 DEF Check, TypeOK, WatchdogInvariant, Saved, Recorded, mailbox
<1>2. CASE Healthy
  BY <1>2 DEF Healthy, End, TypeOK, WatchdogInvariant, Saved, Recorded, mailbox
<1>3. ASSUME NEW incident \in Current, Unhealthy(incident) PROVE WatchdogInvariant'
  <2>1. incident \in Incidents /\ incident # None
    BY CurrentType
  <2>2. Recorded(incident)
    <3>1. CASE mem # None
      BY <1>3, <3>1 DEF Unhealthy, Current, WatchdogInvariant
    <3>2. CASE mem = None
      BY <1>3, <3>2 DEF Current, Opened, UnusedKey, Recorded
    <3> QED
      BY <3>1, <3>2
  <2>3. incident.firstSendAt <= at
    <3>1. CASE mem # None
      BY <1>3, <3>1 DEF Unhealthy, Current, WatchdogInvariant
    <3>2. CASE mem = None
      BY <1>3, <3>2 DEF Current, Opened, TypeOK
    <3> QED
      BY <3>1, <3>2
  <2>4. /\ Saved' = incident /\ sends' = sends /\ clock' = clock
        /\ recipient' = recipient
    <3>1. file' = [checkedAt |-> at, incident |-> incident]
      BY <1>3 DEF Unhealthy
    <3>2. file' \in Files /\ file'.incident = incident
      BY <2>1, <3>1 DEF Files, TypeOK
    <3> QED
      BY <1>3, <3>2 DEF Unhealthy, Saved, mailbox
  <2>5. (Saved # None => Recorded(Saved) /\ Saved.firstSendAt <= clock)'
    BY <2>1, <2>2, <2>3, <2>4 DEF Recorded, WatchdogInvariant, TypeOK, Incidents
  <2>6. CASE End
    BY <2>4, <2>5, <2>6 DEF End, WatchdogInvariant, TypeOK
  <2>7. CASE ~End
    <3>1. /\ mem' = incident /\ at' = at /\ pc' \in {"envelope", "send"}
          /\ at - incident.since >= GraceSeconds
          /\ pc' = "envelope" => incident.payload = None
          /\ pc' = "send" => incident.payload # None /\ InWindow(incident)
      BY <1>3, <2>1, <2>7 DEF Unhealthy, Quiet, TypeOK, Incidents
    <3>2. InWindow(incident)' = InWindow(incident)
      BY <2>4, <3>1 DEF InWindow
    <3> QED
      BY <2>1, <2>3, <2>4, <2>5, <3>1, <3>2 DEF WatchdogInvariant, InWindow
  <2> QED
    BY <2>6, <2>7
<1>4. ASSUME NEW reason \in Reasons, Envelope(reason) PROVE WatchdogInvariant'
  <2>1. /\ mem \in Incidents /\ mem = Saved /\ mem.payload = None
        /\ file \in Files /\ file # None /\ at - mem.since >= GraceSeconds
    BY <1>4 DEF Envelope, TypeOK, WatchdogInvariant, Saved
  <2>2. \A m \in sends : m.key # mem.id
    BY <2>1 DEF WatchdogInvariant, Recorded, TypeOK, Messages
  <2>3. /\ mem' \in Incidents /\ mem'.id = mem.id /\ mem'.since = mem.since
        /\ mem'.firstSendAt = at /\ mem'.payload \in Payloads
        /\ mem'.payload.to = recipient
    BY <1>4, <2>1 DEF Envelope, Enveloped, TypeOK, Incidents, Payloads
  <2>4. /\ Saved' = mem' /\ UNCHANGED <<sends, clock, at, recipient>> /\ pc' = "send"
    BY <1>4, <2>1, <2>3 DEF Envelope, Saved, Files, mailbox
  <2>5. Recorded(Saved)'
    BY <2>2, <2>3, <2>4 DEF Recorded
  <2>6. InWindow(mem)'
    BY <2>3, <2>4 DEF InWindow, TypeOK
  <2> QED
    BY <2>1, <2>3, <2>4, <2>5, <2>6 DEF WatchdogInvariant, TypeOK
<1>5. CASE Send
  BY <1>5 DEF Send, Message, TypeOK, WatchdogInvariant, Saved, Recorded, Incidents
<1>6. CASE Accepted
  <2>0. Saved # None
    BY <1>6 DEF Accepted, WatchdogInvariant
  <2>1. file \in Files /\ file # None /\ Saved \in Incidents /\ Saved = file.incident
    BY <2>0 DEF TypeOK, Saved, Files
  <2>2. Saved' = [Saved EXCEPT !.sent = TRUE]
    <3> DEFINE incident == [file.incident EXCEPT !.sent = TRUE]
    <3>1. file' = [file EXCEPT !.incident = incident]
      BY <1>6 DEF Accepted
    <3>2. incident \in Incidents
      BY <2>1 DEF Incidents
    <3>3. file' \in Files /\ file'.incident = incident
      BY <2>1, <3>1, <3>2 DEF Files
    <3> QED
      BY <2>1, <3>3 DEF Saved
  <2>3. /\ Saved'.id = Saved.id /\ Saved'.payload = Saved.payload
        /\ Saved'.firstSendAt = Saved.firstSendAt
    BY <2>1, <2>2 DEF Incidents
  <2>4. /\ UNCHANGED <<sends, clock>> /\ pc' = "down" /\ at' = 0
    BY <1>6 DEF Accepted, End, mailbox
  <2> QED
    BY <2>0, <2>1, <2>3, <2>4 DEF WatchdogInvariant, Recorded, TypeOK
<1>7. CASE Stop
  BY <1>7 DEF Stop, End, TypeOK, WatchdogInvariant, Saved, Recorded, mailbox
<1>8. CASE Tick
  <2>1. Saved # None => Saved.firstSendAt \in Nat
    BY DEF TypeOK, Saved, Files, Incidents
  <2> QED
    BY <1>8, <2>1 DEF Tick, TypeOK, WatchdogInvariant, Saved, Recorded, InWindow, mailbox
<1>9. CASE \E address \in Addresses : Configure(address)
  BY <1>9 DEF Configure, WatchdogInvariant, Saved, Recorded, mailbox
<1>10. CASE UNCHANGED vars
  BY <1>10 DEF vars, WatchdogInvariant, Saved, Recorded, InWindow
<1> QED
  BY <1>1, <1>2, <1>3, <1>4, <1>5, <1>6, <1>7, <1>8, <1>9, <1>10 DEF Next

(* The initial state satisfies both.                                       *)
LEMMA InvariantInit == Init => TypeOK /\ WatchdogInvariant
  BY RecapWatchdogAssumption DEF Init, TypeOK, WatchdogInvariant, Saved, Pcs

(* The file, the process and the mail provider always agree on the         *)
(* incident and its envelope (watchdog.mjs, checkWatchdog).                *)
THEOREM WatchdogInvariance == Spec => [](TypeOK /\ WatchdogInvariant)
<1>1. Init => TypeOK /\ WatchdogInvariant
  BY InvariantInit
<1>2. TypeOK /\ WatchdogInvariant /\ [Next]_vars => (TypeOK /\ WatchdogInvariant)'
  BY TypeStep, InvariantStep
<1> QED
  BY <1>1, <1>2, PTL DEF Spec

(* Messages are sent by Send only, and what it sends is the saved envelope.*)
LEMMA SendStep ==
  ASSUME TypeOK, WatchdogInvariant, [Next]_vars
  PROVE  \/ sends' = sends /\ delivered' = delivered
         \/ /\ Send /\ mem = Saved /\ mem # None /\ Recorded(mem)
            /\ InWindow(mem) /\ at - mem.since >= GraceSeconds
<1>1. CASE Send
  BY <1>1 DEF Send, WatchdogInvariant
<1>2. CASE ~Send
  BY <1>2 DEF Next, Check, Healthy, Accepted, Stop, Tick, Unhealthy, Envelope,
     Configure, vars, mailbox
<1> QED
  BY <1>1, <1>2

(* A message under a known key is known to the provider as the same one.   *)
LEMMA MailStep ==
  ASSUME TypeOK, WatchdogInvariant, SameEnvelope, OneMailPerIncident, [Next]_vars
  PROVE  SameEnvelope' /\ OneMailPerIncident'
<1>1. CASE sends' = sends /\ delivered' = delivered
  BY <1>1 DEF SameEnvelope, OneMailPerIncident
<1>2. CASE Send /\ mem # None /\ Recorded(mem) /\ InWindow(mem)
  <2>1. sends' = sends \cup {Message} /\ mem \in Incidents
    BY <1>2 DEF Send, TypeOK
  <2>2. \A m \in sends : m.key = Message.key => m.payload = Message.payload
    BY <1>2 DEF Recorded, Message
  <2>3. SameEnvelope'
    <3> SUFFICES ASSUME NEW m \in sends', NEW n \in sends', m.key = n.key
                 PROVE  m.payload = n.payload
      BY DEF SameEnvelope
    <3>1. CASE m \in sends /\ n \in sends
      BY <3>1 DEF SameEnvelope
    <3>2. CASE m = Message \/ n = Message
      BY <2>1, <2>2, <3>2
    <3> QED
      BY <2>1, <3>1, <3>2
  <2>4. CASE Duplicate
    BY <1>2, <2>3, <2>4 DEF Send, OneMailPerIncident
  <2>5. CASE ~Duplicate
    <3>1. ASSUME NEW m \in delivered, m.key = mem.id PROVE FALSE
      <4>1. m \in sends /\ m.at \in Nat
        BY DEF TypeOK, Messages
      <4>2. mem.firstSendAt <= m.at /\ mem.firstSendAt \in Nat
        BY <1>2, <2>1, <3>1, <4>1 DEF Recorded, Incidents
      <4>3. clock - at <= Timeout /\ at - mem.firstSendAt < SendWindow
        BY <1>2 DEF Send, InWindow
      <4>4. clock - m.at < ProviderWindow
        BY <4>1, <4>2, <4>3, RecapWatchdogAssumption DEF TypeOK
      <4> QED
        BY <2>5, <3>1, <4>4 DEF Duplicate
    <3>2. delivered' = delivered \cup {Message} /\ Message.key = mem.id
      BY <1>2, <2>5 DEF Send, Message
    <3> QED
      BY <2>3, <3>1, <3>2 DEF OneMailPerIncident
  <2> QED
    BY <2>3, <2>4, <2>5
<1> QED
  BY <1>1, <1>2, SendStep

(* An incident is mailed once, whatever answers are lost, and always in    *)
(* the same envelope.                                                      *)
THEOREM IncidentIsMailedOnce == Spec => []MailedOnce
<1>1. Init => MailedOnce
  BY DEF Init, MailedOnce, OneMailPerIncident, SameEnvelope
<1>2. TypeOK /\ WatchdogInvariant /\ MailedOnce /\ [Next]_vars => MailedOnce'
  BY MailStep DEF MailedOnce
<1> QED
  BY <1>1, <1>2, WatchdogInvariance, PTL DEF Spec

(* A mail goes to the configured recipient, after the grace period of an   *)
(* incident that no healthy check has closed.                              *)
THEOREM MailGoesToTheOwner == Spec => ToTheOwner
<1>1. ASSUME TypeOK, WatchdogInvariant, [Next]_vars, NEW m \in sends' \ sends
      PROVE  /\ m.payload.to = recipient
             /\ file.incident # None /\ file.incident.id = m.key
             /\ m.at - file.incident.since >= GraceSeconds
  <2>1. /\ Send /\ mem = Saved /\ mem # None /\ InWindow(mem)
        /\ at - mem.since >= GraceSeconds
    BY <1>1, SendStep
  <2>2. m = Message /\ mem \in Incidents
    BY <1>1, <2>1 DEF Send, TypeOK
  <2>3. file.incident = mem
    BY <2>1 DEF Saved
  <2>4. m.key = mem.id /\ m.payload = mem.payload /\ m.at = clock
    BY <2>2 DEF Message
  <2>5. clock - mem.since >= GraceSeconds
    BY <1>1, <2>1, <2>2, RecapWatchdogAssumption DEF WatchdogInvariant, TypeOK, Incidents
  <2> QED
    BY <2>1, <2>3, <2>4, <2>5 DEF InWindow
<1>2. TypeOK /\ WatchdogInvariant /\ [Next]_vars =>
        [\A m \in sends' \ sends :
            /\ m.payload.to = recipient
            /\ file.incident # None /\ file.incident.id = m.key
            /\ m.at - file.incident.since >= GraceSeconds]_vars
  BY <1>1
<1> QED
  BY <1>2, WatchdogInvariance, PTL DEF Spec, ToTheOwner

-----------------------------------------------------------------------------
(* The monitor (recap_monitor.py).  What was counted and what is in an     *)
(* envelope is enough to see that the owner is asked once.                 *)

(* The monitor begins with nothing seen, resumed or mailed.                *)
LEMMA MonitorInit ==
  ASSUME Monitor!MonitorAssumption, Monitor!Init
  PROVE  Monitor!MonitorInvariant
<1>1. Monitor!TypeOK
  BY DEF Monitor!MonitorAssumption, Monitor!Init, Monitor!TypeOK, Monitor!Works,
         Monitor!NoAlert, Monitor!Tracked
<1>2. Monitor!Counted
  BY DEF Monitor!Init, Monitor!Counted, Monitor!Tracked
<1>3. Monitor!Enveloped
  BY DEF Monitor!Init, Monitor!Enveloped, Monitor!Sent
<1>4. ASSUME NEW r \in Replicas PROVE Monitor!ReplicaSound(replicas[r])
  BY <1>4 DEF Monitor!Init, Monitor!ReplicaSound
<1> QED
  BY <1>1, <1>2, <1>3, <1>4 DEF Monitor!MonitorInvariant

(* What is seen of the work has its type.                                  *)
LEMMA ObservedType ==
  ASSUME Monitor!TypeOK
  PROVE  Monitor!Observed \in Monitor!Items /\ Monitor!Observed.recoveries = 0
BY DEF Monitor!TypeOK, Monitor!Observed, Monitor!Item, Monitor!Items, Monitor!Works,
       Monitor!Blockers

(* A recovery is counted, while fewer than two were.                       *)
LEMMA RecoveredType ==
  ASSUME Monitor!TypeOK, NEW item \in Monitor!Items
  PROVE  /\ Monitor!Recovered(item) \in Monitor!Items
         /\ \/ Monitor!Recovered(item).recoveries = item.recoveries
            \/ item.recoveries < 2 /\ Monitor!Recovered(item).recoveries = item.recoveries + 1
<1>0. item.recoveries \in Nat
  BY DEF Monitor!Items
<1>1. CASE item.recoveries >= 2
  BY <1>0, <1>1 DEF Monitor!Recovered, Monitor!Items, Monitor!Blockers
<1>2. CASE item.recoveries < 2 /\ work.state # "held"
  BY <1>0, <1>2 DEF Monitor!Recovered, Monitor!Items, Monitor!Blockers
<1>3. CASE item.recoveries < 2 /\ work.state = "held"
  <2>1. Monitor!Recovered(item) = [item EXCEPT !.recoveries = @ + 1]
    BY <1>0, <1>3 DEF Monitor!Recovered
  <2>2. PICK n \in Nat : n = item.recoveries + 1
    BY <1>0
  <2>3. Monitor!Recovered(item) = [item EXCEPT !.recoveries = n]
    BY <2>1, <2>2
  <2>4. Monitor!Recovered(item) \in Monitor!Items /\ Monitor!Recovered(item).recoveries = n
    BY <2>3 DEF Monitor!Items
  <2> QED
    BY <1>3, <2>2, <2>4
<1> QED
  BY <1>0, <1>1, <1>2, <1>3

(* What is reported counts no recovery that was not counted before.        *)
LEMMA UpdatedType ==
  ASSUME Monitor!TypeOK, NEW item \in Monitor!Items \cup {Monitor!Unseen},
         NEW old \in Monitor!Items \cup {Monitor!Unseen}
  PROVE  /\ Monitor!Updated(item, old) \in Monitor!Items \cup {Monitor!Unseen}
         /\ item # Monitor!Unseen => /\ Monitor!Updated(item, old) # Monitor!Unseen
                                     /\ Monitor!Updated(item, old).recoveries =
                                          IF old = Monitor!Unseen THEN item.recoveries
                                          ELSE Monitor!Larger(item.recoveries, old.recoveries)
         /\ item = Monitor!Unseen => Monitor!Updated(item, old) = Monitor!Unseen
<1>0. Monitor!Unseen \notin Monitor!Items
  BY DEF Monitor!Unseen, Monitor!Items
<1>1. CASE item = Monitor!Unseen
  BY <1>1 DEF Monitor!Updated
<1>2. CASE item # Monitor!Unseen /\ old = Monitor!Unseen
  <2>1. Monitor!Updated(item, old) = [item EXCEPT !.checked = monitorTime] /\ monitorTime \in Nat
    BY <1>2 DEF Monitor!Updated, Monitor!TypeOK
  <2>2. /\ Monitor!Updated(item, old) \in Monitor!Items
        /\ Monitor!Updated(item, old).recoveries = item.recoveries
    BY <1>2, <2>1 DEF Monitor!Items
  <2> QED
    BY <1>0, <1>2, <2>2
<1>3. CASE item # Monitor!Unseen /\ old # Monitor!Unseen
  <2> DEFINE n == IF item.progress = old.progress /\ item.status = old.status
                     /\ old.checked # None /\ monitorTime - old.checked >= Hour
                  THEN old.unchanged + 1 ELSE 0
             m == Monitor!Larger(item.recoveries, old.recoveries)
  <2>1. item \in Monitor!Items /\ old \in Monitor!Items
    BY <1>3
  <2>2. n \in Nat /\ m \in Nat /\ monitorTime \in Nat
    <3>1. old.unchanged \in Nat /\ item.recoveries \in Nat /\ old.recoveries \in Nat
      BY <2>1 DEF Monitor!Items
    <3> QED
      BY <3>1 DEF Monitor!Larger, Monitor!TypeOK
  <2>3. Monitor!Updated(item, old) = [item EXCEPT !.recoveries = m, !.unchanged = n,
                                            !.checked = monitorTime]
    BY <1>3 DEF Monitor!Updated
  <2> HIDE DEF n, m
  <2>4. Monitor!Updated(item, old) \in Monitor!Items /\ Monitor!Updated(item, old).recoveries = m
    BY <2>1, <2>2, <2>3 DEF Monitor!Items
  <2> QED
    BY <1>0, <1>3, <2>4 DEF m
<1> QED
  BY <1>1, <1>2, <1>3

(* A report keeps the count of the recoveries.                             *)
LEMMA SeenType ==
  ASSUME Monitor!TypeOK, Monitor!Counted,
         NEW recap \in Monitor!Items \cup {Monitor!Unseen},
         NEW source \in Monitor!Items \cup {Monitor!Unseen},
         recap # Monitor!Unseen => recap.recoveries <= resumed
  PROVE  /\ Monitor!Seen(recap, source) \in [Monitor!Tracked -> Monitor!Items \cup {Monitor!Unseen}]
         /\ resumed = IF Monitor!Seen(recap, source)["recap"] = Monitor!Unseen THEN 0
                      ELSE Monitor!Seen(recap, source)["recap"].recoveries
<1> DEFINE old == row.seen["recap"]
           item == Monitor!Reported(recap)
<1>0. Monitor!Unseen \notin Monitor!Items /\ "recap" \in Monitor!Tracked
  BY DEF Monitor!Unseen, Monitor!Items, Monitor!Tracked
<1>1. \A k \in Monitor!Tracked : row.seen[k] \in Monitor!Items \cup {Monitor!Unseen}
  BY DEF Monitor!TypeOK
<1>2. item \in Monitor!Items \cup {Monitor!Unseen} /\ old \in Monitor!Items \cup {Monitor!Unseen}
  BY <1>0, <1>1 DEF Monitor!Reported
<1>3. \A k \in Monitor!Tracked : Monitor!Seen(recap, source)[k] =
         Monitor!Updated(IF k = "recap" THEN item ELSE source, row.seen[k])
  BY DEF Monitor!Seen
<1>4. Monitor!Seen(recap, source) \in [Monitor!Tracked -> Monitor!Items \cup {Monitor!Unseen}]
  <2>1. ASSUME NEW k \in Monitor!Tracked
        PROVE  Monitor!Updated(IF k = "recap" THEN item ELSE source, row.seen[k])
                 \in Monitor!Items \cup {Monitor!Unseen}
    BY <1>1, <1>2, UpdatedType
  <2> QED
    BY <2>1 DEF Monitor!Seen
<1>5. Monitor!Seen(recap, source)["recap"] = Monitor!Updated(item, old)
  BY <1>0, <1>3
<1>6. resumed = IF Monitor!Updated(item, old) = Monitor!Unseen THEN 0
                ELSE Monitor!Updated(item, old).recoveries
  <2>1. CASE item = Monitor!Unseen
    <3>1. old = Monitor!Unseen /\ Monitor!Updated(item, old) = Monitor!Unseen
      BY <1>2, <2>1, UpdatedType DEF Monitor!Reported
    <3> QED
      BY <3>1 DEF Monitor!Counted
  <2>2. CASE item # Monitor!Unseen
    <3>1. item \in Monitor!Items /\ Monitor!Updated(item, old) # Monitor!Unseen
          /\ Monitor!Updated(item, old).recoveries =
               IF old = Monitor!Unseen THEN item.recoveries
               ELSE Monitor!Larger(item.recoveries, old.recoveries)
      BY <1>2, <2>2, UpdatedType
    <3>2. item.recoveries \in Nat /\ resumed \in Nat
      BY <3>1 DEF Monitor!Items, Monitor!TypeOK
    <3>3. item.recoveries <= resumed
      BY <2>2, <3>2 DEF Monitor!Reported, Monitor!Counted
    <3>4. CASE old = Monitor!Unseen
      BY <3>1, <3>2, <3>3, <3>4 DEF Monitor!Counted
    <3>5. CASE old # Monitor!Unseen
      BY <3>1, <3>2, <3>3, <3>5 DEF Monitor!Counted, Monitor!Larger
    <3> QED
      BY <3>4, <3>5
  <2> QED
    BY <2>1, <2>2
<1> QED
  BY <1>4, <1>5, <1>6

(* Reporting opens an alert that was not sent, and closes one; what was    *)
(* sent once stays as it was.                                              *)
LEMMA AlertedKeeps ==
  ASSUME Monitor!TypeOK, NEW found \in [Monitor!Tracked -> Monitor!Items \cup {Monitor!Unseen}],
         NEW b \in Monitor!Blockers
  PROVE  /\ Monitor!Alerted(found, b) \in Monitor!Alerts \cup {Monitor!NoAlert}
         /\ Monitor!Sent(b) => /\ Monitor!Alerted(found, b) # Monitor!NoAlert
                               /\ Monitor!Alerted(found, b).first = alerts[b].first
                               /\ Monitor!Alerted(found, b).envelope = alerts[b].envelope
                               /\ Monitor!Alerted(found, b).recipient = alerts[b].recipient
                               /\ Monitor!Alerted(found, b).body = alerts[b].body
         /\ ~Monitor!Sent(b) =>
                Monitor!Alerted(found, b) = Monitor!NoAlert \/ Monitor!Alerted(found, b).first = 0
<1> DEFINE a == alerts[b]
           wanted == \E k \in Monitor!Asking(found) : Monitor!Blocker(k, found[k]) = b
           about == found[CHOOSE k \in Monitor!Asking(found) :
                            Monitor!Blocker(k, found[k]) = b].progress
           fresh == [state |-> "pending", recipient |-> owner, body |-> about,
                      first |-> 0, next |-> monitorTime, lease |-> 0, envelope |-> None]
           again == [a EXCEPT !.state = "pending", !.body = about, !.next = monitorTime]
           closed == [a EXCEPT !.state = IF a.first > 0 THEN "quarantined" ELSE "cancelled"]
<1>0. /\ a \in Monitor!Alerts \cup {Monitor!NoAlert} /\ Monitor!NoAlert \notin Monitor!Alerts
      /\ monitorTime \in Nat /\ owner \in Owners
  BY DEF Monitor!TypeOK, Monitor!NoAlert, Monitor!Alerts
<1>1. Monitor!Alerted(found, b) = CASE wanted /\ a = Monitor!NoAlert -> fresh
                                    [] wanted /\ a.state = "cancelled" /\ a.first = 0 -> again
                                    [] ~wanted /\ a.state \in {"pending", "sending"} -> closed
                                    [] OTHER -> a
  BY DEF Monitor!Alerted
<1>2. wanted => about \in Monitor!Works \cup {None}
  <2> SUFFICES ASSUME wanted PROVE about \in Monitor!Works \cup {None}
    OBVIOUS
  <2>1. PICK j \in Monitor!Asking(found) :
               j = CHOOSE k \in Monitor!Asking(found) : Monitor!Blocker(k, found[k]) = b
    OBVIOUS
  <2>2. j \in Monitor!Tracked /\ Monitor!Asks(found[j])
    BY <2>1 DEF Monitor!Asking
  <2>3. found[j] \in Monitor!Items
    BY <2>2 DEF Monitor!Asks, Monitor!Stalled, Monitor!Unseen
  <2> QED
    BY <2>1, <2>3 DEF Monitor!Items
<1>7. a = Monitor!NoAlert => a.state = "none"
  BY DEF Monitor!NoAlert
<1>3. CASE wanted /\ a = Monitor!NoAlert
  <2>1. Monitor!Alerted(found, b) = fresh
    BY <1>1, <1>3, <1>7
  <2>2. fresh \in Monitor!Alerts /\ fresh.first = 0
    BY <1>0, <1>2, <1>3 DEF Monitor!Alerts
  <2> QED
    BY <1>3, <2>1, <2>2 DEF Monitor!Sent
<1>4. CASE wanted /\ a # Monitor!NoAlert /\ a.state = "cancelled" /\ a.first = 0
  <2>1. Monitor!Alerted(found, b) = again
    BY <1>1, <1>4
  <2>2. a \in Monitor!Alerts
    BY <1>0, <1>4
  <2>3. again \in Monitor!Alerts /\ again.first = 0
    BY <1>0, <1>2, <1>4, <2>2 DEF Monitor!Alerts
  <2> QED
    BY <1>4, <2>1, <2>3 DEF Monitor!Sent
<1>5. CASE ~wanted /\ a # Monitor!NoAlert /\ a.state \in {"pending", "sending"}
  <2>1. Monitor!Alerted(found, b) = closed
    BY <1>1, <1>5
  <2>2. a \in Monitor!Alerts
    BY <1>0, <1>5
  <2>3. closed \in Monitor!Alerts
    BY <2>2 DEF Monitor!Alerts
  <2>4. /\ closed.first = a.first /\ closed.envelope = a.envelope
        /\ closed.recipient = a.recipient /\ closed.body = a.body
    BY <2>2 DEF Monitor!Alerts
  <2>5. a.first \in Nat
    BY <2>2 DEF Monitor!Alerts
  <2> QED
    BY <1>0, <1>5, <2>1, <2>3, <2>4, <2>5 DEF Monitor!Sent
<1>6. CASE Monitor!Alerted(found, b) = a
  <2>1. a \in Monitor!Alerts => a.first \in Nat
    BY DEF Monitor!Alerts
  <2> QED
    BY <1>0, <1>6, <2>1 DEF Monitor!Sent
<1> QED
  BY <1>1, <1>3, <1>4, <1>5, <1>6, <1>7

(* What one replica becomes leaves the others alone.                       *)
LEMMA BecomesOnly ==
  ASSUME Monitor!TypeOK, NEW r \in Replicas, NEW p, Monitor!Becomes(r, p)
  PROVE  /\ DOMAIN replicas' = Replicas /\ replicas'[r] = p
         /\ \A q \in Replicas \ {r} : replicas'[q] = replicas[q]
BY DEF Monitor!TypeOK, Monitor!Becomes

(* What was sent stays in its envelope.                                    *)
SentStays ==
  \A b \in Monitor!Blockers : Monitor!Sent(b) =>
    /\ Monitor!Sent(b)' /\ alerts'[b].first = alerts[b].first
    /\ alerts'[b].envelope = alerts[b].envelope

(* The other replicas stay sound while alerts that were sent stay as they  *)
(* are, and recoveries are added only.                                     *)
LEMMA ReplicasKeep ==
  ASSUME Monitor!MonitorInvariant, NEW r \in Replicas, NEW p, Monitor!Becomes(r, p),
         p.at \in {"asleep", "collects", "recovers", "reports", "mails", "sends", "records"},
         Monitor!ReplicaSound(replicas[r])',
         monitorTime' = monitorTime, resumed' \in Nat, resumed <= resumed', SentStays
  PROVE  /\ DOMAIN replicas' = Replicas
         /\ \A q \in Replicas : replicas'[q].at \in
              {"asleep", "collects", "recovers", "reports", "mails", "sends", "records"}
         /\ \A q \in Replicas : Monitor!ReplicaSound(replicas[q])'
<1>1. /\ DOMAIN replicas' = Replicas /\ replicas'[r] = p
      /\ \A q \in Replicas \ {r} : replicas'[q] = replicas[q]
  BY BecomesOnly DEF Monitor!MonitorInvariant
<1>2. \A q \in Replicas : replicas[q].at \in
        {"asleep", "collects", "recovers", "reports", "mails", "sends", "records"}
  BY DEF Monitor!MonitorInvariant, Monitor!TypeOK
<1>3. ASSUME NEW q \in Replicas \ {r} PROVE Monitor!ReplicaSound(replicas[q])'
  <2> DEFINE x == replicas[q]
  <2>1. Monitor!ReplicaSound(x) /\ replicas'[q] = x
    BY <1>1 DEF Monitor!MonitorInvariant
  <2>2. x.at \in {"recovers", "reports"} =>
            x.item \in Monitor!Items /\ x.item.recoveries <= resumed'
    <3> SUFFICES ASSUME x.at \in {"recovers", "reports"}
                 PROVE  x.item \in Monitor!Items /\ x.item.recoveries <= resumed'
      OBVIOUS
    <3>1. x.item \in Monitor!Items /\ x.item.recoveries <= resumed
      BY <2>1 DEF Monitor!ReplicaSound
    <3>2. x.item.recoveries \in Nat /\ resumed \in Nat
      BY <3>1 DEF Monitor!Items, Monitor!MonitorInvariant, Monitor!TypeOK
    <3> QED
      BY <3>1, <3>2
  <2>3. /\ x.at \in {"sends", "records"} =>
               x.blocker \in Monitor!Blockers /\ Monitor!Sent(x.blocker)'
        /\ x.at = "sends" => /\ x.message = alerts'[x.blocker].envelope
                             /\ x.now - alerts'[x.blocker].first < Window
    BY <2>1 DEF Monitor!ReplicaSound, SentStays
  <2>4. /\ x.release \in Nat
        /\ x.at # "asleep" => x.now \in 1 .. monitorTime' /\ monitorTime' <= x.now + Stall
        /\ x.at \in {"mails", "sends", "records"} => x.owner \in Owners
    BY <2>1 DEF Monitor!ReplicaSound
  <2> HIDE DEF x
  <2>5. Monitor!ReplicaSound(x)'  <=>
          /\ x'.release \in Nat
          /\ x'.at # "asleep" => x'.now \in 1 .. monitorTime' /\ monitorTime' <= x'.now + Stall
          /\ x'.at \in {"recovers", "reports"} =>
                 x'.item \in Monitor!Items /\ x'.item.recoveries <= resumed'
          /\ x'.at \in {"mails", "sends", "records"} => x'.owner \in Owners
          /\ x'.at \in {"sends", "records"} =>
                 x'.blocker \in Monitor!Blockers /\ Monitor!Sent(x.blocker)'
          /\ x'.at = "sends" => /\ x'.message = alerts'[x'.blocker].envelope
                               /\ x'.now - alerts'[x'.blocker].first < Window
    BY DEF Monitor!ReplicaSound
  <2>6. x' = x
    BY <2>1 DEF x
  <2>7. Monitor!ReplicaSound(x)'
    BY <2>2, <2>3, <2>4, <2>5, <2>6 DEF Monitor!Sent
  <2> QED
    BY <2>7 DEF x
<1> QED
  BY <1>1, <1>2, <1>3

(* A step of a replica that sees, resumes and mails nothing.               *)
LEMMA QuietKeeps ==
  ASSUME Monitor!MonitorInvariant, NEW r \in Replicas, NEW p, Monitor!Becomes(r, p),
         p.at \in {"asleep", "collects", "recovers", "reports", "mails", "sends", "records"},
         Monitor!ReplicaSound(replicas[r])',
         UNCHANGED <<monitorTime, owner, work, alerts, resumed, Monitor!mail>>,
         row'.seen = row.seen,
         row' \in [token : Replicas \cup {None}, until : Nat, next : Nat,
                  seen : [Monitor!Tracked -> Monitor!Items \cup {Monitor!Unseen}]]
  PROVE  Monitor!MonitorInvariant'
<1>1. SentStays
  BY DEF SentStays, Monitor!Sent
<1>2. resumed \in Nat
  BY DEF Monitor!MonitorInvariant, Monitor!TypeOK
<1>3. /\ DOMAIN replicas' = Replicas
      /\ \A q \in Replicas : replicas'[q].at \in
           {"asleep", "collects", "recovers", "reports", "mails", "sends", "records"}
      /\ \A q \in Replicas : Monitor!ReplicaSound(replicas[q])'
  BY <1>1, <1>2, ReplicasKeep
<1>4. Monitor!TypeOK'
  BY <1>3 DEF Monitor!MonitorInvariant, Monitor!TypeOK, Monitor!mail
<1>5. Monitor!Counted'
  BY DEF Monitor!MonitorInvariant, Monitor!Counted
<1>6. Monitor!Enveloped'
  BY DEF Monitor!MonitorInvariant, Monitor!Enveloped, Monitor!Sent, Monitor!mail
<1> QED
  BY <1>3, <1>4, <1>5, <1>6 DEF Monitor!MonitorInvariant

(* The numbers a wake-up works with.                                       *)
LEMMA Numbers ==
  ASSUME Monitor!MonitorAssumption, Monitor!MonitorInvariant
  PROVE  /\ {monitorTime, resumed, row.until, row.next} \subseteq Nat /\ monitorTime > 0
         /\ {Hour, Lease, MailLease, Retry, Window, Memory, Stall} \subseteq Nat \ {0}
BY DEF Monitor!MonitorAssumption, Monitor!MonitorInvariant, Monitor!TypeOK

(* A replica wakes with the time and the owner of now.                     *)
LEMMA WakeKeeps ==
  ASSUME Monitor!MonitorAssumption, Monitor!MonitorInvariant, NEW r \in Replicas, Monitor!Wake(r)
  PROVE  Monitor!MonitorInvariant'
<1>1. Monitor!Release(r) \in Nat /\ owner \in Owners /\ monitorTime' = monitorTime
  BY DEF Monitor!MonitorInvariant, Monitor!ReplicaSound, Monitor!Release, Monitor!TypeOK,
         Monitor!Wake
<1>2. CASE row.next <= monitorTime /\ row.until <= monitorTime
  <2> DEFINE p == [at |-> "collects", release |-> Monitor!Release(r), now |-> monitorTime]
  <2>1. /\ Monitor!Becomes(r, p)
        /\ row' = [row EXCEPT !.token = r, !.until = monitorTime + Lease,
                              !.next = monitorTime + Hour]
    BY <1>2 DEF Monitor!Wake
  <2>2. replicas'[r] = p
    BY <2>1, BecomesOnly DEF Monitor!MonitorInvariant
  <2>3. Monitor!ReplicaSound(replicas[r])'
    BY <1>1, <2>2, Numbers DEF Monitor!ReplicaSound
  <2>4. PICK m \in Nat, n \in Nat : m = monitorTime + Lease /\ n = monitorTime + Hour
    BY Numbers
  <2>5. row' = [row EXCEPT !.token = r, !.until = m, !.next = n]
    BY <2>1, <2>4
  <2>6. /\ row'.seen = row.seen
        /\ row' \in [token : Replicas \cup {None}, until : Nat, next : Nat,
                    seen : [Monitor!Tracked -> Monitor!Items \cup {Monitor!Unseen}]]
    BY <2>5 DEF Monitor!MonitorInvariant, Monitor!TypeOK
  <2> QED
    BY <2>1, <2>3, <2>6, QuietKeeps DEF Monitor!Wake
<1>3. CASE ~(row.next <= monitorTime /\ row.until <= monitorTime)
  <2> DEFINE p == Monitor!Mailing(r, monitorTime, owner)
  <2>1. Monitor!Becomes(r, p) /\ row' = row
    BY <1>3 DEF Monitor!Wake
  <2>2. replicas'[r] = p
    BY <2>1, BecomesOnly DEF Monitor!MonitorInvariant
  <2>3. Monitor!ReplicaSound(replicas[r])' /\ p.at = "mails"
    BY <1>1, <2>2, Numbers DEF Monitor!ReplicaSound, Monitor!Mailing
  <2> QED
    BY <2>1, <2>3, QuietKeeps DEF Monitor!Wake, Monitor!MonitorInvariant, Monitor!TypeOK
<1> QED
  BY <1>2, <1>3

(* What is looked at has been recovered as often as was seen before.       *)
LEMMA LookKeeps ==
  ASSUME Monitor!MonitorAssumption, Monitor!MonitorInvariant, NEW r \in Replicas, Monitor!Look(r)
  PROVE  Monitor!MonitorInvariant'
<1> DEFINE old == row.seen["recap"]
           place == IF work.state = "held" THEN "recovers" ELSE "reports"
           item == IF old = Monitor!Unseen THEN Monitor!Observed
                   ELSE [Monitor!Observed EXCEPT !.recoveries = old.recoveries]
           p == Monitor!Looking(r, place, item)
<1>1. /\ Monitor!Release(r) \in Nat /\ Monitor!Now(r) \in 1 .. monitorTime
      /\ monitorTime <= Monitor!Now(r) + Stall
  BY DEF Monitor!MonitorInvariant, Monitor!ReplicaSound, Monitor!Release, Monitor!Now,
         Monitor!At, Monitor!Look
<1>2. item \in Monitor!Items /\ item.recoveries <= resumed
  <2>1. Monitor!Observed \in Monitor!Items /\ Monitor!Observed.recoveries = 0 /\ resumed \in Nat
    BY ObservedType DEF Monitor!MonitorInvariant, Monitor!TypeOK
  <2>2. CASE old = Monitor!Unseen
    BY <2>1, <2>2
  <2>3. CASE old # Monitor!Unseen
    <3>1. old \in Monitor!Items /\ old.recoveries = resumed
      BY <2>3 DEF Monitor!MonitorInvariant, Monitor!TypeOK, Monitor!Tracked, Monitor!Counted
    <3>2. PICK x \in Monitor!Items, n \in Nat : x = Monitor!Observed /\ n = resumed
      BY <2>1
    <3>3. item = [x EXCEPT !.recoveries = n]
      BY <2>3, <3>1, <3>2
    <3>4. item \in Monitor!Items /\ item.recoveries = n
      BY <3>3 DEF Monitor!Items
    <3> QED
      BY <3>2, <3>4
  <2> QED
    BY <2>2, <2>3
<1>3. /\ Monitor!Becomes(r, p)
      /\ UNCHANGED <<monitorTime, work, owner, row, alerts, resumed, Monitor!mail>>
  BY DEF Monitor!Look
<1> HIDE DEF item
<1>4. p.at \in {"recovers", "reports"}
  BY DEF Monitor!Looking
<1>5. replicas'[r] = p
  BY <1>3, BecomesOnly DEF Monitor!MonitorInvariant
<1>6. Monitor!ReplicaSound(replicas[r])'
  BY <1>1, <1>2, <1>3, <1>5 DEF Monitor!ReplicaSound, Monitor!Looking
<1> QED
  BY <1>3, <1>4, <1>6, QuietKeeps DEF Monitor!MonitorInvariant, Monitor!TypeOK

(* The counter is saved with the recovery.                                 *)
LEMMA RecoverKeeps ==
  ASSUME Monitor!MonitorAssumption, Monitor!MonitorInvariant, NEW r \in Replicas, Monitor!Recover(r)
  PROVE  Monitor!MonitorInvariant'
<1> DEFINE old == row.seen["recap"]
           item == IF old = Monitor!Unseen THEN replicas[r].item
                   ELSE [replicas[r].item EXCEPT !.recoveries = Monitor!Larger(@, old.recoveries)]
           p == Monitor!Looking(r, "reports",
                                IF Monitor!Leads(r) THEN Monitor!Recovered(item) ELSE item)
           found == IF old = Monitor!Unseen THEN Monitor!Recovered(item)
                    ELSE [Monitor!Recovered(item) EXCEPT !.unchanged = old.unchanged,
                                                    !.checked = old.checked]
<1>1. /\ Monitor!Release(r) \in Nat /\ Monitor!Now(r) \in 1 .. monitorTime
      /\ monitorTime <= Monitor!Now(r) + Stall
      /\ replicas[r].item \in Monitor!Items /\ replicas[r].item.recoveries <= resumed
  BY DEF Monitor!MonitorInvariant, Monitor!ReplicaSound, Monitor!Release, Monitor!Now,
         Monitor!At, Monitor!Recover
<1>2. /\ resumed \in Nat /\ replicas[r].item.recoveries \in Nat
      /\ old \in Monitor!Items \cup {Monitor!Unseen}
  BY <1>1 DEF Monitor!MonitorInvariant, Monitor!TypeOK, Monitor!Items, Monitor!Tracked
<1>3. item \in Monitor!Items /\ item.recoveries = resumed
  <2>1. CASE old = Monitor!Unseen
    BY <1>1, <1>2, <2>1 DEF Monitor!MonitorInvariant, Monitor!Counted
  <2>2. CASE old # Monitor!Unseen
    <3>1. old.recoveries = resumed
      BY <2>2 DEF Monitor!MonitorInvariant, Monitor!Counted
    <3>2. PICK x \in Monitor!Items : x = replicas[r].item
      BY <1>1
    <3>3. item = [x EXCEPT !.recoveries = resumed]
      BY <1>1, <1>2, <2>2, <3>1, <3>2 DEF Monitor!Larger
    <3> QED
      BY <1>2, <3>3 DEF Monitor!Items
  <2> QED
    BY <2>1, <2>2
<1>4. /\ Monitor!Becomes(r, p) /\ UNCHANGED <<monitorTime, owner, alerts, Monitor!mail>>
      /\ Monitor!Leads(r) => row' = [row EXCEPT !.seen["recap"] = found]
      /\ Monitor!Leads(r) =>
           IF Monitor!Recovered(item).recoveries > item.recoveries
           THEN /\ work' = [state |-> "running", generation |-> work.generation + 1]
                /\ resumed' = resumed + 1
           ELSE UNCHANGED <<work, resumed>>
      /\ ~Monitor!Leads(r) => UNCHANGED <<row, work, resumed>>
      /\ work'.generation <= MaxGeneration
  BY DEF Monitor!Recover
<1> HIDE DEF item
<1>5. CASE ~Monitor!Leads(r)
  <2>1. /\ Monitor!Becomes(r, Monitor!Looking(r, "reports", item))
        /\ Monitor!Looking(r, "reports", item).at = "reports"
    BY <1>4, <1>5 DEF Monitor!Looking
  <2>2. replicas'[r] = Monitor!Looking(r, "reports", item)
    BY <2>1, BecomesOnly DEF Monitor!MonitorInvariant
  <2>3. Monitor!ReplicaSound(replicas[r])'
    BY <1>1, <1>2, <1>3, <1>4, <1>5, <2>2 DEF Monitor!ReplicaSound, Monitor!Looking
  <2> QED
    BY <1>4, <1>5, <2>1, <2>3, QuietKeeps DEF Monitor!MonitorInvariant, Monitor!TypeOK
<1>6. CASE Monitor!Leads(r)
  <2> DEFINE done == Monitor!Recovered(item)
  <2>1. /\ done \in Monitor!Items
        /\ \/ done.recoveries = resumed
           \/ resumed < 2 /\ done.recoveries = resumed + 1
    BY <1>3, RecoveredType DEF Monitor!MonitorInvariant
  <2>2. resumed' = done.recoveries /\ resumed' <= 2 /\ work' \in Monitor!Works
    <3>1. CASE done.recoveries = resumed
      BY <1>2, <1>3, <1>4, <1>6, <3>1 DEF Monitor!MonitorInvariant, Monitor!Counted,
             Monitor!TypeOK
    <3>2. CASE resumed < 2 /\ done.recoveries = resumed + 1
      <4>1. /\ work' = [state |-> "running", generation |-> work.generation + 1]
            /\ resumed' = resumed + 1 /\ work'.generation <= MaxGeneration
        BY <1>2, <1>3, <1>4, <1>6, <3>2
      <4>2. work.generation \in Nat /\ MaxGeneration \in Nat
        BY DEF Monitor!MonitorInvariant, Monitor!TypeOK, Monitor!Works, Monitor!MonitorAssumption
      <4> QED
        BY <1>2, <3>2, <4>1, <4>2 DEF Monitor!Works
    <3> QED
      BY <2>1, <3>1, <3>2
  <2>3. found \in Monitor!Items /\ found.recoveries = done.recoveries
    <3>1. CASE old = Monitor!Unseen
      BY <2>1, <3>1
    <3>2. CASE old # Monitor!Unseen
      <4>1. PICK x \in Monitor!Items, y \in Monitor!Items : x = done /\ y = old
        BY <1>2, <2>1, <3>2
      <4>2. found = [x EXCEPT !.unchanged = y.unchanged, !.checked = y.checked]
        BY <3>2, <4>1
      <4>3. y.unchanged \in Nat /\ y.checked \in Nat \cup {None}
        BY DEF Monitor!Items
      <4>4. found \in Monitor!Items /\ found.recoveries = x.recoveries
        BY <4>2, <4>3 DEF Monitor!Items
      <4> QED
        BY <4>1, <4>4
    <3> QED
      BY <3>1, <3>2
  <2>4. row' = [row EXCEPT !.seen["recap"] = found]
    BY <1>4, <1>6
  <2> HIDE DEF found, done
  <2>5. /\ row' \in [token : Replicas \cup {None}, until : Nat, next : Nat,
                    seen : [Monitor!Tracked -> Monitor!Items \cup {Monitor!Unseen}]]
        /\ row'.seen["recap"] = found
    BY <2>3, <2>4 DEF Monitor!MonitorInvariant, Monitor!TypeOK, Monitor!Tracked
  <2>6. Monitor!Unseen \notin Monitor!Items
    BY DEF Monitor!Unseen, Monitor!Items
  <2>7. Monitor!Counted'
    BY <2>2, <2>3, <2>5, <2>6 DEF Monitor!Counted
  <2>8. /\ Monitor!Becomes(r, Monitor!Looking(r, "reports", done))
        /\ Monitor!Looking(r, "reports", done).at = "reports"
    BY <1>4, <1>6 DEF Monitor!Looking, done
  <2>9. replicas'[r] = Monitor!Looking(r, "reports", done)
    BY <2>8, BecomesOnly DEF Monitor!MonitorInvariant
  <2>10. done.recoveries \in Nat /\ resumed <= done.recoveries
    BY <1>2, <2>1
  <2>11. Monitor!ReplicaSound(replicas[r])'
    BY <1>1, <1>4, <2>1, <2>2, <2>9, <2>10 DEF Monitor!ReplicaSound, Monitor!Looking
  <2>12. SentStays
    BY <1>4 DEF SentStays, Monitor!Sent
  <2>13. /\ DOMAIN replicas' = Replicas
         /\ \A q \in Replicas : replicas'[q].at \in
              {"asleep", "collects", "recovers", "reports", "mails", "sends", "records"}
         /\ \A q \in Replicas : Monitor!ReplicaSound(replicas[q])'
    BY <1>4, <2>2, <2>8, <2>10, <2>11, <2>12, ReplicasKeep
  <2>14. Monitor!TypeOK'
    BY <1>4, <2>2, <2>5, <2>10, <2>13 DEF Monitor!MonitorInvariant, Monitor!TypeOK, Monitor!mail
  <2>15. Monitor!Enveloped'
    BY <1>4 DEF Monitor!MonitorInvariant, Monitor!Enveloped, Monitor!Sent, Monitor!mail
  <2> QED
    BY <2>7, <2>13, <2>14, <2>15 DEF Monitor!MonitorInvariant
<1> QED
  BY <1>5, <1>6

(* A report changes no alert that was sent.                                *)
LEMMA FinishKeeps ==
  ASSUME Monitor!MonitorAssumption, Monitor!MonitorInvariant, NEW r \in Replicas, ~Monitor!At(r,
         "asleep"),
         NEW recap \in Monitor!Items \cup {Monitor!Unseen},
         NEW source \in Monitor!Items \cup {Monitor!Unseen},
         recap # Monitor!Unseen => recap.recoveries <= resumed,
         Monitor!Finish(r, recap, source)
  PROVE  Monitor!MonitorInvariant'
<1> DEFINE found == Monitor!Seen(recap, source)
           p == Monitor!Mailing(r, Monitor!Now(r), owner)
<1>1. /\ Monitor!Becomes(r, p) /\ p.at = "mails"
      /\ UNCHANGED <<monitorTime, work, owner, resumed, Monitor!mail>>
  BY DEF Monitor!Finish, Monitor!Mails, Monitor!Mailing
<1>2. replicas'[r] = p
  BY <1>1, BecomesOnly DEF Monitor!MonitorInvariant
<1>3. Monitor!ReplicaSound(replicas[r])'
  BY <1>1, <1>2 DEF Monitor!MonitorInvariant, Monitor!ReplicaSound, Monitor!Mailing,
         Monitor!Now, Monitor!Release, Monitor!At, Monitor!TypeOK
<1>4. CASE ~Monitor!Leads(r)
  BY <1>1, <1>3, <1>4, QuietKeeps DEF Monitor!Finish, Monitor!MonitorInvariant, Monitor!TypeOK
<1>5. CASE Monitor!Leads(r)
  <2>1. /\ found \in [Monitor!Tracked -> Monitor!Items \cup {Monitor!Unseen}]
        /\ resumed = IF found["recap"] = Monitor!Unseen THEN 0 ELSE found["recap"].recoveries
    BY SeenType DEF Monitor!MonitorInvariant
  <2>2. /\ row' = [token |-> None, until |-> 0, next |-> monitorTime + Hour, seen |-> found]
        /\ alerts' = [b \in Monitor!Blockers |-> Monitor!Alerted(found, b)]
    BY <1>5 DEF Monitor!Finish
  <2> HIDE DEF found
  <2>3. \A b \in Monitor!Blockers :
          /\ alerts'[b] \in Monitor!Alerts \cup {Monitor!NoAlert}
          /\ Monitor!Sent(b) => /\ Monitor!Sent(b)' /\ alerts'[b].first = alerts[b].first
                                /\ alerts'[b].envelope = alerts[b].envelope
                                /\ alerts'[b].recipient = alerts[b].recipient
                                /\ alerts'[b].body = alerts[b].body
          /\ ~Monitor!Sent(b) => ~Monitor!Sent(b)'
    BY <2>1, <2>2, AlertedKeeps DEF Monitor!MonitorInvariant, Monitor!Sent
  <2>4. SentStays
    BY <2>3 DEF SentStays
  <2>5. resumed \in Nat
    BY Numbers
  <2>6. /\ DOMAIN replicas' = Replicas
        /\ \A q \in Replicas : replicas'[q].at \in
             {"asleep", "collects", "recovers", "reports", "mails", "sends", "records"}
        /\ \A q \in Replicas : Monitor!ReplicaSound(replicas[q])'
    BY <1>1, <1>3, <2>4, <2>5, ReplicasKeep
  <2>7. row' \in [token : Replicas \cup {None}, until : Nat, next : Nat,
                  seen : [Monitor!Tracked -> Monitor!Items \cup {Monitor!Unseen}]]
    BY <2>1, <2>2, Numbers
  <2>8. alerts' \in [Monitor!Blockers -> Monitor!Alerts \cup {Monitor!NoAlert}]
    BY <2>2, <2>3
  <2>9. Monitor!TypeOK'
    BY <1>1, <2>6, <2>7, <2>8 DEF Monitor!MonitorInvariant, Monitor!TypeOK, Monitor!mail
  <2>10. Monitor!Counted'
    BY <1>1, <2>1, <2>2 DEF Monitor!MonitorInvariant, Monitor!Counted
  <2>11. Monitor!Enveloped'
    BY <1>1, <2>3 DEF Monitor!MonitorInvariant, Monitor!Enveloped, Monitor!mail
  <2> QED
    BY <2>6, <2>9, <2>10, <2>11 DEF Monitor!MonitorInvariant
<1> QED
  BY <1>4, <1>5

(* What is written into an alert beside its envelope changes nothing of    *)
(* what was sent.                                                          *)
LEMMA TouchKeeps ==
  ASSUME Monitor!MonitorInvariant, NEW b \in Monitor!Blockers, NEW y \in Monitor!Alerts,
         alerts[b] # Monitor!NoAlert,
         y.first = alerts[b].first, y.envelope = alerts[b].envelope,
         y.recipient = alerts[b].recipient, y.body = alerts[b].body,
         alerts' = [alerts EXCEPT ![b] = y],
         UNCHANGED <<monitorTime, work, owner, row, resumed, Monitor!mail>>
  PROVE  /\ alerts' \in [Monitor!Blockers -> Monitor!Alerts \cup {Monitor!NoAlert}]
         /\ \A c \in Monitor!Blockers : Monitor!Sent(c)' <=> Monitor!Sent(c)
         /\ SentStays /\ Monitor!Counted' /\ Monitor!Enveloped'
<1>1. /\ alerts' \in [Monitor!Blockers -> Monitor!Alerts \cup {Monitor!NoAlert}] /\ alerts'[b] = y
      /\ \A c \in Monitor!Blockers \ {b} : alerts'[c] = alerts[c]
  BY DEF Monitor!MonitorInvariant, Monitor!TypeOK
<1>2. y # Monitor!NoAlert
  BY DEF Monitor!Alerts, Monitor!NoAlert
<1>3. \A c \in Monitor!Blockers :
        /\ Monitor!Sent(c)' <=> Monitor!Sent(c)
        /\ Monitor!Sent(c) => /\ alerts'[c].first = alerts[c].first
                              /\ alerts'[c].envelope = alerts[c].envelope
                              /\ alerts'[c].recipient = alerts[c].recipient
                              /\ alerts'[c].body = alerts[c].body
  <2>1. Monitor!Sent(b)' <=> Monitor!Sent(b)
    BY <1>1, <1>2 DEF Monitor!Sent
  <2>2. \A c \in Monitor!Blockers \ {b} : Monitor!Sent(c)' <=> Monitor!Sent(c)
    BY <1>1 DEF Monitor!Sent
  <2> QED
    BY <1>1, <2>1, <2>2
<1>4. SentStays
  BY <1>3 DEF SentStays
<1>5. Monitor!Counted'
  BY DEF Monitor!MonitorInvariant, Monitor!Counted
<1>6. Monitor!Enveloped'
  BY <1>3 DEF Monitor!MonitorInvariant, Monitor!Enveloped, Monitor!mail
<1> QED
  BY <1>1, <1>3, <1>4, <1>5, <1>6

(* An alert is claimed in its envelope, or for the first time; what nobody *)
(* can resolve is not sent again.                                          *)
LEMMA ClaimKeeps ==
  ASSUME Monitor!MonitorAssumption, Monitor!MonitorInvariant, NEW r \in Replicas,
         NEW b \in Monitor!Blockers, Monitor!Claim(r, b)
  PROVE  Monitor!MonitorInvariant'
<1> DEFINE a == alerts[b]
           m == Monitor!Message(r, b)
<1>1. /\ Monitor!Release(r) \in Nat /\ Monitor!Now(r) \in 1 .. monitorTime
      /\ monitorTime <= Monitor!Now(r) + Stall
      /\ replicas[r].owner \in Owners /\ replicas[r].release \in Nat
  BY DEF Monitor!MonitorInvariant, Monitor!ReplicaSound, Monitor!Release, Monitor!Now,
         Monitor!At, Monitor!Claim
<1>2. a \in Monitor!Alerts /\ a # Monitor!NoAlert
  BY DEF Monitor!Claim, Monitor!Due, Monitor!MonitorInvariant, Monitor!TypeOK, Monitor!NoAlert
<1>3. m \in Monitor!Messages /\ m.body = a.body /\ m.to = replicas[r].owner
  BY <1>1, <1>2 DEF Monitor!Message, Monitor!Messages, Monitor!Alerts
<1>4. UNCHANGED <<monitorTime, work, owner, row, resumed, Monitor!mail>>
  BY DEF Monitor!Claim
<1>5. CASE a.recipient # m.to \/ Monitor!Unresolved(a, m, Monitor!Now(r))
  <2>1. /\ alerts' = [alerts EXCEPT ![b].state = "quarantined",
                                        ![b].lease = Monitor!Now(r) + MailLease]
        /\ replicas' = replicas
    BY <1>5 DEF Monitor!Claim
  <2>2. PICK n \in Nat : n = Monitor!Now(r) + MailLease
    BY <1>1, Numbers
  <2>3. PICK x \in Monitor!Alerts : x = a
    BY <1>2
  <2> DEFINE y == [x EXCEPT !.state = "quarantined", !.lease = n]
  <2>4. alerts' = [alerts EXCEPT ![b] = y]
    BY <2>1, <2>2, <2>3
  <2>5. /\ y \in Monitor!Alerts /\ y # Monitor!NoAlert /\ y.first = x.first
        /\ y.envelope = x.envelope
        /\ y.recipient = x.recipient /\ y.body = x.body
    BY DEF Monitor!Alerts, Monitor!NoAlert
  <2> HIDE DEF y
  <2>6. /\ alerts' \in [Monitor!Blockers -> Monitor!Alerts \cup {Monitor!NoAlert}] /\ SentStays
        /\ Monitor!Counted' /\ Monitor!Enveloped'
    BY <1>2, <1>4, <2>3, <2>4, <2>5, TouchKeeps
  <2>7. Monitor!TypeOK'
    BY <1>4, <2>1, <2>6 DEF Monitor!MonitorInvariant, Monitor!TypeOK, Monitor!mail
  <2>8. \A q \in Replicas : Monitor!ReplicaSound(replicas[q])'
    BY <1>4, <2>1, <2>6 DEF Monitor!MonitorInvariant, Monitor!ReplicaSound, SentStays
  <2> QED
    BY <2>6, <2>7, <2>8 DEF Monitor!MonitorInvariant
<1>6. CASE a.recipient = m.to /\ ~Monitor!Unresolved(a, m, Monitor!Now(r))
  <2> DEFINE first == IF a.first > 0 THEN a.first ELSE Monitor!Now(r)
             p == [at |-> "sends", release |-> Monitor!Release(r), now |-> Monitor!Now(r),
                   owner |-> replicas[r].owner, blocker |-> b, message |-> m]
  <2>1. /\ alerts' = [alerts EXCEPT ![b] =
             [a EXCEPT !.state = "sending", !.envelope = m, !.lease = Monitor!Now(r) + MailLease,
                       !.first = first, !.next = Monitor!Now(r) + Retry]]
        /\ Monitor!Becomes(r, p)
    BY <1>6 DEF Monitor!Claim
  <2>2. PICK n \in Nat, k \in Nat : n = Monitor!Now(r) + MailLease /\ k = Monitor!Now(r) + Retry
    BY <1>1, Numbers
  <2>3. PICK x \in Monitor!Alerts : x = a
    BY <1>2
  <2>4. first \in Nat /\ first > 0 /\ first <= monitorTime
    <3>1. a.first \in Nat
      BY <1>2 DEF Monitor!Alerts
    <3>2. a.first > 0 => a.first <= monitorTime
      BY <1>2 DEF Monitor!MonitorInvariant, Monitor!Enveloped, Monitor!Sent
    <3> QED
      BY <1>1, <3>1, <3>2, Numbers
  <2> DEFINE y == [x EXCEPT !.state = "sending", !.envelope = m, !.lease = n,
                               !.first = first, !.next = k]
  <2>5. alerts' = [alerts EXCEPT ![b] = y]
    BY <2>1, <2>2, <2>3
  <2>6. Monitor!Sent(b) => first = a.first /\ a.envelope = m /\ Monitor!Now(r) - first < Window
    <3> SUFFICES ASSUME Monitor!Sent(b)
                 PROVE  first = a.first /\ a.envelope = m /\ Monitor!Now(r) - first < Window
      OBVIOUS
    <3>1. a.first > 0 /\ first = a.first
      BY DEF Monitor!Sent
    <3>2. ~(Monitor!Now(r) - a.first >= Window) /\ a.envelope = m
      BY <1>6, <3>1 DEF Monitor!Unresolved
    <3> QED
      BY <1>1, <2>4, <3>1, <3>2, Numbers
  <2>7. Monitor!Now(r) - first < Window
    <3>1. a.first \in Nat
      BY <1>2 DEF Monitor!Alerts
    <3>2. CASE a.first > 0
      BY <1>2, <2>6, <3>2 DEF Monitor!Sent
    <3>3. CASE a.first = 0
      BY <1>1, <3>3, Numbers
    <3> QED
      BY <3>1, <3>2, <3>3
  <2> HIDE DEF first
  <2>8. /\ y \in Monitor!Alerts /\ y # Monitor!NoAlert /\ y.first = first /\ y.envelope = m
        /\ y.recipient = x.recipient /\ y.body = x.body
    BY <1>3, <2>4 DEF Monitor!Alerts, Monitor!NoAlert
  <2> HIDE DEF y, m
  <2>9. /\ alerts' \in [Monitor!Blockers -> Monitor!Alerts \cup {Monitor!NoAlert}] /\ alerts'[b] = y
        /\ \A c \in Monitor!Blockers \ {b} : alerts'[c] = alerts[c]
    BY <2>5, <2>8 DEF Monitor!MonitorInvariant, Monitor!TypeOK
  <2>10. Monitor!Sent(b)'
    BY <2>4, <2>8, <2>9 DEF Monitor!Sent
  <2>11. SentStays
    BY <2>6, <2>8, <2>9, <2>10 DEF SentStays, Monitor!Sent
  <2>12. replicas'[r] = p /\ p.at = "sends"
    BY <2>1, BecomesOnly DEF Monitor!MonitorInvariant
  <2>13. Monitor!ReplicaSound(replicas[r])'
    <3>1. /\ p.release \in Nat /\ p.now \in 1 .. monitorTime' /\ monitorTime' <= p.now + Stall
          /\ p.owner \in Owners /\ p.blocker = b /\ p.message = m /\ p.now = Monitor!Now(r)
      BY <1>1, <1>4
    <3> QED
      BY <2>7, <2>8, <2>9, <2>10, <2>12, <3>1 DEF Monitor!ReplicaSound
  <2>14. /\ DOMAIN replicas' = Replicas
         /\ \A q \in Replicas : replicas'[q].at \in
              {"asleep", "collects", "recovers", "reports", "mails", "sends", "records"}
         /\ \A q \in Replicas : Monitor!ReplicaSound(replicas[q])'
    BY <1>4, <2>1, <2>11, <2>12, <2>13, Numbers, ReplicasKeep
  <2>15. Monitor!TypeOK' /\ Monitor!Counted'
    BY <1>4, <2>9, <2>14 DEF Monitor!MonitorInvariant, Monitor!TypeOK, Monitor!Counted,
           Monitor!mail
  <2>16. Monitor!Enveloped'
    <3> SUFFICES ASSUME NEW c \in Monitor!Blockers
                 PROVE  /\ Monitor!Sent(c)' =>
                             /\ alerts'[c].envelope \in Monitor!Messages
                             /\ alerts'[c].first <= monitorTime'
                             /\ alerts'[c].envelope.to = alerts'[c].recipient
                             /\ alerts'[c].envelope.body = alerts'[c].body
                        /\ accepted'[c] # None =>
                             /\ Monitor!Sent(c)' /\ accepted'[c].message = alerts'[c].envelope
                             /\ alerts'[c].first <= accepted'[c].at
                        /\ mailed'[c] = IF accepted'[c] = None THEN 0 ELSE 1
      BY DEF Monitor!Enveloped
    <3>1. CASE c # b
      BY <1>4, <2>9, <3>1 DEF Monitor!MonitorInvariant, Monitor!Enveloped, Monitor!Sent,
             Monitor!mail
    <3>2. CASE c = b
      <4>1. /\ alerts'[b].envelope = m /\ alerts'[b].first = first
            /\ alerts'[b].recipient = a.recipient /\ alerts'[b].body = a.body
        BY <2>3, <2>8, <2>9
      <4>2. accepted[b] # None => /\ Monitor!Sent(b) /\ accepted[b].message = a.envelope
                                 /\ a.first <= accepted[b].at
        BY DEF Monitor!MonitorInvariant, Monitor!Enveloped
      <4>3. mailed[b] = IF accepted[b] = None THEN 0 ELSE 1
        BY DEF Monitor!MonitorInvariant, Monitor!Enveloped
      <4> QED
        BY <1>3, <1>4, <1>6, <2>4, <2>6, <2>10, <3>2, <4>1, <4>2, <4>3 DEF Monitor!mail
    <3> QED
      BY <3>1, <3>2
  <2> QED
    BY <2>14, <2>15, <2>16 DEF Monitor!MonitorInvariant
<1> QED
  BY <1>5, <1>6

(* The provider takes an envelope once: while the window of its key lasts, *)
(* whoever sends it again is known.                                        *)
LEMMA SendKeeps ==
  ASSUME Monitor!MonitorAssumption, Monitor!MonitorInvariant, NEW r \in Replicas, NEW taken,
         NEW answer,
         Monitor!Send(r, taken, answer)
  PROVE  Monitor!MonitorInvariant'
<1> DEFINE b == replicas[r].blocker
           m == replicas[r].message
           p == [at |-> "records", release |-> Monitor!Release(r), now |-> Monitor!Now(r),
                 owner |-> replicas[r].owner, blocker |-> b, answer |-> answer]
<1>1. /\ Monitor!Release(r) \in Nat /\ Monitor!Now(r) \in 1 .. monitorTime
      /\ monitorTime <= Monitor!Now(r) + Stall
      /\ replicas[r].owner \in Owners /\ b \in Monitor!Blockers /\ Monitor!Sent(b)
      /\ m = alerts[b].envelope /\ Monitor!Now(r) - alerts[b].first < Window
  BY DEF Monitor!MonitorInvariant, Monitor!ReplicaSound, Monitor!Release, Monitor!Now,
         Monitor!At, Monitor!Send
<1>2. Monitor!Becomes(r, p) /\ UNCHANGED <<monitorTime, work, owner, row, alerts, resumed>>
  BY DEF Monitor!Send
<1>3. replicas'[r] = p
  BY <1>2, BecomesOnly DEF Monitor!MonitorInvariant
<1>4. Monitor!ReplicaSound(replicas[r])'
  BY <1>1, <1>2, <1>3 DEF Monitor!ReplicaSound, Monitor!Sent
<1>5. CASE ~(taken /\ ~Monitor!Remembered(b))
  <2>1. UNCHANGED Monitor!mail
    BY <1>5 DEF Monitor!Send
  <2> QED
    BY <1>2, <1>4, <2>1, QuietKeeps DEF Monitor!MonitorInvariant, Monitor!TypeOK
<1>6. CASE taken /\ ~Monitor!Remembered(b)
  <2>1. alerts[b] \in Monitor!Alerts /\ m \in Monitor!Messages /\ alerts[b].first \in Nat
    BY <1>1 DEF Monitor!MonitorInvariant, Monitor!Enveloped, Monitor!TypeOK, Monitor!Sent,
           Monitor!Alerts
  <2>2. accepted[b] = None
    <3> SUFFICES ASSUME accepted[b] # None PROVE FALSE
      OBVIOUS
    <3>1. accepted[b].at \in Nat /\ alerts[b].first <= accepted[b].at
      BY <1>1 DEF Monitor!MonitorInvariant, Monitor!Enveloped, Monitor!TypeOK, Monitor!Accepted
    <3>2. ~(monitorTime < accepted[b].at + Memory)
      BY <1>6 DEF Monitor!Remembered
    <3>3. Window + Stall <= Memory
      BY DEF Monitor!MonitorAssumption
    <3> QED
      BY <1>1, <2>1, <3>1, <3>2, <3>3, Numbers
  <2> DEFINE x == [message |-> m, at |-> monitorTime]
  <2>3. /\ accepted' = [accepted EXCEPT ![b] = x]
        /\ mailed' = [mailed EXCEPT ![b] = @ + 1]
    BY <1>6 DEF Monitor!Send
  <2>4. x \in Monitor!Accepted /\ x # None /\ x.message = m /\ x.at = monitorTime
    BY <2>1, Numbers DEF Monitor!Accepted, Monitor!MonitorAssumption
  <2>5. mailed[b] = 0
    BY <1>1, <2>2 DEF Monitor!MonitorInvariant, Monitor!Enveloped
  <2>6. mailed' = [mailed EXCEPT ![b] = 1]
    BY <1>1, <2>3, <2>5 DEF Monitor!MonitorInvariant, Monitor!TypeOK
  <2> HIDE DEF x
  <2>7. SentStays
    BY <1>2 DEF SentStays, Monitor!Sent
  <2>8. /\ DOMAIN replicas' = Replicas
        /\ \A q \in Replicas : replicas'[q].at \in
             {"asleep", "collects", "recovers", "reports", "mails", "sends", "records"}
        /\ \A q \in Replicas : Monitor!ReplicaSound(replicas[q])'
    BY <1>2, <1>4, <2>7, Numbers, ReplicasKeep
  <2>9. Monitor!TypeOK' /\ Monitor!Counted'
    BY <1>1, <1>2, <2>3, <2>4, <2>6, <2>8 DEF Monitor!MonitorInvariant, Monitor!TypeOK,
           Monitor!Counted
  <2>10. Monitor!Enveloped'
    <3>1. alerts[b].first <= monitorTime
      BY <1>1 DEF Monitor!MonitorInvariant, Monitor!Enveloped
    <3> QED
      BY <1>1, <1>2, <2>3, <2>4, <2>6, <3>1 DEF Monitor!MonitorInvariant, Monitor!TypeOK,
             Monitor!Enveloped, Monitor!Sent
  <2> QED
    BY <2>8, <2>9, <2>10 DEF Monitor!MonitorInvariant
<1> QED
  BY <1>5, <1>6

(* The answer is recorded beside the envelope.                             *)
LEMMA RecordKeeps ==
  ASSUME Monitor!MonitorAssumption, Monitor!MonitorInvariant, NEW r \in Replicas,
         NEW delay \in {Retry, Memory}, Monitor!Record(r, delay)
  PROVE  Monitor!MonitorInvariant'
<1> DEFINE b == replicas[r].blocker
           answer == replicas[r].answer
           p == Monitor!Mailing(r, Monitor!Now(r), replicas[r].owner)
<1>1. /\ Monitor!Release(r) \in Nat /\ Monitor!Now(r) \in 1 .. monitorTime
      /\ monitorTime <= Monitor!Now(r) + Stall
      /\ replicas[r].owner \in Owners /\ b \in Monitor!Blockers /\ Monitor!Sent(b)
  BY DEF Monitor!MonitorInvariant, Monitor!ReplicaSound, Monitor!Release, Monitor!Now,
         Monitor!At, Monitor!Record
<1>2. UNCHANGED <<monitorTime, work, owner, row, resumed, Monitor!mail>>
  BY DEF Monitor!Record
<1>3. Monitor!Becomes(r, p) /\ p.at = "mails"
  BY DEF Monitor!Record, Monitor!Mailing
<1>4. PICK x \in Monitor!Alerts : x = alerts[b]
  BY <1>1 DEF Monitor!Sent, Monitor!MonitorInvariant, Monitor!TypeOK
<1>5. PICK state \in {"pending", "sending", "sent", "cancelled", "quarantined"} :
        state = CASE answer = "accepted" -> "sent" [] answer = "refused" -> "quarantined"
                  [] OTHER -> x.state
  <2>1. x.state \in {"pending", "sending", "sent", "cancelled", "quarantined"}
    BY DEF Monitor!Alerts
  <2> QED
    BY <2>1
<1>6. PICK next \in Nat : next = IF answer = "limited" THEN Monitor!Now(r) + delay ELSE x.next
  <2>1. x.next \in Nat /\ Monitor!Now(r) + delay \in Nat
    BY <1>1, Numbers DEF Monitor!Alerts
  <2> QED
    BY <2>1
<1> DEFINE y == [x EXCEPT !.state = state, !.next = next, !.lease = 0]
<1>7. alerts' = [alerts EXCEPT ![b] = y]
  BY <1>4, <1>5, <1>6 DEF Monitor!Record
<1>8. /\ y \in Monitor!Alerts /\ y.first = x.first /\ y.envelope = x.envelope
      /\ y.recipient = x.recipient /\ y.body = x.body
  BY DEF Monitor!Alerts
<1> HIDE DEF y
<1>9. /\ alerts' \in [Monitor!Blockers -> Monitor!Alerts \cup {Monitor!NoAlert}] /\ SentStays
      /\ Monitor!Counted' /\ Monitor!Enveloped'
  BY <1>1, <1>2, <1>4, <1>7, <1>8, TouchKeeps DEF Monitor!Sent
<1>10. replicas'[r] = p
  BY <1>3, BecomesOnly DEF Monitor!MonitorInvariant
<1>11. Monitor!ReplicaSound(replicas[r])'
  BY <1>1, <1>2, <1>10 DEF Monitor!ReplicaSound, Monitor!Mailing
<1>12. /\ DOMAIN replicas' = Replicas
       /\ \A q \in Replicas : replicas'[q].at \in
            {"asleep", "collects", "recovers", "reports", "mails", "sends", "records"}
       /\ \A q \in Replicas : Monitor!ReplicaSound(replicas[q])'
  BY <1>2, <1>3, <1>9, <1>11, Numbers, ReplicasKeep
<1>13. Monitor!TypeOK'
  BY <1>2, <1>9, <1>12 DEF Monitor!MonitorInvariant, Monitor!TypeOK, Monitor!mail
<1> QED
  BY <1>9, <1>12, <1>13 DEF Monitor!MonitorInvariant

(* Whoever falls asleep, dies or is replaced leaves all as it is.          *)
LEMMA SleepKeeps ==
  ASSUME Monitor!MonitorInvariant, NEW r \in Replicas, NEW release \in Nat,
         Monitor!Becomes(r, Monitor!Asleep(release)),
         UNCHANGED <<monitorTime, work, owner, row, alerts, resumed, Monitor!mail>>
  PROVE  Monitor!MonitorInvariant'
<1>1. replicas'[r] = Monitor!Asleep(release) /\ Monitor!Asleep(release).at = "asleep"
  BY BecomesOnly DEF Monitor!MonitorInvariant, Monitor!Asleep
<1>2. Monitor!ReplicaSound(replicas[r])'
  BY <1>1 DEF Monitor!ReplicaSound, Monitor!Asleep
<1> QED
  BY <1>1, <1>2, QuietKeeps DEF Monitor!MonitorInvariant, Monitor!TypeOK

(* The failure that stands for all is reported as any, or not at all.      *)
LEMMA FailKeeps ==
  ASSUME Monitor!MonitorAssumption, Monitor!MonitorInvariant, NEW r \in Replicas, Monitor!Fail(r)
  PROVE  Monitor!MonitorInvariant'
<1>1. ~Monitor!At(r, "asleep")
  BY DEF Monitor!Fail, Monitor!At
<1>2. CASE Monitor!Finish(r, Monitor!Unseen, Monitor!Item("pending", "", None))
  <2>1. Monitor!Item("pending", "", None) \in Monitor!Items
    BY DEF Monitor!Item, Monitor!Items
  <2> QED
    BY <1>1, <1>2, <2>1, FinishKeeps
<1>3. CASE /\ Monitor!Mails(r)
           /\ UNCHANGED <<monitorTime, work, owner, row, alerts, resumed, Monitor!mail>>
  <2>1. /\ Monitor!Becomes(r, Monitor!Mailing(r, Monitor!Now(r), owner))
        /\ Monitor!Mailing(r, Monitor!Now(r), owner).at = "mails"
    BY <1>3 DEF Monitor!Mails, Monitor!Mailing
  <2>2. replicas'[r] = Monitor!Mailing(r, Monitor!Now(r), owner)
    BY <2>1, BecomesOnly DEF Monitor!MonitorInvariant
  <2>3. Monitor!ReplicaSound(replicas[r])'
    BY <1>1, <1>3, <2>2 DEF Monitor!MonitorInvariant, Monitor!ReplicaSound, Monitor!Mailing,
           Monitor!Now, Monitor!Release, Monitor!At, Monitor!TypeOK
  <2> QED
    BY <1>3, <2>1, <2>3, QuietKeeps DEF Monitor!MonitorInvariant, Monitor!TypeOK
<1> QED
  BY <1>2, <1>3 DEF Monitor!Fail

(* A replica never loses what the owner is asked by.                       *)
LEMMA ReplicaKeeps ==
  ASSUME Monitor!MonitorAssumption, Monitor!MonitorInvariant, NEW r \in Replicas,
         Monitor!ReplicaNext(r)
  PROVE  Monitor!MonitorInvariant'
<1>1. Monitor!Release(r) \in Nat
  BY DEF Monitor!MonitorInvariant, Monitor!ReplicaSound, Monitor!Release
<1>2. CASE Monitor!Wake(r)
  BY <1>2, WakeKeeps
<1>3. CASE Monitor!Look(r)
  BY <1>3, LookKeeps
<1>4. CASE Monitor!Recover(r)
  BY <1>4, RecoverKeeps
<1>5. CASE Monitor!Report(r)
  <2>1. /\ replicas[r].item \in Monitor!Items /\ replicas[r].item.recoveries <= resumed
        /\ ~Monitor!At(r, "asleep")
    BY <1>5 DEF Monitor!MonitorInvariant, Monitor!ReplicaSound, Monitor!Report, Monitor!At
  <2>2. Monitor!Finish(r, replicas[r].item, Monitor!Unseen)
    BY <1>5 DEF Monitor!Report
  <2> QED
    BY <2>1, <2>2, FinishKeeps
<1>6. CASE Monitor!Fail(r)
  BY <1>6, FailKeeps
<1>7. CASE Monitor!Sleep(r)
  BY <1>1, <1>7, SleepKeeps DEF Monitor!Sleep
<1>8. CASE \E b \in Monitor!Blockers : Monitor!Claim(r, b)
  BY <1>8, ClaimKeeps
<1>9. CASE \E taken \in BOOLEAN, answer \in {"accepted", "unknown", "limited", "refused"} :
             Monitor!Send(r, taken, answer)
  BY <1>9, SendKeeps
<1>10. CASE \E delay \in {Retry, Memory} : Monitor!Record(r, delay)
  BY <1>10, RecordKeeps
<1>11. CASE \E release \in 1 .. MaxRelease : Monitor!Restart(r, release)
  <2>1. PICK release \in 1 .. MaxRelease : Monitor!Restart(r, release)
    BY <1>11
  <2>2. release \in Nat
    BY DEF Monitor!MonitorAssumption
  <2> QED
    BY <2>1, <2>2, SleepKeeps DEF Monitor!Restart
<1> QED
  BY <1>2, <1>3, <1>4, <1>5, <1>6, <1>7, <1>8, <1>9, <1>10, <1>11 DEF Monitor!ReplicaNext

(* The work and the owner move, and time passes, which no wake-up outlasts. *)
LEMMA WorldKeeps ==
  ASSUME Monitor!MonitorAssumption, Monitor!MonitorInvariant,
         Monitor!WorkMoves \/ Monitor!OwnerMoves \/ Monitor!Tick
  PROVE  Monitor!MonitorInvariant'
<1>1. CASE Monitor!WorkMoves
  <2>1. work' \in Monitor!Works
    BY <1>1 DEF Monitor!WorkMoves, Monitor!MonitorInvariant, Monitor!TypeOK, Monitor!Works,
           Monitor!MonitorAssumption
  <2>2. Monitor!TypeOK' /\ Monitor!Counted' /\ Monitor!Enveloped'
    BY <1>1, <2>1 DEF Monitor!WorkMoves, Monitor!MonitorInvariant, Monitor!TypeOK,
           Monitor!Counted, Monitor!Enveloped, Monitor!Sent, Monitor!mail
  <2>3. \A r \in Replicas : Monitor!ReplicaSound(replicas[r])'
    BY <1>1 DEF Monitor!WorkMoves, Monitor!MonitorInvariant, Monitor!ReplicaSound, Monitor!Sent
  <2> QED
    BY <2>2, <2>3, <1>1 DEF Monitor!WorkMoves, Monitor!MonitorInvariant
<1>2. CASE Monitor!OwnerMoves
  <2>1. Monitor!TypeOK' /\ Monitor!Counted' /\ Monitor!Enveloped'
    BY <1>2 DEF Monitor!OwnerMoves, Monitor!MonitorInvariant, Monitor!TypeOK, Monitor!Counted,
           Monitor!Enveloped, Monitor!Sent, Monitor!mail
  <2>2. \A r \in Replicas : Monitor!ReplicaSound(replicas[r])'
    BY <1>2 DEF Monitor!OwnerMoves, Monitor!MonitorInvariant, Monitor!ReplicaSound, Monitor!Sent
  <2> QED
    BY <2>1, <2>2, <1>2 DEF Monitor!OwnerMoves, Monitor!MonitorInvariant
<1>3. CASE Monitor!Tick
  <2>1. monitorTime \in Nat /\ monitorTime' = monitorTime + 1 /\ monitorTime' \in 1 .. MonitorEnd
    BY <1>3 DEF Monitor!Tick, Monitor!MonitorInvariant, Monitor!TypeOK, Monitor!MonitorAssumption
  <2>2. UNCHANGED <<work, owner, row, alerts, replicas, resumed, Monitor!mail>>
    BY <1>3 DEF Monitor!Tick
  <2>3. Monitor!TypeOK' /\ Monitor!Counted'
    BY <2>1, <2>2 DEF Monitor!MonitorInvariant, Monitor!TypeOK, Monitor!Counted, Monitor!mail
  <2>4. Monitor!Enveloped'
    <3>1. \A b \in Monitor!Blockers : Monitor!Sent(b) => alerts[b].first \in Nat
      BY DEF Monitor!MonitorInvariant, Monitor!TypeOK, Monitor!Sent, Monitor!Alerts
    <3> QED
      BY <2>1, <2>2, <3>1 DEF Monitor!MonitorInvariant, Monitor!Enveloped, Monitor!Sent,
             Monitor!mail
  <2>5. ASSUME NEW r \in Replicas PROVE Monitor!ReplicaSound(replicas[r])'
    <3>1. Monitor!ReplicaSound(replicas[r])
      BY DEF Monitor!MonitorInvariant
    <3>2. replicas[r].at # "asleep" =>
            replicas[r].now \in 1 .. monitorTime' /\ monitorTime' <= replicas[r].now + Stall
      <4> SUFFICES ASSUME replicas[r].at # "asleep"
                   PROVE  /\ replicas[r].now \in 1 .. monitorTime'
                          /\ monitorTime' <= replicas[r].now + Stall
        OBVIOUS
      <4>1. monitorTime < replicas[r].now + Stall
        BY <1>3 DEF Monitor!Tick, Monitor!At, Monitor!Now
      <4>2. replicas[r].now \in 1 .. monitorTime
        BY <3>1 DEF Monitor!ReplicaSound
      <4> QED
        BY <2>1, <4>1, <4>2, Numbers
    <3> QED
      BY <2>2, <3>1, <3>2 DEF Monitor!ReplicaSound, Monitor!Sent
  <2> QED
    BY <2>3, <2>4, <2>5, <2>2 DEF Monitor!MonitorInvariant
<1> QED
  BY <1>1, <1>2, <1>3

(* The invariant of the monitor is inductive.                              *)
LEMMA MonitorNext ==
  ASSUME Monitor!MonitorAssumption, Monitor!MonitorInvariant, [Monitor!Next]_monitorVars
  PROVE  Monitor!MonitorInvariant'
<1>1. CASE UNCHANGED Monitor!monitorVars
  BY <1>1 DEF Monitor!monitorVars, Monitor!MonitorInvariant, Monitor!TypeOK, Monitor!Counted,
         Monitor!Enveloped, Monitor!ReplicaSound, Monitor!Sent
<1>2. CASE Monitor!Next
  BY <1>2, WorldKeeps, ReplicaKeeps DEF Monitor!Next
<1> QED
  BY <1>1, <1>2 DEF monitorVars, Monitor!monitorVars

(* The invariant says what is promised to the owner.                       *)
LEMMA InvariantAsksOnce ==
  ASSUME Monitor!MonitorInvariant
  PROVE  Monitor!AsksOnce
<1>1. resumed <= 2
  BY DEF Monitor!MonitorInvariant, Monitor!Counted
<1>2. ASSUME NEW b \in Monitor!Blockers
      PROVE  /\ mailed[b] <= 1
             /\ accepted[b] # None =>
                  /\ accepted[b].message = alerts[b].envelope
                  /\ accepted[b].message.to = alerts[b].recipient
                  /\ accepted[b].message.body = alerts[b].body
  BY DEF Monitor!MonitorInvariant, Monitor!Enveloped
<1> QED
  BY <1>1, <1>2 DEF Monitor!AsksOnce

-----------------------------------------------------------------------------
(* AutomaticPlanning: why only news is bought without the owner.           *)

(* Planning begins with nothing observed, collected or bought.             *)
LEMMA PlanningInit ==
  ASSUME Planning!PlanningAssumption, Planning!Init
  PROVE  Planning!PlanningInvariant
<1>1. Planning!TypeOK
  <2>1. episode \in [Weeks -> Planning!Episodes]
    BY DEF Planning!Init, Planning!Episodes, Planning!WeekHolds
  <2>2. /\ candidate \in [Planning!Subjects -> Planning!Candidates]
        /\ job \in [Planning!Subjects -> Planning!SubjectJobs]
    BY DEF Planning!Init, Planning!Candidates, Planning!SubjectJobs, Planning!NoJob,
           Planning!Unknown, Planning!WeekHolds, Planning!CandidateHolds
  <2>3. seen \in [Weeks -> Seq(Planning!Observations)]
    <3>1. <<>> \in Seq(Planning!Observations)
      OBVIOUS
    <3> QED
      BY <3>1 DEF Planning!Init
  <2>4. /\ planTime \in 1 .. PlanEnd /\ facts \in [Weeks -> 0 .. MaxFacts]
        /\ traded \in [Trades -> 0 .. planTime]
    <3>1. planTime = 1 /\ PlanEnd \in Nat \ {0} /\ MaxFacts \in Nat
      BY DEF Planning!PlanningAssumption, Planning!Init
    <3>2. 0 \in 0 .. MaxFacts /\ 0 \in 0 .. planTime /\ planTime \in 1 .. PlanEnd
      BY <3>1
    <3> QED
      BY <3>2 DEF Planning!Init
  <2>5. series.activated \in 1 .. planTime /\ connection \in Nat
    <3>1. series.activated = 1 /\ planTime = 1 /\ connection = 1
      BY DEF Planning!Init
    <3> QED
      BY <3>1
  <2> QED
    BY <2>1, <2>2, <2>3, <2>4, <2>5 DEF Planning!Init, Planning!TypeOK
<1>2. ASSUME NEW w \in Weeks PROVE Planning!Observed(w) /\ Planning!WeekCollected(w)
  <2>1. /\ episode[w].latest = 0 /\ episode[w].since = 0 /\ episode[w].ready = FALSE
        /\ episode[w].admitted = 0
        /\ seen[w] = <<>> /\ Len(seen[w]) = 0 /\ planTime = 1
    BY DEF Planning!Init
  <2>2. candidate[w].facts = 0 /\ candidate[w].known = FALSE
    BY DEF Planning!Init, Planning!Unknown, Planning!Subjects
  <2>3. Planning!Observed(w)
    BY <2>1 DEF Planning!Observed
  <2> QED
    BY <2>2, <2>3 DEF Planning!WeekCollected
<1>3. ASSUME NEW t \in Trades PROVE Planning!TradeCollected(t)
  BY <1>3 DEF Planning!Init, Planning!TradeCollected, Planning!Unknown, Planning!Subjects
<1>4. backlog = {}
  BY DEF Planning!Init
<1> QED
  BY <1>1, <1>2, <1>3, <1>4 DEF Planning!PlanningInvariant

(* What is neither observed nor collected nor resumed keeps the invariant. *)
LEMMA RestKeeps ==
  ASSUME Planning!PlanningAssumption, Planning!PlanningInvariant, Planning!TypeOK',
         planTime' \in Nat, planTime <= planTime',
         UNCHANGED <<episode, seen, series>>,
         \A c \in Planning!Subjects : /\ candidate'[c].known = candidate[c].known
                                      /\ candidate'[c].event = candidate[c].event
                                      /\ candidate'[c].facts = candidate[c].facts,
         backlog' \subseteq backlog,
         \A c \in backlog' : ~(job'[c].by = "scheduler" /\ job'[c].state = "queued")
  PROVE  Planning!PlanningInvariant'
<1>0. Weeks \subseteq Planning!Subjects /\ Trades \subseteq Planning!Subjects /\ planTime \in Nat
  BY DEF Planning!Subjects, Planning!PlanningInvariant, Planning!TypeOK
<1>1. ASSUME NEW w \in Weeks PROVE Planning!Observed(w)' /\ Planning!WeekCollected(w)'
  <2>1. /\ Planning!Observed(w) /\ Planning!WeekCollected(w) /\ episode[w] \in Planning!Episodes
        /\ seen[w] \in Seq(Planning!Observations)
    BY <1>1 DEF Planning!PlanningInvariant, Planning!TypeOK
  <2>2. episode[w].admitted \in Nat /\ \A m \in 1 .. Len(seen[w]) : seen[w][m].at \in Nat
    <3>1. \A m \in 1 .. Len(seen[w]) : seen[w][m] \in Planning!Observations
      BY <2>1
    <3> QED
      BY <2>1, <3>1 DEF Planning!Episodes, Planning!Observations
  <2>3. Planning!Observed(w)'
    BY <1>0, <2>1, <2>2 DEF Planning!Observed
  <2>4. Planning!WeekCollected(w)'
    <3>1. candidate'[w].facts # 0 => Planning!Settled(w, candidate[w].facts)'
      BY <1>0, <2>1 DEF Planning!WeekCollected, Planning!Settled
    <3>2. candidate'[w].known => episode'[w].admitted # 0 \/ ReleaseTimes[w] <= planTime'
      <4> SUFFICES ASSUME candidate[w].known, episode[w].admitted = 0
                   PROVE  ReleaseTimes[w] <= planTime'
        BY <1>0
      <4>1. ReleaseTimes[w] \in Nat
        BY DEF Planning!PlanningAssumption
      <4> QED
        BY <1>0, <2>1, <4>1 DEF Planning!WeekCollected
    <3> QED
      BY <1>0, <3>1, <3>2 DEF Planning!WeekCollected
  <2> QED
    BY <2>3, <2>4
<1>2. ASSUME NEW t \in Trades PROVE Planning!TradeCollected(t)'
  BY <1>0, <1>2 DEF Planning!PlanningInvariant, Planning!TradeCollected
<1>3. ASSUME NEW c \in backlog' PROVE Planning!Waits(c)'
  <2>1. c \in Planning!Subjects /\ Planning!Waits(c)
    BY <1>3 DEF Planning!PlanningInvariant, Planning!TypeOK
  <2> QED
    BY <1>3, <2>1 DEF Planning!Waits
<1> QED
  BY <1>1, <1>2, <1>3 DEF Planning!PlanningInvariant

(* What was settled once stays so, as observations are only added.         *)
LEMMA SettledStays ==
  ASSUME NEW w \in Weeks, NEW f, Planning!Settled(w, f), seen[w] \in Seq(Planning!Observations),
         NEW o \in Planning!Observations, seen'[w] = Append(seen[w], o) \/ seen'[w] = seen[w]
  PROVE  Planning!Settled(w, f)'
<1>1. PICK i \in DOMAIN seen[w], k \in DOMAIN seen[w] :
        /\ i <= k /\ seen[w][k].at - seen[w][i].at >= Stable
        /\ \A n \in i .. k : seen[w][n].facts = f
  BY DEF Planning!Settled
<1>2. DOMAIN seen[w] = 1 .. Len(seen[w]) /\ Len(seen[w]) \in Nat
  OBVIOUS
<1>3. /\ \A n \in DOMAIN seen[w] : seen'[w][n] = seen[w][n]
      /\ DOMAIN seen[w] \subseteq DOMAIN seen'[w]
  BY <1>2
<1>4. i .. k \subseteq DOMAIN seen[w]
  BY <1>1, <1>2
<1>5. /\ i \in DOMAIN seen'[w] /\ k \in DOMAIN seen'[w]
      /\ i <= k /\ seen'[w][k].at - seen'[w][i].at >= Stable
      /\ \A n \in i .. k : seen'[w][n].facts = f
  BY <1>1, <1>3, <1>4
<1> QED
  BY <1>5 DEF Planning!Settled

(* What the evaluation of an observation says of it.                       *)
LEMMA EvaluatedWhat ==
  ASSUME NEW w, NEW latest, NEW since, NEW previous, NEW now
  PROVE  /\ Planning!Evaluated(w, latest, since, previous, now) \in
              {"incomplete", "facts_unstable", "release_not_due", "ready"}
         /\ latest # 0 <=> Planning!Evaluated(w, latest, since, previous, now) # "incomplete"
         /\ Planning!Evaluated(w, latest, since, previous, now) = "ready" =>
              /\ since # 0 /\ ~(now - since < Stable) /\ ~(now < ReleaseTimes[w])
BY DEF Planning!Evaluated

(* Facts whose source is ready are settled, and may be written about.      *)
LEMMA SourceSettled ==
  ASSUME Planning!PlanningAssumption, Planning!PlanningInvariant, NEW w \in Weeks,
         Planning!SourceReady(w)
  PROVE  /\ episode[w].latest # 0 /\ episode[w].facts = episode[w].latest
         /\ Planning!Settled(w, episode[w].facts) /\ ReleaseTimes[w] <= planTime
<1> DEFINE e == episode[w]
           n == Len(seen[w])
<1>1. /\ e \in Planning!Episodes /\ seen[w] \in Seq(Planning!Observations)
      /\ Planning!Observed(w) /\ planTime \in Nat
  BY DEF Planning!PlanningInvariant, Planning!TypeOK
<1>2. /\ e.since # 0 /\ n \in DOMAIN seen[w]
      /\ Planning!Evaluated(w, e.latest, e.since, e.latest, seen[w][n].at) = "ready"
  BY DEF Planning!SourceReady
<1>3. /\ e.latest # 0 /\ ~(seen[w][n].at - e.since < Stable) /\ ~(seen[w][n].at < ReleaseTimes[w])
  BY <1>2, EvaluatedWhat
<1>4. n \in Nat /\ DOMAIN seen[w] = 1 .. n
  BY <1>1
<1>5. seen[w][n].at \in Nat /\ seen[w][n].at <= planTime
  <2>1. seen[w][n] \in Planning!Observations
    BY <1>1, <1>2
  <2> QED
    BY <1>1, <1>2, <1>4, <2>1 DEF Planning!Observations, Planning!Observed
<1>6. ReleaseTimes[w] \in Nat /\ Stable \in Nat /\ e.since \in Nat
  BY <1>1 DEF Planning!PlanningAssumption, Planning!Episodes
<1>7. PICK i \in 1 .. n : seen[w][i].at = e.since /\ \A m \in i .. n : seen[w][m].facts = e.latest
  BY <1>1, <1>2 DEF Planning!Observed
<1>8. e.facts = e.latest
  BY <1>1, <1>3 DEF Planning!Observed
<1>9. /\ i <= n /\ seen[w][n].at - seen[w][i].at >= Stable
      /\ \A m \in i .. n : seen[w][m].facts = e.facts
  BY <1>3, <1>4, <1>5, <1>6, <1>7, <1>8
<1>10. Planning!Settled(w, e.facts)
  BY <1>2, <1>4, <1>7, <1>9 DEF Planning!Settled
<1>11. ReleaseTimes[w] <= planTime
  BY <1>1, <1>3, <1>5, <1>6
<1> QED
  BY <1>3, <1>8, <1>10, <1>11

(* CandidateHolds are among those that are known.                                 *)
LEMMA ReasonTypes ==
  ASSUME Planning!PlanningInvariant, NEW w \in Weeks, NEW asAutomatic \in BOOLEAN, NEW f
  PROVE  /\ Planning!Authority(asAutomatic) \in Planning!WeekHolds
         /\ Planning!Admission(w, asAutomatic) \in Planning!WeekHolds
         /\ Planning!Readiness(w, f, asAutomatic) \in Planning!CandidateHolds
         /\ ReleaseTimes[w] <= series.activated => Planning!Admission(w, asAutomatic) # ""
<1>1. episode[w].hold \in Planning!WeekHolds
  BY DEF Planning!PlanningInvariant, Planning!TypeOK, Planning!Episodes
<1>2. Planning!Authority(asAutomatic) \in Planning!WeekHolds
  BY DEF Planning!Authority, Planning!WeekHolds
<1>3. Planning!Admission(w, asAutomatic) \in Planning!WeekHolds
  BY <1>2 DEF Planning!Admission, Planning!WeekHolds
<1>4. Planning!Readiness(w, f, asAutomatic) \in Planning!CandidateHolds
  BY <1>1, <1>2 DEF Planning!Readiness, Planning!CandidateHolds
<1>5. ReleaseTimes[w] <= series.activated => Planning!Admission(w, asAutomatic) # ""
  BY DEF Planning!Admission
<1> QED
  BY <1>2, <1>3, <1>4, <1>5

(* An observation is remembered with the week it is of, and admits none    *)
(* that had been collected when writing was resumed.                       *)
LEMMA ObserveKeeps ==
  ASSUME Planning!PlanningAssumption, Planning!PlanningInvariant, NEW w \in Weeks,
         Planning!Observe(w)
  PROVE  Planning!PlanningInvariant'
<1> DEFINE e == episode[w]
           f == facts[w]
           code == Planning!Evaluated(w, f, e.since, e.latest, planTime)
           admission == IF e.admitted # 0 THEN Planning!Authority(FALSE)
                        ELSE Planning!Admission(w, TRUE)
           since == Planning!StableSince(e, f)
           admitted == IF code = "ready" /\ admission = "" /\ e.admitted = 0 THEN planTime
                       ELSE e.admitted
           hold == IF f = 0 THEN code
                   ELSE IF admission # "" THEN admission
                   ELSE IF code = "ready" THEN "" ELSE code
           new == [facts |-> IF f = 0 THEN e.facts ELSE f, latest |-> f, since |-> since,
                   admitted |-> admitted, ready |-> code = "ready" /\ admission = "", hold |-> hold]
           n == Len(seen[w])
           o == [at |-> planTime, facts |-> f]
<1>1. /\ e \in Planning!Episodes /\ f \in Nat /\ planTime \in Nat \ {0}
      /\ seen[w] \in Seq(Planning!Observations)
      /\ n \in Nat /\ Planning!Observed(w) /\ Planning!WeekCollected(w) /\ w \in Planning!Subjects
  <2>1. /\ facts[w] \in 0 .. MaxFacts /\ planTime \in 1 .. PlanEnd
        /\ seen[w] \in Seq(Planning!Observations)
    BY DEF Planning!PlanningInvariant, Planning!TypeOK
  <2>2. MaxFacts \in Nat /\ PlanEnd \in Nat
    BY DEF Planning!PlanningAssumption
  <2>3. /\ e \in Planning!Episodes /\ Planning!Observed(w) /\ Planning!WeekCollected(w)
        /\ w \in Planning!Subjects
    BY DEF Planning!PlanningInvariant, Planning!TypeOK, Planning!Subjects
  <2> QED
    BY <2>1, <2>2, <2>3
<1>2. /\ episode' = [episode EXCEPT ![w] = new] /\ seen' = [seen EXCEPT ![w] = Append(seen[w], o)]
      /\ UNCHANGED <<planTime, Planning!inputs, Planning!controls, candidate, job, automatic,
                     renewed, backlog>>
  BY DEF Planning!Observe
<1>3. /\ code \in {"incomplete", "facts_unstable", "release_not_due", "ready"}
      /\ f # 0 <=> code # "incomplete"
  BY EvaluatedWhat
<1>4. /\ admission \in Planning!WeekHolds
      /\ e.admitted = 0 /\ ReleaseTimes[w] <= series.activated => admission # ""
  BY ReasonTypes
<1>5. /\ since \in Nat
      /\ since # 0 => since = IF e.since # 0 /\ e.latest = f THEN e.since ELSE planTime
      /\ e.admitted \in Nat /\ e.admitted <= planTime /\ e.facts \in Nat
  BY <1>1 DEF Planning!StableSince, Planning!Episodes, Planning!Observed
<1>18. /\ admitted \in Nat /\ admitted <= planTime
       /\ e.admitted # 0 => admitted = e.admitted
       /\ admission # "" => admitted = e.admitted
       /\ code = "ready" /\ admission = "" => admitted # 0
  <2>1. CASE code = "ready" /\ admission = "" /\ e.admitted = 0
    <3>1. admitted = planTime /\ e.admitted = 0 /\ admission = ""
      BY <2>1
    <3>2. planTime \in Nat /\ planTime # 0 /\ planTime <= planTime
      BY <1>1
    <3> HIDE DEF admitted, code, admission, e
    <3> QED
      BY <3>1, <3>2
  <2>2. CASE ~(code = "ready" /\ admission = "" /\ e.admitted = 0)
    <3>1. admitted = e.admitted
      BY <2>2
    <3> HIDE DEF admitted, code, admission
    <3> QED
      BY <1>5, <2>2, <3>1
  <2> QED
    BY <2>1, <2>2
<1>19. e.since # 0 => \E i \in 1 .. n : /\ seen[w][i].at = e.since
                                       /\ \A m \in i .. n : seen[w][m].facts = e.latest
  BY <1>1 DEF Planning!Observed
<1>20. PICK ready \in BOOLEAN : ready <=> code = "ready" /\ admission = ""
  OBVIOUS
<1>6. hold \in Planning!WeekHolds
  BY <1>3, <1>4 DEF Planning!WeekHolds
<1> HIDE DEF code, admission, since, hold, admitted
<1>7. /\ new \in Planning!Episodes /\ new.latest = f /\ new.since = since /\ new.admitted = admitted
      /\ new.facts = (IF f = 0 THEN e.facts ELSE f) /\ new.ready = ready
  <2>1. new = [facts |-> IF f = 0 THEN e.facts ELSE f, latest |-> f, since |-> since,
               admitted |-> admitted, ready |-> ready, hold |-> hold]
    BY <1>20
  <2> QED
    BY <1>1, <1>5, <1>6, <1>18, <2>1 DEF Planning!Episodes
<1> HIDE DEF new
<1>8. o \in Planning!Observations
  BY <1>1 DEF Planning!Observations
<1>9. /\ episode' \in [Weeks -> Planning!Episodes] /\ episode'[w] = new
      /\ \A v \in Weeks \ {w} : episode'[v] = episode[v]
  BY <1>2, <1>7 DEF Planning!PlanningInvariant, Planning!TypeOK
<1>10. /\ seen' \in [Weeks -> Seq(Planning!Observations)] /\ seen'[w] = Append(seen[w], o)
       /\ \A v \in Weeks \ {w} : seen'[v] = seen[v]
  BY <1>1, <1>2, <1>8 DEF Planning!PlanningInvariant, Planning!TypeOK
<1>11. Planning!TypeOK'
  BY <1>2, <1>9, <1>10 DEF Planning!PlanningInvariant, Planning!TypeOK, Planning!inputs,
         Planning!controls
<1>12. Planning!Observed(w)'
  <2>1. /\ Len(seen'[w]) = n + 1 /\ seen'[w][n + 1] = o
        /\ \A m \in 1 .. n : seen'[w][m] = seen[w][m]
    BY <1>1, <1>8, <1>10
  <2>2. f # 0 => new.facts = f
    BY <1>7
  <2>3. since # 0 => \E i \in 1 .. n + 1 : /\ seen'[w][i].at = since
                                          /\ \A m \in i .. n + 1 : seen'[w][m].facts = f
    <3>1. CASE since # 0 /\ e.since # 0 /\ e.latest = f
      <4>1. PICK i \in 1 .. n : /\ seen[w][i].at = e.since
                                /\ \A m \in i .. n : seen[w][m].facts = e.latest
        BY <1>19, <3>1
      <4>2. i \in 1 .. n + 1 /\ seen'[w][i].at = since
        BY <1>1, <1>5, <2>1, <3>1, <4>1
      <4>3. ASSUME NEW m \in i .. n + 1 PROVE seen'[w][m].facts = f
        <5>1. m = n + 1 \/ m \in i .. n
          BY <1>1
        <5>2. m \in i .. n => seen'[w][m] = seen[w][m]
          BY <1>1, <2>1
        <5> QED
          BY <2>1, <3>1, <4>1, <5>1, <5>2
      <4> QED
        BY <4>2, <4>3
    <3>2. CASE since # 0 /\ ~(e.since # 0 /\ e.latest = f)
      <4>1. since = planTime
        BY <1>5, <3>2
      <4>2. /\ n + 1 \in 1 .. n + 1 /\ seen'[w][n + 1].at = since
            /\ \A m \in n + 1 .. n + 1 : seen'[w][m].facts = f
        BY <1>1, <2>1, <4>1
      <4> QED
        BY <4>2
    <3> QED
      BY <3>1, <3>2
  <2>4. new.ready => new.latest # 0 /\ new.admitted # 0
    BY <1>3, <1>7, <1>18, <1>20
  <2>5. new.admitted <= planTime
    BY <1>7, <1>18
  <2>6. \A m \in 1 .. n + 1 : seen'[w][m].at <= planTime
    <3>1. \A m \in 1 .. n : seen[w][m].at <= planTime
      BY <1>1 DEF Planning!Observed
    <3>2. \A m \in 1 .. n + 1 : m = n + 1 \/ m \in 1 .. n
      BY <1>1
    <3> QED
      BY <1>1, <2>1, <3>1, <3>2
  <2>7. planTime' = planTime /\ episode'[w] = new /\ Len(seen'[w]) \in Nat
    BY <1>1, <1>2, <1>9, <2>1
  <2>8. /\ new.latest = IF Len(seen'[w]) = 0 THEN 0 ELSE seen'[w][Len(seen'[w])].facts
        /\ new.latest = f /\ new.since = since
    BY <1>1, <1>7, <2>1
  <2>9. /\ new.latest # 0 => new.facts = new.latest
        /\ new.since # 0 => \E i \in 1 .. Len(seen'[w]) :
              /\ seen'[w][i].at = new.since
              /\ \A m \in i .. Len(seen'[w]) : seen'[w][m].facts = new.latest
        /\ \A m \in 1 .. Len(seen'[w]) : seen'[w][m].at <= planTime
    BY <2>1, <2>2, <2>3, <2>6, <2>8
  <2> QED
    BY <2>4, <2>5, <2>7, <2>8, <2>9 DEF Planning!Observed
<1>14. Planning!WeekCollected(w)'
  <2>1. candidate[w].facts # 0 => Planning!Settled(w, candidate[w].facts)'
    <3>1. candidate[w].facts # 0 => Planning!Settled(w, candidate[w].facts)
      BY <1>1 DEF Planning!WeekCollected
    <3>2. PICK h : h = candidate[w].facts
      OBVIOUS
    <3>3. Planning!Settled(w, h) => Planning!Settled(w, h)'
      BY <1>1, <1>8, <1>10, SettledStays
    <3>4. candidate'[w].facts = h
      BY <1>2, <3>2
    <3> QED
      BY <3>1, <3>2, <3>3, <3>4 DEF Planning!Settled
  <2>2. candidate[w].known => admitted # 0 \/ ReleaseTimes[w] <= planTime
    BY <1>1, <1>18 DEF Planning!WeekCollected
  <2> QED
    BY <1>2, <1>7, <1>9, <2>1, <2>2 DEF Planning!WeekCollected
<1>15. ASSUME NEW v \in Weeks \ {w} PROVE Planning!Observed(v)' /\ Planning!WeekCollected(v)'
  BY <1>2, <1>9, <1>10 DEF Planning!PlanningInvariant, Planning!Observed,
         Planning!WeekCollected, Planning!Settled
<1>16. ASSUME NEW t \in Trades PROVE Planning!TradeCollected(t)'
  BY <1>2 DEF Planning!PlanningInvariant, Planning!TradeCollected
<1>17. ASSUME NEW c \in backlog PROVE Planning!Waits(c)'
  <2>1. Planning!Waits(c) /\ c \in Planning!Subjects
    BY DEF Planning!PlanningInvariant, Planning!TypeOK
  <2>2. c # w => Planning!Waits(c)'
    BY <1>2, <1>9, <2>1 DEF Planning!Waits, Planning!controls
  <2>3. CASE c = w
    <3>1. \/ e.admitted \in 1 .. series.activated
          \/ e.admitted = 0 /\ ReleaseTimes[w] <= series.activated
      BY <2>1, <2>3 DEF Planning!Waits
    <3>2. admitted = e.admitted
      <4>1. e.admitted \in 1 .. series.activated => e.admitted # 0
        BY <1>5 DEF Planning!PlanningInvariant, Planning!TypeOK
      <4> QED
        BY <1>4, <1>18, <3>1, <4>1
    <3> QED
      BY <1>2, <1>7, <1>9, <2>1, <2>3, <3>1, <3>2 DEF Planning!Waits, Planning!controls
  <2> QED
    BY <2>2, <2>3
<1> QED
  BY <1>2, <1>11, <1>12, <1>14, <1>15, <1>16, <1>17 DEF Planning!PlanningInvariant

(* What is collected of a subject keeps the time of its first collection.  *)
LEMMA CollectedWhat ==
  ASSUME Planning!PlanningAssumption, Planning!PlanningInvariant, NEW c \in Planning!Subjects,
         NEW event \in Nat, NEW f \in Nat
  PROVE  /\ Planning!Collected(c, event, f) \in Planning!Candidates
         /\ Planning!Collected(c, event, f).known = TRUE
         /\ Planning!Collected(c, event, f).facts = f
         /\ Planning!Collected(c, event, f).event =
              IF candidate[c].known THEN candidate[c].event ELSE event
<1> DEFINE old == candidate[c]
           first == IF old.known THEN old.event ELSE event
           hold == IF job[c].state = "held" THEN "subject_needs_attention"
                   ELSE IF Planning!Historical(c, first) THEN "historical_approval_required" ELSE ""
           eligible == IF hold = "" THEN planTime ELSE old.eligible
           found == [known |-> TRUE, hold |-> hold, event |-> first, facts |-> f,
                     eligible |-> eligible]
<1>1. old \in Planning!Candidates /\ planTime \in Nat
  BY DEF Planning!PlanningInvariant, Planning!TypeOK
<1>2. first \in Nat
  BY <1>1 DEF Planning!Candidates
<1>3. hold \in Planning!CandidateHolds
  <2> HIDE DEF first
  <2> QED
    BY DEF Planning!CandidateHolds, Planning!WeekHolds
<1>4. eligible \in Nat
  <2> HIDE DEF hold
  <2> QED
    BY <1>1 DEF Planning!Candidates
<1>5. Planning!Collected(c, event, f) = found
  BY DEF Planning!Collected
<1> HIDE DEF first, hold, eligible
<1>6. /\ found \in Planning!Candidates /\ found.known = TRUE
      /\ found.facts = f /\ found.event = first
  BY <1>2, <1>3, <1>4 DEF Planning!Candidates
<1> QED
  BY <1>5, <1>6 DEF first

(* A week is collected on settled facts, when it may be written about.     *)
LEMMA CollectedWeekWhat ==
  ASSUME Planning!PlanningAssumption, Planning!PlanningInvariant, NEW w \in Weeks,
         Planning!Written(w)
  PROVE  /\ Planning!CollectedWeek(w) \in Planning!Candidates /\ Planning!CollectedWeek(w).known
         /\ Planning!CollectedWeek(w).facts # 0 =>
                Planning!Settled(w, Planning!CollectedWeek(w).facts)
         /\ episode[w].admitted # 0 \/ ReleaseTimes[w] <= planTime
<1> DEFINE event == IF episode[w].admitted # 0 THEN episode[w].admitted ELSE planTime
           found == Planning!Collected(w, event, Planning!Bound(w))
           reason == Planning!Readiness(w, found.facts, FALSE)
<1>1. /\ episode[w] \in Planning!Episodes /\ planTime \in Nat /\ Planning!Observed(w)
      /\ Planning!WeekCollected(w)
      /\ w \in Planning!Subjects
  BY DEF Planning!PlanningInvariant, Planning!TypeOK, Planning!Subjects
<1>2. event \in Nat
  BY <1>1 DEF Planning!Episodes
<1>3. Planning!Bound(w) \in Nat /\ (Planning!Bound(w) # 0 => Planning!Settled(w, Planning!Bound(w)))
  BY <1>1, SourceSettled DEF Planning!Bound, Planning!Episodes
<1>4. found \in Planning!Candidates /\ found.known = TRUE /\ found.facts = Planning!Bound(w)
  <2> HIDE DEF event
  <2> QED
    BY <1>1, <1>2, <1>3, CollectedWhat
<1>5. reason \in Planning!CandidateHolds
  <2> HIDE DEF found
  <2> QED
    BY ReasonTypes
<1>6. Planning!CollectedWeek(w) = IF reason # "" THEN [found EXCEPT !.hold = reason]
                                  ELSE IF found.hold = "historical_approval_required"
                                       THEN [found EXCEPT !.hold = ""]
                                  ELSE found
  BY DEF Planning!CollectedWeek
<1> HIDE DEF found, reason
<1>7. /\ Planning!CollectedWeek(w) \in Planning!Candidates /\ Planning!CollectedWeek(w).known
      /\ Planning!CollectedWeek(w).facts = found.facts
  <2>1. "" \in Planning!CandidateHolds
    BY DEF Planning!CandidateHolds, Planning!WeekHolds
  <2> QED
    BY <1>4, <1>5, <1>6, <2>1 DEF Planning!Candidates
<1>8. episode[w].admitted # 0 \/ ReleaseTimes[w] <= planTime
  BY <1>1, SourceSettled DEF Planning!Written, Planning!Observed, Planning!WeekCollected
<1>9. Planning!CollectedWeek(w).facts # 0 => Planning!Settled(w, Planning!CollectedWeek(w).facts)
  <2>1. Planning!CollectedWeek(w).facts = Planning!Bound(w)
    BY <1>4, <1>7
  <2> QED
    BY <1>3, <2>1
<1> QED
  BY <1>7, <1>8, <1>9

(* Collecting keeps the invariant.                                         *)
LEMMA CollectsKeep ==
  ASSUME Planning!PlanningAssumption, Planning!PlanningInvariant,
         Planning!CollectWeeks \/ Planning!Collect
  PROVE  Planning!PlanningInvariant'
<1>1. /\ UNCHANGED <<planTime, facts, traded, paused, mode, series, connection, episode, job,
                     automatic, seen, backlog>>
  BY DEF Planning!CollectWeeks, Planning!Collect, Planning!inputs, Planning!controls,
         Planning!history
<1>2. /\ DOMAIN candidate' = Planning!Subjects
      /\ candidate' = [c \in Planning!Subjects |-> candidate'[c]]
  BY DEF Planning!CollectWeeks, Planning!Collect
<1>3. ASSUME NEW c \in Planning!Subjects
      PROVE  \/ candidate'[c] = candidate[c]
             \/ c \in Trades /\ traded[c] # 0 /\ candidate'[c] = Planning!Collected(c, traded[c], 1)
             \/ c \in Weeks /\ Planning!Written(c) /\ candidate'[c] = Planning!CollectedWeek(c)
  BY <1>3 DEF Planning!CollectWeeks, Planning!Collect
<1>4. /\ planTime \in Nat /\ candidate \in [Planning!Subjects -> Planning!Candidates]
      /\ Weeks \subseteq Planning!Subjects
      /\ Trades \subseteq Planning!Subjects /\ Trades \cap Weeks = {}
  BY DEF Planning!PlanningInvariant, Planning!TypeOK, Planning!PlanningAssumption,
         Planning!Subjects
<1>5. ASSUME NEW t \in Trades
      PROVE  /\ traded[t] \in Nat /\ traded[t] <= planTime
             /\ Planning!Collected(t, traded[t], 1) \in Planning!Candidates
             /\ Planning!Collected(t, traded[t], 1).known
             /\ Planning!Collected(t, traded[t], 1).event =
                  IF candidate[t].known THEN candidate[t].event ELSE traded[t]
  <2>1. traded[t] \in Nat /\ traded[t] <= planTime
    <3>1. traded[t] \in 0 .. planTime
      BY <1>5 DEF Planning!PlanningInvariant, Planning!TypeOK
    <3> QED
      BY <1>4, <3>1
  <2>2. t \in Planning!Subjects /\ 1 \in Nat /\ traded[t] \in Nat
    BY <1>4, <1>5, <2>1
  <2>3. /\ Planning!Collected(t, traded[t], 1) \in Planning!Candidates
        /\ Planning!Collected(t, traded[t], 1).known = TRUE
        /\ Planning!Collected(t, traded[t], 1).event =
             IF candidate[t].known THEN candidate[t].event ELSE traded[t]
    BY <2>2, CollectedWhat
  <2> QED
    BY <2>1, <2>3
<1>6. ASSUME NEW c \in Planning!Subjects PROVE candidate'[c] \in Planning!Candidates
  BY <1>3, <1>4, <1>5, <1>6, CollectedWeekWhat
<1>7. Planning!TypeOK'
  BY <1>1, <1>2, <1>6 DEF Planning!PlanningInvariant, Planning!TypeOK
<1>8. ASSUME NEW w \in Weeks PROVE Planning!Observed(w)' /\ Planning!WeekCollected(w)'
  <2>1. Planning!Observed(w)'
    BY <1>1, <1>8 DEF Planning!PlanningInvariant, Planning!Observed
  <2>2. /\ candidate'[w].facts # 0 => Planning!Settled(w, candidate'[w].facts)
        /\ candidate'[w].known => episode[w].admitted # 0 \/ ReleaseTimes[w] <= planTime
    <3>1. CASE candidate'[w] = candidate[w]
      BY <1>8, <3>1 DEF Planning!PlanningInvariant, Planning!WeekCollected
    <3>2. CASE Planning!Written(w) /\ candidate'[w] = Planning!CollectedWeek(w)
      BY <1>8, <3>2, CollectedWeekWhat
    <3> QED
      BY <1>3, <1>4, <1>8, <3>1, <3>2
  <2> QED
    BY <1>1, <2>1, <2>2 DEF Planning!WeekCollected, Planning!Settled
<1>9. ASSUME NEW t \in Trades PROVE Planning!TradeCollected(t)'
  <2>1. CASE candidate'[t] = candidate[t]
    BY <1>1, <1>9, <2>1 DEF Planning!PlanningInvariant, Planning!TradeCollected
  <2>2. CASE traded[t] # 0 /\ candidate'[t] = Planning!Collected(t, traded[t], 1)
    <3>1. candidate[t].known => candidate[t].event \in 1 .. planTime
      BY <1>9 DEF Planning!PlanningInvariant, Planning!TradeCollected
    <3>2. traded[t] \in 1 .. planTime
      BY <1>4, <1>5, <2>2
    <3> QED
      BY <1>1, <1>5, <2>2, <3>1, <3>2 DEF Planning!TradeCollected
  <2> QED
    BY <1>3, <1>4, <1>9, <2>1, <2>2
<1>10. ASSUME NEW c \in backlog PROVE Planning!Waits(c)'
  <2>1. Planning!Waits(c) /\ c \in Planning!Subjects
    BY <1>10 DEF Planning!PlanningInvariant, Planning!TypeOK
  <2>2. candidate'[c].known
    BY <1>3, <1>5, <2>1, CollectedWeekWhat DEF Planning!Waits
  <2>3. c \in Trades => candidate'[c].event = candidate[c].event
    BY <1>3, <1>4, <1>5, <2>1 DEF Planning!Waits
  <2> QED
    BY <1>1, <2>1, <2>2, <2>3 DEF Planning!Waits
<1> QED
  BY <1>1, <1>7, <1>8, <1>9, <1>10 DEF Planning!PlanningInvariant

(* A job that changes keeps the types when it is a job.                    *)
LEMMA JobTypes ==
  ASSUME Planning!PlanningInvariant, NEW c \in Planning!Subjects, NEW j \in Planning!SubjectJobs,
         job' = [job EXCEPT ![c] = j]
  PROVE  job' \in [Planning!Subjects -> Planning!SubjectJobs]
BY DEF Planning!PlanningInvariant, Planning!TypeOK

(* The world goes on without touching what was observed or collected.      *)
LEMMA PlanningWorldKeeps ==
  ASSUME Planning!PlanningAssumption, Planning!PlanningInvariant,
         \/ \E w \in Weeks : Planning!NewFacts(w)
         \/ \E t \in Trades : Planning!Trade(t)
         \/ Planning!Reconnect \/ Planning!Tick
  PROVE  Planning!PlanningInvariant'
<1>1. /\ planTime \in 1 .. PlanEnd /\ PlanEnd \in Nat /\ Planning!TypeOK /\ MaxFacts \in Nat
      /\ planTime \in Nat
  BY DEF Planning!PlanningInvariant, Planning!TypeOK, Planning!PlanningAssumption
<1>2. \A c \in backlog : ~(job[c].by = "scheduler" /\ job[c].state = "queued")
  BY DEF Planning!PlanningInvariant, Planning!Waits
<1>3. ASSUME NEW w \in Weeks, Planning!NewFacts(w) PROVE Planning!PlanningInvariant'
  <2>1. UNCHANGED <<planTime, traded, Planning!controls, episode, candidate, job, automatic,
                    renewed, Planning!history>>
    BY <1>3 DEF Planning!NewFacts
  <2>2. PICK f \in 0 .. MaxFacts : facts' = [facts EXCEPT ![w] = f]
    BY <1>3 DEF Planning!NewFacts
  <2>3. Planning!TypeOK'
    BY <1>1, <2>1, <2>2 DEF Planning!TypeOK, Planning!controls, Planning!history
  <2> QED
    BY <1>1, <1>2, <2>1, <2>3, RestKeeps DEF Planning!controls, Planning!history
<1>4. ASSUME NEW t \in Trades, Planning!Trade(t) PROVE Planning!PlanningInvariant'
  <2>1. /\ UNCHANGED <<planTime, facts, Planning!controls, episode, candidate, job, automatic,
                       renewed, Planning!history>>
        /\ traded' = [traded EXCEPT ![t] = planTime]
    BY <1>4 DEF Planning!Trade
  <2>2. planTime \in 0 .. planTime
    BY <1>1
  <2>3. Planning!TypeOK'
    BY <1>1, <2>1, <2>2 DEF Planning!TypeOK, Planning!controls, Planning!history
  <2> QED
    BY <1>1, <1>2, <2>1, <2>3, RestKeeps DEF Planning!controls, Planning!history
<1>5. CASE Planning!Reconnect
  <2>1. /\ UNCHANGED <<planTime, Planning!inputs, latestWeek, paused, mode, series, commands,
                       episode, candidate, job, automatic, renewed, Planning!history>>
        /\ connection' = connection + 1 /\ connection \in Nat
    BY <1>1, <1>5 DEF Planning!Reconnect, Planning!TypeOK
  <2>2. Planning!TypeOK'
    BY <1>1, <2>1 DEF Planning!TypeOK, Planning!inputs, Planning!history
  <2> QED
    BY <1>1, <1>2, <2>1, <2>2, RestKeeps DEF Planning!history
<1>6. CASE Planning!Tick
  <2>1. /\ UNCHANGED <<Planning!inputs, Planning!controls, episode, candidate, job, automatic,
                       renewed, Planning!history>>
        /\ planTime' = planTime + 1 /\ planTime < PlanEnd
    BY <1>6 DEF Planning!Tick
  <2>2. /\ planTime' \in 1 .. PlanEnd /\ planTime' \in Nat /\ planTime <= planTime'
        /\ 0 .. planTime \subseteq 0 .. planTime'
        /\ 1 .. planTime \subseteq 1 .. planTime'
    BY <1>1, <2>1
  <2>3. Planning!TypeOK'
    <3>1. traded' \in [Trades -> 0 .. planTime']
      BY <1>1, <2>1, <2>2 DEF Planning!TypeOK, Planning!inputs
    <3>2. series'.activated \in 1 .. planTime'
      BY <1>1, <2>1, <2>2 DEF Planning!TypeOK, Planning!controls
    <3> QED
      BY <1>1, <2>1, <2>2, <3>1, <3>2 DEF Planning!TypeOK, Planning!inputs, Planning!controls,
             Planning!history
  <2> QED
    BY <1>1, <1>2, <2>1, <2>2, <2>3, RestKeeps DEF Planning!controls, Planning!history
<1> QED
  BY <1>3, <1>4, <1>5, <1>6

(* A pass of the worker refuses candidates and buys others, and none that  *)
(* it buys still waits.                                                    *)
LEMMA PassKeeps ==
  ASSUME Planning!PlanningAssumption, Planning!PlanningInvariant,
         \/ Planning!Renew
         \/ \E c \in Planning!Subjects : Planning!RenewFails(c)
         \/ \E refused \in SUBSET Planning!Subjects : Planning!Admit(refused)
  PROVE  Planning!PlanningInvariant'
<1>1. /\ planTime \in Nat /\ Planning!TypeOK
      /\ candidate \in [Planning!Subjects -> Planning!Candidates]
      /\ job \in [Planning!Subjects -> Planning!SubjectJobs] /\ connection \in Nat
      /\ automatic \subseteq Planning!Subjects /\ backlog \subseteq Planning!Subjects
  BY DEF Planning!PlanningInvariant, Planning!TypeOK, Planning!PlanningAssumption
<1>2. \A c \in backlog : ~(job[c].by = "scheduler" /\ job[c].state = "queued")
  BY DEF Planning!PlanningInvariant, Planning!Waits
<1>3. CASE Planning!Renew
  <2>1. UNCHANGED <<planTime, Planning!inputs, Planning!controls, episode, candidate, job,
                    automatic, Planning!history>>
    BY <1>3 DEF Planning!Renew
  <2>2. Planning!TypeOK'
    BY <1>1, <2>1 DEF Planning!TypeOK, Planning!inputs, Planning!controls, Planning!history
  <2> QED
    BY <1>1, <1>2, <2>1, <2>2, RestKeeps DEF Planning!controls, Planning!history
<1>4. ASSUME NEW c \in Planning!Subjects, Planning!RenewFails(c) PROVE Planning!PlanningInvariant'
  <2>1. /\ UNCHANGED <<planTime, Planning!inputs, Planning!controls, episode, job, automatic,
                       renewed, Planning!history>>
        /\ candidate' = [candidate EXCEPT ![c].hold = "yahoo_authorization_unavailable",
                                          ![c].eligible = 0]
    BY <1>4 DEF Planning!RenewFails
  <2>2. "yahoo_authorization_unavailable" \in Planning!CandidateHolds
    BY DEF Planning!CandidateHolds
  <2>3. /\ candidate' \in [Planning!Subjects -> Planning!Candidates]
        /\ \A s \in Planning!Subjects : /\ candidate'[s].known = candidate[s].known
                                        /\ candidate'[s].event = candidate[s].event
                                        /\ candidate'[s].facts = candidate[s].facts
    BY <1>1, <2>1, <2>2 DEF Planning!Candidates
  <2>4. Planning!TypeOK'
    BY <1>1, <2>1, <2>3 DEF Planning!TypeOK, Planning!inputs, Planning!controls, Planning!history
  <2> QED
    BY <1>1, <1>2, <2>1, <2>3, <2>4, RestKeeps DEF Planning!controls, Planning!history
<1>5. ASSUME NEW refused \in SUBSET Planning!Subjects, Planning!Admit(refused)
      PROVE  Planning!PlanningInvariant'
  <2> DEFINE admitted == {c \in Planning!Subjects \ refused :
                            /\ Planning!Eligible(c) /\ Planning!Proof(c) \in renewed
                            /\ Planning!Authorizable(c)}
             bought == {c \in admitted : ~Planning!Pending(c)}
  <2>1. /\ UNCHANGED <<planTime, Planning!inputs, Planning!controls, episode, seen>>
        /\ job' = [c \in Planning!Subjects |->
             IF c \in bought THEN [state |-> "queued", by |-> "scheduler",
                                   facts |-> candidate[c].facts, connection |-> connection]
             ELSE job[c]]
        /\ automatic' = automatic \cup bought
        /\ candidate' = [c \in Planning!Subjects |->
             IF \/ c \in admitted
                \/ candidate[c].hold = "" /\ (Planning!Completed(c) \/ c \in automatic)
             THEN [candidate[c] EXCEPT !.eligible = 0] ELSE candidate[c]]
        /\ backlog' = backlog \ bought
    BY <1>5 DEF Planning!Admit
  <2>2. bought \subseteq Planning!Subjects
    OBVIOUS
  <2> HIDE DEF admitted, bought
  <2>3. job' \in [Planning!Subjects -> Planning!SubjectJobs]
    BY <1>1, <2>1 DEF Planning!SubjectJobs, Planning!Candidates
  <2>4. ASSUME NEW c \in Planning!Subjects
        PROVE  /\ candidate'[c] \in Planning!Candidates
               /\ candidate'[c].known = candidate[c].known
               /\ candidate'[c].event = candidate[c].event
               /\ candidate'[c].facts = candidate[c].facts
    <3>1. candidate'[c] = candidate[c] \/ candidate'[c] = [candidate[c] EXCEPT !.eligible = 0]
      BY <2>1, <2>4
    <3> QED
      BY <1>1, <2>4, <3>1 DEF Planning!Candidates
  <2>5. candidate' \in [Planning!Subjects -> Planning!Candidates]
    <3>1. candidate' = [c \in Planning!Subjects |-> candidate'[c]]
      BY <2>1
    <3> QED
      BY <2>4, <3>1
  <2>6. Planning!TypeOK'
    BY <1>1, <2>1, <2>2, <2>3, <2>5 DEF Planning!TypeOK, Planning!inputs, Planning!controls
  <2>7. \A c \in backlog' : ~(job'[c].by = "scheduler" /\ job'[c].state = "queued")
    BY <1>1, <1>2, <2>1
  <2>8. planTime' = planTime /\ backlog' \subseteq backlog /\ UNCHANGED <<episode, seen, series>>
    BY <2>1 DEF Planning!controls
  <2>9. planTime' \in Nat /\ planTime <= planTime'
    <3>1. planTime \in Nat
      BY <1>1
    <3> QED
      BY <2>8, <3>1
  <2> QED
    BY <2>4, <2>6, <2>7, <2>8, <2>9, RestKeeps
<1> QED
  BY <1>3, <1>4, <1>5

(* SubjectJobs are taken, worked on, cancelled and resumed; pausing and the mode  *)
(* of the owner's own hand change nothing that is kept of them.            *)
LEMMA JobsKeep ==
  ASSUME Planning!PlanningAssumption, Planning!PlanningInvariant,
         \/ \E c \in Planning!Subjects :
               Planning!Take(c) \/ Planning!Work(c) \/ Planning!Cancel(c) \/ Planning!ResumeJob(c)
         \/ Planning!Pause
  PROVE  Planning!PlanningInvariant'
<1>1. /\ planTime \in Nat /\ Planning!TypeOK /\ job \in [Planning!Subjects -> Planning!SubjectJobs]
      /\ automatic \subseteq Planning!Subjects /\ backlog \subseteq Planning!Subjects
  BY DEF Planning!PlanningInvariant, Planning!TypeOK, Planning!PlanningAssumption
<1>2. \A c \in backlog : ~(job[c].by = "scheduler" /\ job[c].state = "queued")
  BY DEF Planning!PlanningInvariant, Planning!Waits
<1>3. ASSUME NEW c \in Planning!Subjects, NEW to \in {"running", "succeeded", "held", "cancelled"},
             job' = [job EXCEPT ![c].state = to],
             UNCHANGED <<planTime, Planning!inputs, Planning!controls, episode, candidate,
                         automatic, renewed, Planning!history>>
      PROVE  Planning!PlanningInvariant'
  <2>1. job' \in [Planning!Subjects -> Planning!SubjectJobs]
    BY <1>1, <1>3 DEF Planning!SubjectJobs
  <2>2. Planning!TypeOK'
    BY <1>1, <1>3, <2>1 DEF Planning!TypeOK, Planning!inputs, Planning!controls, Planning!history
  <2>3. \A s \in backlog' : ~(job'[s].by = "scheduler" /\ job'[s].state = "queued")
    BY <1>1, <1>2, <1>3 DEF Planning!history, Planning!SubjectJobs
  <2>4. /\ planTime' \in Nat /\ planTime <= planTime' /\ backlog' \subseteq backlog
        /\ UNCHANGED <<episode, seen, series, candidate>>
    BY <1>1, <1>3 DEF Planning!controls, Planning!history
  <2> QED
    BY <2>2, <2>3, <2>4, RestKeeps
<1>4. ASSUME NEW c \in Planning!Subjects,
             Planning!Take(c) \/ Planning!Work(c) \/ Planning!Cancel(c)
      PROVE  Planning!PlanningInvariant'
  <2>1. /\ \E to \in {"running", "succeeded", "held", "cancelled"} :
             job' = [job EXCEPT ![c].state = to]
        /\ UNCHANGED <<planTime, Planning!inputs, Planning!controls, episode, candidate,
                       automatic, renewed, Planning!history>>
    BY <1>4 DEF Planning!Take, Planning!Work, Planning!Cancel
  <2> QED
    BY <1>3, <2>1
<1>5. ASSUME NEW c \in Planning!Subjects, Planning!ResumeJob(c) PROVE Planning!PlanningInvariant'
  <2>1. /\ job' = [job EXCEPT ![c].state = "queued"] /\ backlog' = backlog \ {c}
        /\ UNCHANGED <<planTime, Planning!inputs, Planning!controls, episode, candidate,
                       automatic, renewed, seen>>
    BY <1>5 DEF Planning!ResumeJob
  <2>2. job' \in [Planning!Subjects -> Planning!SubjectJobs]
    BY <1>1, <2>1 DEF Planning!SubjectJobs
  <2>3. Planning!TypeOK'
    BY <1>1, <2>1, <2>2 DEF Planning!TypeOK, Planning!inputs, Planning!controls
  <2>4. \A s \in backlog' : ~(job'[s].by = "scheduler" /\ job'[s].state = "queued")
    BY <1>1, <1>2, <2>1
  <2>5. /\ planTime' \in Nat /\ planTime <= planTime' /\ backlog' \subseteq backlog
        /\ UNCHANGED <<episode, seen, series, candidate>>
    BY <1>1, <2>1 DEF Planning!controls
  <2> QED
    BY <2>3, <2>4, <2>5, RestKeeps
<1>6. CASE Planning!Pause
  <2>1. /\ paused' = TRUE /\ UNCHANGED <<mode, series, candidate, job, backlog>>
        /\ UNCHANGED <<planTime, Planning!inputs, latestWeek, connection, episode, automatic,
                       renewed, seen>>
    BY <1>6 DEF Planning!Pause, Planning!Command
  <2>2. Planning!TypeOK'
    BY <1>1, <2>1 DEF Planning!TypeOK, Planning!inputs
  <2> QED
    BY <1>1, <1>2, <2>1, <2>2, RestKeeps
<1> QED
  BY <1>4, <1>5, <1>6

(* Resuming makes what was collected wait: it was collected before now.    *)
LEMMA ResumeKeeps ==
  ASSUME Planning!PlanningAssumption, Planning!PlanningInvariant,
         Planning!Resume \/ \E new \in {"manual", "automatic"} : Planning!SaveMode(new)
  PROVE  Planning!PlanningInvariant'
<1>1. /\ planTime \in Nat \ {0} /\ Planning!TypeOK
      /\ candidate \in [Planning!Subjects -> Planning!Candidates]
      /\ job \in [Planning!Subjects -> Planning!SubjectJobs] /\ PlanEnd \in Nat
      /\ Weeks \subseteq Planning!Subjects /\ Trades \subseteq Planning!Subjects
      /\ Trades \cap Weeks = {}
  BY DEF Planning!PlanningInvariant, Planning!TypeOK, Planning!PlanningAssumption,
         Planning!Subjects
<1>2. /\ UNCHANGED <<planTime, Planning!inputs, latestWeek, connection, episode, automatic,
                     renewed, seen>>
      /\ paused' \in BOOLEAN /\ mode' \in {"manual", "automatic"}
      /\ Planning!HoldBacklog \/ UNCHANGED <<series, candidate, job, backlog>>
  BY <1>1 DEF Planning!Resume, Planning!SaveMode, Planning!Command, Planning!TypeOK
<1>3. CASE UNCHANGED <<series, candidate, job, backlog>>
  <2>1. Planning!TypeOK'
    BY <1>1, <1>2, <1>3 DEF Planning!TypeOK, Planning!inputs
  <2>2. \A c \in backlog' : ~(job'[c].by = "scheduler" /\ job'[c].state = "queued")
    BY <1>3 DEF Planning!PlanningInvariant, Planning!Waits
  <2> QED
    BY <1>1, <1>2, <1>3, <2>1, <2>2, RestKeeps
<1>4. CASE Planning!HoldBacklog
  <2>1. /\ series' = [activated |-> planTime, week |-> latestWeek]
        /\ candidate' = [c \in Planning!Subjects |->
             IF candidate[c].known /\ candidate[c].hold = ""
             THEN [candidate[c] EXCEPT !.hold = "historical_approval_required", !.eligible = 0]
             ELSE candidate[c]]
        /\ job' = [c \in Planning!Subjects |-> IF job[c].state = "queued" /\ job[c].by = "scheduler"
                      THEN [job[c] EXCEPT !.state = "held"] ELSE job[c]]
        /\ backlog' = {c \in Planning!Subjects : candidate[c].known}
    BY <1>4 DEF Planning!HoldBacklog, Planning!BacklogJobs
  <2>2. ASSUME NEW c \in Planning!Subjects
        PROVE  /\ candidate'[c] \in Planning!Candidates
               /\ candidate'[c].known = candidate[c].known
               /\ candidate'[c].event = candidate[c].event
               /\ candidate'[c].facts = candidate[c].facts
    <3>1. \/ candidate'[c] = candidate[c]
          \/ candidate'[c] = [candidate[c] EXCEPT !.hold = "historical_approval_required",
                                                  !.eligible = 0]
      BY <2>1, <2>2
    <3>2. /\ "historical_approval_required" \in Planning!CandidateHolds
          /\ candidate[c] \in Planning!Candidates /\ 0 \in Nat
      BY <1>1, <2>2 DEF Planning!CandidateHolds, Planning!WeekHolds
    <3>3. PICK old \in Planning!Candidates : old = candidate[c]
      BY <3>2
    <3> DEFINE held == [old EXCEPT !.hold = "historical_approval_required", !.eligible = 0]
    <3>4. /\ held \in Planning!Candidates
          /\ held.known = old.known /\ held.event = old.event /\ held.facts = old.facts
      BY <3>2 DEF Planning!Candidates
    <3> QED
      BY <3>1, <3>3, <3>4
  <2>3. ASSUME NEW c \in Planning!Subjects
        PROVE  /\ job'[c] \in Planning!SubjectJobs
               /\ ~(job'[c].by = "scheduler" /\ job'[c].state = "queued")
    <3>1. job'[c] = IF job[c].state = "queued" /\ job[c].by = "scheduler"
                    THEN [job[c] EXCEPT !.state = "held"] ELSE job[c]
      BY <2>1, <2>3
    <3>2. job[c] \in Planning!SubjectJobs
      BY <1>1, <2>3
    <3> QED
      BY <3>1, <3>2 DEF Planning!SubjectJobs
  <2>4. /\ candidate' \in [Planning!Subjects -> Planning!Candidates]
        /\ job' \in [Planning!Subjects -> Planning!SubjectJobs]
    <3>1. /\ candidate' = [c \in Planning!Subjects |-> candidate'[c]]
          /\ job' = [c \in Planning!Subjects |-> job'[c]]
      BY <2>1
    <3> QED
      BY <2>2, <2>3, <3>1
  <2>5. series'.activated = planTime /\ planTime \in 1 .. planTime
    <3>1. planTime \in Nat \ {0}
      BY <1>1
    <3>2. planTime \in 1 .. planTime
      BY <3>1
    <3> QED
      BY <2>1, <3>2
  <2>6. Planning!TypeOK'
    BY <1>1, <1>2, <2>1, <2>4, <2>5 DEF Planning!TypeOK, Planning!inputs
  <2>7. ASSUME NEW w \in Weeks PROVE Planning!Observed(w)' /\ Planning!WeekCollected(w)'
    <3>1. Planning!Observed(w)'
      BY <1>2, <2>7 DEF Planning!PlanningInvariant, Planning!Observed
    <3>2. Planning!WeekCollected(w)'
      BY <1>1, <1>2, <2>2, <2>7 DEF Planning!PlanningInvariant, Planning!WeekCollected,
             Planning!Settled
    <3> QED
      BY <3>1, <3>2
  <2>8. ASSUME NEW t \in Trades PROVE Planning!TradeCollected(t)'
    BY <1>1, <1>2, <2>2, <2>8 DEF Planning!PlanningInvariant, Planning!TradeCollected
  <2>9. ASSUME NEW c \in backlog' PROVE Planning!Waits(c)'
    <3>1. c \in Planning!Subjects /\ candidate[c].known
      BY <2>1, <2>9
    <3>2. c \in Weeks => \/ episode[c].admitted \in 1 .. planTime
                         \/ episode[c].admitted = 0 /\ ReleaseTimes[c] <= planTime
      <4> SUFFICES ASSUME c \in Weeks PROVE \/ episode[c].admitted \in 1 .. planTime
                                            \/ /\ episode[c].admitted = 0
                                               /\ ReleaseTimes[c] <= planTime
        OBVIOUS
      <4>1. Planning!Observed(c) /\ Planning!WeekCollected(c) /\ episode[c] \in Planning!Episodes
        BY DEF Planning!PlanningInvariant, Planning!TypeOK
      <4>2. episode[c].admitted \in Nat /\ episode[c].admitted <= planTime
        BY <4>1 DEF Planning!Episodes, Planning!Observed
      <4> QED
        BY <1>1, <3>1, <4>1, <4>2 DEF Planning!WeekCollected
    <3>3. c \in Trades => candidate[c].event <= planTime
      BY <1>1, <3>1 DEF Planning!PlanningInvariant, Planning!TradeCollected
    <3> QED
      BY <1>2, <2>2, <2>3, <2>5, <3>1, <3>2, <3>3 DEF Planning!Waits
  <2> QED
    BY <2>6, <2>7, <2>8, <2>9 DEF Planning!PlanningInvariant
<1> QED
  BY <1>2, <1>3, <1>4

(* The owner approves a job, and may admit a week that was ready.          *)
LEMMA ApproveKeeps ==
  ASSUME Planning!PlanningAssumption, Planning!PlanningInvariant, NEW c \in Planning!Subjects,
         Planning!Approve(c)
  PROVE  Planning!PlanningInvariant'
<1>1. /\ planTime \in Nat \ {0} /\ Planning!TypeOK
      /\ candidate \in [Planning!Subjects -> Planning!Candidates]
      /\ job \in [Planning!Subjects -> Planning!SubjectJobs] /\ connection \in Nat
      /\ Weeks \subseteq Planning!Subjects /\ Trades \subseteq Planning!Subjects
      /\ episode \in [Weeks -> Planning!Episodes]
  BY DEF Planning!PlanningInvariant, Planning!TypeOK, Planning!PlanningAssumption,
         Planning!Subjects
<1>2. /\ UNCHANGED <<planTime, Planning!inputs, Planning!controls, candidate, automatic, renewed,
                     seen>>
      /\ job' = [job EXCEPT ![c] = [state |-> "queued", by |-> "admin",
                                    facts |-> candidate[c].facts, connection |-> connection]]
      /\ backlog' = backlog \ {c}
      /\ episode' = IF c \in Weeks /\ episode[c].admitted = 0
                    THEN [episode EXCEPT ![c].admitted = planTime, ![c].ready = TRUE,
                                         ![c].hold = ""]
                    ELSE episode
  BY DEF Planning!Approve
<1>3. job' \in [Planning!Subjects -> Planning!SubjectJobs]
  <2>1. [state |-> "queued", by |-> "admin", facts |-> candidate[c].facts,
         connection |-> connection] \in Planning!SubjectJobs
    BY <1>1 DEF Planning!SubjectJobs, Planning!Candidates
  <2> QED
    BY <1>2, <2>1, JobTypes
<1>4. \A s \in backlog' : ~(job'[s].by = "scheduler" /\ job'[s].state = "queued")
  BY <1>1, <1>2 DEF Planning!PlanningInvariant, Planning!Waits, Planning!TypeOK
<1>5. CASE ~(c \in Weeks /\ episode[c].admitted = 0)
  <2>1. episode' = episode
    BY <1>2, <1>5
  <2>2. Planning!TypeOK'
    BY <1>1, <1>2, <1>3, <2>1 DEF Planning!TypeOK, Planning!inputs, Planning!controls
  <2>3. /\ planTime' = planTime /\ backlog' \subseteq backlog
        /\ UNCHANGED <<episode, seen, series, candidate>>
    BY <1>2, <2>1 DEF Planning!controls
  <2>4. planTime' \in Nat /\ planTime <= planTime'
    <3>1. planTime \in Nat
      BY <1>1
    <3> QED
      BY <2>3, <3>1
  <2> QED
    BY <1>4, <2>2, <2>3, <2>4, RestKeeps
<1>6. CASE c \in Weeks /\ episode[c].admitted = 0
  <2> DEFINE e == episode[c]
  <2>1. /\ e \in Planning!Episodes /\ Planning!Observed(c) /\ Planning!WeekCollected(c)
    BY <1>6 DEF Planning!PlanningInvariant, Planning!TypeOK
  <2>2. e.ready = FALSE
    BY <1>6, <2>1 DEF Planning!Observed, Planning!Episodes
  <2>3. Planning!SourceReady(c)
    <3>1. Planning!Readiness(c, candidate[c].facts, FALSE) = "" \/ Planning!SourceReady(c)
      BY <1>6 DEF Planning!Approve
    <3>2. Planning!Readiness(c, candidate[c].facts, FALSE) # ""
      BY <1>6, <2>2 DEF Planning!Readiness
    <3> QED
      BY <3>1, <3>2
  <2>4. e.latest # 0
    BY <1>6, <2>3, SourceSettled
  <2>5. PICK new \in Planning!Episodes : /\ episode' = [episode EXCEPT ![c] = new]
                                         /\ new.facts = e.facts /\ new.latest = e.latest
                                         /\ new.since = e.since /\ new.admitted = planTime
                                         /\ new.ready = TRUE /\ new.hold = ""
    <3> DEFINE x == [e EXCEPT !.admitted = planTime, !.ready = TRUE, !.hold = ""]
    <3>1. "" \in Planning!WeekHolds
      BY DEF Planning!WeekHolds
    <3>2. /\ x \in Planning!Episodes /\ x.facts = e.facts /\ x.latest = e.latest
          /\ x.since = e.since /\ x.admitted = planTime /\ x.ready = TRUE /\ x.hold = ""
      BY <1>1, <2>1, <3>1 DEF Planning!Episodes
    <3>3. episode' = [episode EXCEPT ![c] = x]
      BY <1>1, <1>2, <1>6
    <3> QED
      BY <3>2, <3>3
  <2>6. /\ episode' \in [Weeks -> Planning!Episodes] /\ episode'[c] = new
        /\ \A v \in Weeks \ {c} : episode'[v] = episode[v]
    BY <1>1, <1>6, <2>5
  <2>7. Planning!TypeOK'
    BY <1>1, <1>2, <1>3, <2>6 DEF Planning!TypeOK, Planning!inputs, Planning!controls
  <2>8. Planning!Observed(c)'
    <3>1. planTime \in Nat \ {0}
      BY <1>1
    <3>2. planTime <= planTime /\ planTime # 0
      BY <3>1
    <3>3. planTime' = planTime /\ seen' = seen /\ episode'[c] = new
      BY <1>2, <2>6
    <3>4. /\ new.latest = IF Len(seen[c]) = 0 THEN 0 ELSE seen[c][Len(seen[c])].facts
          /\ new.facts = new.latest
          /\ new.since # 0 => \E i \in 1 .. Len(seen[c]) :
                /\ seen[c][i].at = new.since
                /\ \A m \in i .. Len(seen[c]) : seen[c][m].facts = new.latest
          /\ \A m \in 1 .. Len(seen[c]) : seen[c][m].at <= planTime
      BY <2>1, <2>4, <2>5 DEF Planning!Observed
    <3>5. /\ new.latest # 0 => new.facts = new.latest
          /\ new.ready => new.latest # 0 /\ new.admitted # 0
          /\ new.admitted <= planTime
      BY <2>4, <2>5, <3>2, <3>4
    <3> QED
      BY <3>3, <3>4, <3>5 DEF Planning!Observed
  <2>9. Planning!WeekCollected(c)'
    <3>1. candidate' = candidate /\ seen' = seen /\ planTime' = planTime
      BY <1>2
    <3>2. candidate'[c].facts # 0 => Planning!Settled(c, candidate[c].facts)'
      BY <2>1, <3>1 DEF Planning!WeekCollected, Planning!Settled
    <3>3. episode'[c].admitted # 0
      BY <1>1, <2>5, <2>6
    <3> QED
      BY <3>2, <3>3 DEF Planning!WeekCollected
  <2>10. ASSUME NEW v \in Weeks \ {c} PROVE Planning!Observed(v)' /\ Planning!WeekCollected(v)'
    BY <1>2, <2>6, <2>10 DEF Planning!PlanningInvariant, Planning!Observed,
           Planning!WeekCollected, Planning!Settled
  <2>11. ASSUME NEW t \in Trades PROVE Planning!TradeCollected(t)'
    BY <1>2, <2>11 DEF Planning!PlanningInvariant, Planning!TradeCollected
  <2>12. ASSUME NEW s \in backlog' PROVE Planning!Waits(s)'
    <3>1. s \in backlog /\ s # c /\ Planning!Waits(s) /\ s \in Planning!Subjects
      BY <1>2, <2>12 DEF Planning!PlanningInvariant, Planning!TypeOK
    <3> QED
      BY <1>2, <1>4, <2>6, <2>12, <3>1 DEF Planning!Waits, Planning!controls
  <2> QED
    BY <1>6, <2>7, <2>8, <2>9, <2>10, <2>11, <2>12 DEF Planning!PlanningInvariant
<1> QED
  BY <1>5, <1>6

(* Every step of the planning keeps the invariant.                         *)
LEMMA PlanningNext ==
  ASSUME Planning!PlanningAssumption, Planning!PlanningInvariant, [Planning!Next]_planningVars
  PROVE  Planning!PlanningInvariant'
<1>1. CASE UNCHANGED Planning!planningVars
  <2>1. UNCHANGED <<planTime, facts, traded, latestWeek, paused, mode, series, episode, candidate,
                    job, automatic, connection, renewed, seen, backlog>>
    BY <1>1 DEF Planning!planningVars, Planning!inputs, Planning!controls, Planning!history
  <2> QED
    BY <2>1 DEF Planning!PlanningInvariant, Planning!TypeOK, Planning!Observed,
           Planning!WeekCollected, Planning!TradeCollected, Planning!Waits, Planning!Settled
<1>2. CASE Planning!Next
  <2>1. ASSUME NEW w \in Weeks, Planning!Observe(w) PROVE Planning!PlanningInvariant'
    BY <2>1, ObserveKeeps
  <2>2. ASSUME NEW c \in Planning!Subjects, Planning!Approve(c) PROVE Planning!PlanningInvariant'
    BY <2>2, ApproveKeeps
  <2> QED
    BY <1>2, <2>1, <2>2, PlanningWorldKeeps, PassKeeps, JobsKeep, ResumeKeeps, CollectsKeep
       DEF Planning!Next
<1> QED
  BY <1>1, <1>2 DEF planningVars, Planning!planningVars, Planning!inputs, Planning!controls,
         Planning!history

(* A week that may be written about automatically was admitted, and its    *)
(* facts were observed last.                                               *)
LEMMA ReadyIsLatest ==
  ASSUME Planning!PlanningInvariant, NEW w \in Weeks, NEW f \in Nat,
         Planning!Readiness(w, f, TRUE) = ""
  PROVE  /\ f # 0 /\ episode[w].admitted # 0
         /\ Len(seen[w]) # 0 /\ seen[w][Len(seen[w])].facts = f
<1>1. Planning!Observed(w)
  BY DEF Planning!PlanningInvariant
<1>2. /\ episode[w].admitted # 0
      /\ \/ f # 0 /\ f = episode[w].latest
         \/ episode[w].ready /\ f = episode[w].facts
  BY DEF Planning!Readiness
<1>3. episode[w].latest # 0 /\ f = episode[w].latest
  BY <1>1, <1>2 DEF Planning!Observed
<1>4. Len(seen[w]) # 0
  BY <1>1, <1>3 DEF Planning!Observed
<1> QED
  BY <1>1, <1>2, <1>3, <1>4 DEF Planning!Observed

(* What is bought on its own is news.                                      *)
LEMMA InvariantBuysNews ==
  ASSUME Planning!PlanningAssumption, Planning!PlanningInvariant, [Planning!Next]_planningVars
  PROVE  Planning!BuysOnlyNews
<1> SUFFICES ASSUME NEW c \in Planning!Subjects
    PROVE  /\ Planning!Bought(c) =>
                /\ ~paused /\ mode = "automatic"
                /\ Planning!Proof(c) \in renewed
                /\ c \in Weeks => /\ Planning!Settled(c, candidate[c].facts)
                                  /\ seen[c][Len(seen[c])].facts = candidate[c].facts
           /\ Planning!Started(c) => c \notin backlog
           /\ (Planning!Bought(c) /\ c \in backlog) =>
                c \in Weeks /\ episode[c].admitted \in 1 .. series.activated
  BY DEF Planning!BuysOnlyNews
<1>1. Planning!Started(c) => c \notin backlog
  BY DEF Planning!Started, Planning!PlanningInvariant, Planning!Waits
<1>2. ASSUME Planning!Bought(c) PROVE Planning!Eligible(c) /\ Planning!Proof(c) \in renewed
  <2>1. automatic' # automatic
    BY <1>2 DEF Planning!Bought
  <2>2. Planning!Next
    BY <2>1 DEF planningVars
  <2>3. PICK refused \in SUBSET Planning!Subjects : Planning!Admit(refused)
    BY <2>1, <2>2 DEF Planning!Next, Planning!Observe, Planning!NewFacts, Planning!Trade,
           Planning!CollectWeeks, Planning!Collect, Planning!Renew, Planning!RenewFails,
           Planning!Take, Planning!Work, Planning!Cancel, Planning!ResumeJob, Planning!Approve,
           Planning!Pause, Planning!Resume, Planning!SaveMode, Planning!Command,
           Planning!Reconnect, Planning!Tick
  <2> QED
    BY <1>2, <2>3 DEF Planning!Admit, Planning!Bought
<1>3. ASSUME Planning!Bought(c)
      PROVE  ~paused /\ mode = "automatic" /\ Planning!AutomaticReason(c) = ""
  BY <1>2, <1>3 DEF Planning!Eligible
<1>4. candidate[c].facts \in Nat /\ planTime \in Nat
  BY DEF Planning!PlanningInvariant, Planning!TypeOK, Planning!Candidates
<1>5. ASSUME Planning!Bought(c), c \in Weeks
      PROVE  /\ Planning!Settled(c, candidate[c].facts)
             /\ seen[c][Len(seen[c])].facts = candidate[c].facts
             /\ episode[c].admitted # 0
  <2>1. Planning!Readiness(c, candidate[c].facts, TRUE) = ""
    BY <1>3, <1>5 DEF Planning!AutomaticReason
  <2>2. /\ candidate[c].facts # 0 /\ episode[c].admitted # 0
        /\ seen[c][Len(seen[c])].facts = candidate[c].facts
    BY <1>4, <1>5, <2>1, ReadyIsLatest
  <2> QED
    BY <1>5, <2>2 DEF Planning!PlanningInvariant, Planning!WeekCollected
<1>6. ASSUME Planning!Bought(c), c \in backlog
      PROVE  c \in Weeks /\ episode[c].admitted \in 1 .. series.activated
  <2>1. Planning!Waits(c)
    BY <1>6 DEF Planning!PlanningInvariant
  <2>2. CASE c \in Weeks
    BY <1>5, <1>6, <2>1, <2>2 DEF Planning!Waits
  <2>3. CASE c \notin Weeks
    <3>1. c \in Trades
      BY <2>3 DEF Planning!Subjects
    <3>2. candidate[c].event <= series.activated
      BY <2>1, <3>1 DEF Planning!Waits
    <3>3. ~(candidate[c].event <= series.activated)
      BY <1>3, <1>6, <2>3 DEF Planning!AutomaticReason
    <3> QED
      BY <3>2, <3>3
  <2> QED
    BY <2>2, <2>3
<1> QED
  BY <1>1, <1>2, <1>3, <1>5, <1>6

-----------------------------------------------------------------------------
(* RefreshQueue: why imports come one at a time.  First the least and the  *)
(* greatest of numbers, which the queue is served by.                      *)

(* A set of naturals has a least element.                                  *)
LEMMA LeastIsIn ==
  ASSUME NEW S \in SUBSET Nat, S # {}
  PROVE  Queue!Min(S) \in S /\ \A y \in S : Queue!Min(S) <= y
<1> DEFINE R == OpToRel(<, Nat)
<1>1. IsWellFoundedOn(R, Nat)
  BY NatLessThanWellFounded
<1>2. \E x \in S : \A y \in S : ~ (<<y, x>> \in R)
  <2> HIDE DEF R
  <2> QED
    BY <1>1, WFMin
<1>3. PICK x \in S : \A y \in S : ~ (<<y, x>> \in R)
  BY <1>2
<1>4. \A y \in S : x <= y
  <2> SUFFICES ASSUME NEW y \in S PROVE x <= y
    OBVIOUS
  <2>1. x \in Nat /\ y \in Nat
    OBVIOUS
  <2>2. ~(y < x)
    <3>1. <<y, x>> \in Nat \X Nat /\ <<y, x>>[1] = y /\ <<y, x>>[2] = x
      BY <2>1
    <3>2. y < x => <<y, x>> \in R
      BY <3>1 DEF OpToRel
    <3> QED
      BY <1>3, <3>2
  <2> QED
    BY <2>1, <2>2
<1> QED
  BY <1>4 DEF Queue!Min

(* A bounded set of naturals has a greatest element.                       *)
LEMMA GreatestIsIn ==
  ASSUME NEW S \in SUBSET Nat, S # {}, NEW b \in Nat, \A y \in S : y <= b
  PROVE  Queue!Max(S) \in S /\ \A y \in S : y <= Queue!Max(S)
<1> DEFINE T == {b - y : y \in S}
<1>1. T \in SUBSET Nat /\ T # {}
  <2>1. \A y \in S : b - y \in Nat
    <3> SUFFICES ASSUME NEW y \in S PROVE b - y \in Nat
      OBVIOUS
    <3>1. y \in Nat /\ y <= b
      OBVIOUS
    <3> QED
      BY <3>1
  <2>2. T \subseteq Nat
    BY <2>1
  <2>3. PICK y \in S : TRUE
    OBVIOUS
  <2>4. b - y \in T
    OBVIOUS
  <2> QED
    BY <2>2, <2>4
<1>2. Queue!Min(T) \in T /\ \A y \in T : Queue!Min(T) <= y
  <2> HIDE DEF T
  <2> QED
    BY <1>1, LeastIsIn
<1>3. PICK x \in S : Queue!Min(T) = b - x
  BY <1>2
<1>4. \A y \in S : x >= y
  <2> SUFFICES ASSUME NEW y \in S PROVE x >= y
    OBVIOUS
  <2>1. b - y \in T
    OBVIOUS
  <2>2. b - x <= b - y
    <3> HIDE DEF T
    <3> QED
      BY <1>2, <1>3, <2>1
  <2> QED
    BY <2>2
<1>5. \E z \in S : \A y \in S : z >= y
  BY <1>4
<1>6. Queue!Max(S) \in S /\ \A y \in S : Queue!Max(S) >= y
  BY <1>5 DEF Queue!Max
<1> QED
  BY <1>6

(* A finite sequence of naturals is bounded: the shortest part of it that  *)
(* were not would have a bounded part before its last element.             *)
LEMMA SequenceIsBounded ==
  ASSUME NEW s \in Seq(Nat)
  PROVE  \E b \in Nat : \A n \in 1 .. Len(s) : s[n] <= b
<1> DEFINE Bounded(k) == \E b \in Nat : \A n \in 1 .. k : s[n] <= b
           T == {k \in 0 .. Len(s) : ~Bounded(k)}
<1>1. Len(s) \in Nat /\ \A n \in 1 .. Len(s) : s[n] \in Nat
  OBVIOUS
<1>2. SUFFICES T = {}
  <2>1. Len(s) \in 0 .. Len(s)
    BY <1>1
  <2> QED
    BY <1>2, <2>1
<1>3. SUFFICES ASSUME T # {} PROVE FALSE
  OBVIOUS
<1>4. T \in SUBSET Nat
  BY <1>1
<1>5. Queue!Min(T) \in T /\ \A k \in T : Queue!Min(T) <= k
  <2> HIDE DEF T
  <2> QED
    BY <1>3, <1>4, LeastIsIn
<1>6. PICK k \in 0 .. Len(s) : ~Bounded(k) /\ \A j \in 0 .. Len(s) : ~Bounded(j) => k <= j
  BY <1>5
<1>7. k # 0
  <2>1. Bounded(0)
    <3>1. 0 \in Nat /\ 1 .. 0 = {}
      OBVIOUS
    <3> QED
      BY <3>1
  <2> QED
    BY <1>6, <2>1
<1>8. k \in Nat \ {0} /\ k - 1 \in 0 .. Len(s) /\ ~(k <= k - 1)
  BY <1>1, <1>7
<1>9. PICK b \in Nat : \A n \in 1 .. k - 1 : s[n] <= b
  BY <1>6, <1>8
<1>10. s[k] \in Nat
  BY <1>1, <1>8
<1>11. PICK c \in Nat : b <= c /\ s[k] <= c
  BY <1>10
<1>12. \A n \in 1 .. k : s[n] <= c
  <2> SUFFICES ASSUME NEW n \in 1 .. k PROVE s[n] <= c
    OBVIOUS
  <2>1. s[n] \in Nat
    BY <1>1, <1>8
  <2>2. n = k \/ n \in 1 .. k - 1
    BY <1>8
  <2> QED
    BY <1>9, <1>11, <2>1, <2>2
<1> QED
  BY <1>6, <1>12

(* The smaller and the greater of two numbers.                             *)
LEMMA OfTwo ==
  ASSUME NEW a \in Nat, NEW b \in Nat
  PROVE  /\ Queue!Min({a, b}) = IF a <= b THEN a ELSE b
         /\ Queue!Max({a, b}) = IF a <= b THEN b ELSE a
<1>1. Queue!Min({a, b}) \in {a, b} /\ \A y \in {a, b} : Queue!Min({a, b}) <= y
  BY LeastIsIn
<1>2. \E z \in {a, b} : \A y \in {a, b} : z >= y
  <2>1. CASE a <= b
    BY <2>1
  <2>2. CASE ~(a <= b)
    BY <2>2
  <2> QED
    BY <2>1, <2>2
<1>3. Queue!Max({a, b}) \in {a, b} /\ \A y \in {a, b} : Queue!Max({a, b}) >= y
  BY <1>2 DEF Queue!Max
<1>4. Queue!Min({a, b}) \in {a, b} /\ Queue!Min({a, b}) <= a /\ Queue!Min({a, b}) <= b
  BY <1>1
<1>5. Queue!Max({a, b}) \in {a, b} /\ Queue!Max({a, b}) >= a /\ Queue!Max({a, b}) >= b
  BY <1>3
<1> HIDE DEF Queue!Min, Queue!Max
<1> QED
  BY <1>4, <1>5

(* Retries wait for the delay of their number, or the last one, and the    *)
(* longest pause that is looked at is longer than any of them.             *)
LEMMA DelayTypes ==
  ASSUME Queue!RefreshQueueAssumption
  PROVE  /\ \A n \in Nat \ {0} : Queue!Delay(n) \in Nat
         /\ \A n \in Nat : Queue!Min({n + 1, Len(Delays)}) \in 0 .. Len(Delays)
         /\ Queue!Max({Delays[n] : n \in DOMAIN Delays}) \in Nat
<1>1. /\ Delays \in Seq(Nat \ {0}) /\ Delays # <<>> /\ Len(Delays) \in Nat \ {0}
      /\ DOMAIN Delays = 1 .. Len(Delays)
  BY EmptySeq DEF Queue!RefreshQueueAssumption
<1>2. \A n \in 1 .. Len(Delays) : Delays[n] \in Nat
  BY <1>1
<1>3. ASSUME NEW n \in Nat \ {0} PROVE Queue!Delay(n) \in Nat
  <2>1. Queue!Min({n, Len(Delays)}) = IF n <= Len(Delays) THEN n ELSE Len(Delays)
    BY <1>1, <1>3, OfTwo
  <2>2. Queue!Min({n, Len(Delays)}) \in 1 .. Len(Delays)
    BY <1>1, <1>3, <2>1
  <2> QED
    BY <1>2, <2>2 DEF Queue!Delay
<1>4. ASSUME NEW n \in Nat PROVE Queue!Min({n + 1, Len(Delays)}) \in 0 .. Len(Delays)
  <2>1. PICK k \in Nat : k = n + 1
    OBVIOUS
  <2>2. Queue!Min({k, Len(Delays)}) = IF k <= Len(Delays) THEN k ELSE Len(Delays)
    BY <1>1, OfTwo
  <2> QED
    BY <1>1, <2>1, <2>2
<1>5. Queue!Max({Delays[n] : n \in DOMAIN Delays}) \in Nat
  <2> DEFINE S == {Delays[n] : n \in DOMAIN Delays}
  <2>1. S \in SUBSET Nat
    BY <1>1, <1>2
  <2>2. Delays[1] \in S
    BY <1>1
  <2>3. PICK b \in Nat : \A n \in 1 .. Len(Delays) : Delays[n] <= b
    <3>1. Delays \in Seq(Nat)
      BY <1>1, SeqMonotonic
    <3> QED
      BY <3>1, SequenceIsBounded
  <2>4. \A y \in S : y <= b
    BY <1>1, <2>3
  <2>5. S # {}
    BY <2>2
  <2> HIDE DEF S
  <2>6. Queue!Max(S) \in S
    BY <2>1, <2>4, <2>5, GreatestIsIn
  <2>7. Queue!Max(S) \in Nat
    BY <2>1, <2>6
  <2> QED
    BY <2>7 DEF S
<1> QED
  BY <1>3, <1>4, <1>5

(* Nobody has asked for anything yet.                                      *)
LEMMA QueueInit ==
  ASSUME Queue!RefreshQueueAssumption, Queue!Init
  PROVE  Queue!QueueInvariant
<1>1. jobs = <<>> /\ DOMAIN jobs = {} /\ <<>> \in Seq(Queue!ImportJobs)
  BY DEF Queue!Init
<1>2. running \in [Workers -> [job : DOMAIN jobs \cup {0}, generation : Nat]]
  BY <1>1 DEF Queue!Init, Queue!Idle
<1>3. \A w \in Workers : running[w] = Queue!Idle
  BY DEF Queue!Init
<1>4. accounts \in [Members -> [generation : Nat, connected : BOOLEAN]]
  BY DEF Queue!Init
<1>5. queueTime \in 0 .. ImportEnd
  <2>1. ImportEnd \in Nat /\ queueTime = 0
    BY DEF Queue!RefreshQueueAssumption, Queue!Init
  <2> QED
    BY <2>1
<1>6. Queue!TypeOK
  BY <1>1, <1>2, <1>4, <1>5 DEF Queue!TypeOK, Queue!Init
<1>7. Queue!OneUnderWay /\ Queue!OneRuns /\ told = {}
  BY <1>1 DEF Queue!OneUnderWay, Queue!OneRuns, Queue!Init
<1>8. \A w \in Workers : Queue!Fenced(w)
  BY <1>3 DEF Queue!Fenced
<1> QED
  BY <1>1, <1>6, <1>7, <1>8 DEF Queue!QueueInvariant

(* What is known of the state, in plain numbers.                           *)
LEMMA QueueFacts ==
  ASSUME Queue!RefreshQueueAssumption, Queue!QueueInvariant
  PROVE  /\ jobs \in Seq(Queue!ImportJobs) /\ Len(jobs) \in Nat /\ DOMAIN jobs = 1 .. Len(jobs)
         /\ \A j \in DOMAIN jobs : jobs[j] \in Queue!ImportJobs
         /\ queueTime \in Nat /\ 0 \notin DOMAIN jobs
         /\ ImportEnd \in Nat /\ ImportLease \in Nat /\ MaxWait \in Nat
         /\ MaxImportGeneration \in Nat
<1>1. jobs \in Seq(Queue!ImportJobs) /\ queueTime \in 0 .. ImportEnd
  BY DEF Queue!QueueInvariant, Queue!TypeOK
<1>2. ImportEnd \in Nat /\ ImportLease \in Nat /\ MaxWait \in Nat /\ MaxImportGeneration \in Nat
  BY DEF Queue!RefreshQueueAssumption
<1>3. queueTime \in Nat
  BY <1>1, <1>2
<1>4. /\ Len(jobs) \in Nat /\ DOMAIN jobs = 1 .. Len(jobs)
      /\ \A j \in 1 .. Len(jobs) : jobs[j] \in Queue!ImportJobs
  BY <1>1
<1>5. 0 \notin 1 .. Len(jobs)
  BY <1>4
<1> QED
  BY <1>1, <1>2, <1>3, <1>4, <1>5

(* What a worker or the owner does to a job they change.                   *)
Changes(j, new) ==
  /\ new \in Queue!ImportJobs
  /\ new.league = jobs[j].league /\ new.kind = jobs[j].kind /\ new.connection = jobs[j].connection
  /\ new.generation >= jobs[j].generation
  /\ new.state \in Queue!Active => jobs[j].state \in Queue!Active
  /\ new.state = "running" => jobs[j].state = "running"

(* A job that a worker or the owner changes stays the import it was, on    *)
(* the connection it was asked for, and none starts or comes back by this: *)
(* then the invariant holds on, if who was told to leaves Yahoo alone.     *)
LEMMA ChangeKeeps ==
  ASSUME Queue!RefreshQueueAssumption, Queue!QueueInvariant, NEW j \in DOMAIN jobs, NEW new,
         Changes(j, new),
         jobs' = [jobs EXCEPT ![j] = new],
         UNCHANGED <<answers, accounts, memberships, queueTime>>,
         \/ running' = running
         \/ \E w \in Workers : running' = [running EXCEPT ![w] = Queue!Idle],
         told' \subseteq [job : DOMAIN jobs, until : Nat],
         \A t \in told' : Queue!LeftAlone(t)'
  PROVE  Queue!QueueInvariant'
<1>1. /\ jobs \in Seq(Queue!ImportJobs) /\ DOMAIN jobs = 1 .. Len(jobs) /\ queueTime \in Nat
      /\ \A i \in DOMAIN jobs : jobs[i] \in Queue!ImportJobs
      /\ 0 \notin DOMAIN jobs
  BY QueueFacts
<1>2. /\ jobs' \in Seq(Queue!ImportJobs) /\ Len(jobs') = Len(jobs)
      /\ \A i \in DOMAIN jobs : jobs'[i] = IF i = j THEN new ELSE jobs[i]
  BY <1>1, ExceptSeq DEF Changes
<1>3. DOMAIN jobs' = DOMAIN jobs
  BY <1>1, <1>2
<1>4. ASSUME NEW w \in Workers PROVE running'[w] = running[w] \/ running'[w] = Queue!Idle
  BY <1>4 DEF Queue!QueueInvariant, Queue!TypeOK
<1>5. running' \in [Workers -> [job : DOMAIN jobs \cup {0}, generation : Nat]]
  <2>1. Queue!Idle \in [job : DOMAIN jobs \cup {0}, generation : Nat]
    BY DEF Queue!Idle
  <2>2. running \in [Workers -> [job : DOMAIN jobs \cup {0}, generation : Nat]]
    BY DEF Queue!QueueInvariant, Queue!TypeOK
  <2> QED
    BY <2>1, <2>2
<1>6. Queue!TypeOK'
  BY <1>2, <1>3, <1>5 DEF Queue!QueueInvariant, Queue!TypeOK
<1>7. Queue!OneUnderWay'
  <2>1. ASSUME NEW i \in DOMAIN jobs
        PROVE  /\ jobs'[i].league = jobs[i].league /\ jobs'[i].kind = jobs[i].kind
               /\ jobs'[i].state \in Queue!Active => jobs[i].state \in Queue!Active
    BY <1>2 DEF Changes
  <2> QED
    BY <1>3, <2>1 DEF Queue!QueueInvariant, Queue!OneUnderWay
<1>8. Queue!OneRuns'
  <2>1. ASSUME NEW i \in DOMAIN jobs
        PROVE  jobs'[i].state = "running" => jobs[i].state = "running"
    BY <1>2 DEF Changes
  <2> QED
    BY <1>3, <2>1 DEF Queue!QueueInvariant, Queue!OneRuns
<1>9. \A i \in DOMAIN jobs' : jobs'[i].league \notin YahooLeagues => jobs'[i].connection = 0
  BY <1>2, <1>3 DEF Queue!QueueInvariant, Changes
<1>10. ASSUME NEW w \in Workers PROVE Queue!Fenced(w)'
  <2> SUFFICES ASSUME running'[w] # Queue!Idle
               PROVE  /\ running'[w].job # 0
                      /\ running'[w].generation <= jobs'[running'[w].job].generation
                      /\ \A v \in Workers \ {w} : running'[v].job = running'[w].job =>
                           running'[v].generation # running'[w].generation
    BY DEF Queue!Fenced, Queue!Idle
  <2>1. running'[w] = running[w] /\ Queue!Fenced(w) /\ running[w] # Queue!Idle
    BY <1>4 DEF Queue!QueueInvariant
  <2>2. /\ running[w].job # 0 /\ running[w].job \in DOMAIN jobs /\ running[w].generation \in Nat
        /\ running[w].generation <= jobs[running[w].job].generation
    BY <2>1 DEF Queue!QueueInvariant, Queue!TypeOK, Queue!Fenced
  <2>3. jobs'[running[w].job].generation >= jobs[running[w].job].generation
    <3>1. jobs[running[w].job].generation \in Nat
      BY <1>1, <2>2 DEF Queue!ImportJobs
    <3> QED
      BY <1>2, <2>2, <3>1 DEF Changes
  <2>4. running[w].generation <= jobs'[running[w].job].generation
    <3>1. jobs[running[w].job] \in Queue!ImportJobs /\ jobs'[running[w].job] \in Queue!ImportJobs
      BY <1>1, <1>2, <2>2 DEF Changes
    <3>2. /\ jobs[running[w].job].generation \in Nat
          /\ jobs'[running[w].job].generation \in Nat
      BY <3>1 DEF Queue!ImportJobs
    <3> QED
      BY <2>2, <2>3, <3>2
  <2>5. \A v \in Workers \ {w} : running'[v].job = running[w].job =>
           running'[v].generation # running[w].generation
    <3> SUFFICES ASSUME NEW v \in Workers \ {w}, running'[v].job = running[w].job
                 PROVE  running'[v].generation # running[w].generation
      OBVIOUS
    <3>1. running'[v] = running[v]
      BY <1>4, <2>2 DEF Queue!Idle
    <3> QED
      BY <2>1, <3>1 DEF Queue!Fenced
  <2> QED
    BY <2>1, <2>2, <2>4, <2>5
<1> QED
  BY <1>6, <1>7, <1>8, <1>9, <1>10 DEF Queue!QueueInvariant

(* A request finds the import under way, or the last one, or adds one that *)
(* is then the only one under way.                                         *)
LEMMA SubmitKeeps ==
  ASSUME Queue!RefreshQueueAssumption, Queue!QueueInvariant,
         NEW league \in Leagues, NEW kind \in Queue!Kinds, NEW actor \in Members,
         NEW by \in {"member", "scheduler"}, NEW key \in RequestKeys \cup {NoKey}, NEW missing,
         Queue!Submit(league, kind, actor, by, key, missing)
  PROVE  Queue!QueueInvariant'
<1> DEFINE n == Len(jobs)
<1>1. /\ jobs \in Seq(Queue!ImportJobs) /\ DOMAIN jobs = 1 .. n /\ n \in Nat /\ queueTime \in Nat
      /\ \A i \in DOMAIN jobs : jobs[i] \in Queue!ImportJobs
      /\ 0 \notin DOMAIN jobs
  BY QueueFacts
<1>2. UNCHANGED <<running, accounts, memberships, queueTime, changes, told>>
  BY DEF Queue!Submit
<1>3. ASSUME NEW S \in SUBSET DOMAIN jobs, S # {} PROVE Queue!Max(S) \in DOMAIN jobs
  <2>1. S \in SUBSET Nat /\ \A y \in S : y <= n
    BY <1>1
  <2>2. Queue!Max(S) \in S
    BY <1>1, <1>3, <2>1, GreatestIsIn
  <2> QED
    BY <2>2
<1>4. /\ Queue!UnderWay(league, kind) \subseteq DOMAIN jobs
      /\ Queue!Imports(league, kind) \subseteq DOMAIN jobs
  BY DEF Queue!UnderWay, Queue!Imports
<1>5. ASSUME NEW j \in DOMAIN jobs, Queue!Remember(actor, key, j), UNCHANGED jobs
      PROVE  Queue!QueueInvariant'
  <2>1. answers' \subseteq [actor : Members, key : RequestKeys, job : DOMAIN jobs]
    <3>1. answers \subseteq [actor : Members, key : RequestKeys, job : DOMAIN jobs]
      BY DEF Queue!QueueInvariant, Queue!TypeOK
    <3> QED
      BY <1>5, <3>1 DEF Queue!Remember
  <2>2. Queue!TypeOK'
    BY <1>2, <1>5, <2>1 DEF Queue!QueueInvariant, Queue!TypeOK
  <2> QED
    BY <1>2, <1>5, <2>2 DEF Queue!QueueInvariant, Queue!OneUnderWay, Queue!OneRuns,
           Queue!Fenced, Queue!LeftAlone
<1>6. CASE /\ Queue!UnderWay(league, kind) # {}
           /\ Queue!Remember(actor, key, Queue!Max(Queue!UnderWay(league, kind)))
           /\ UNCHANGED jobs
  BY <1>3, <1>4, <1>5, <1>6
<1>7. CASE /\ Queue!Imports(league, kind) # {}
           /\ Queue!Remember(actor, key, Queue!Max(Queue!Imports(league, kind)))
           /\ UNCHANGED jobs
  BY <1>3, <1>4, <1>5, <1>7
<1>8. CASE /\ Queue!UnderWay(league, kind) = {}
           /\ jobs' = Append(jobs, Queue!New(league, kind, actor, by))
           /\ Queue!Remember(actor, key, Len(jobs'))
  <2> DEFINE new == Queue!New(league, kind, actor, by)
  <2>1. /\ Queue!Connection(league, actor) \in Nat
        /\ league \notin YahooLeagues => Queue!Connection(league, actor) = 0
    BY DEF Queue!Connection, Queue!QueueInvariant, Queue!TypeOK
  <2>2. /\ new \in Queue!ImportJobs /\ new.league = league /\ new.kind = kind
        /\ new.connection = Queue!Connection(league, actor) /\ new.state = "queued"
    <3>1. Len(Delays) \in Nat /\ 0 \in 0 .. Len(Delays)
      BY EmptySeq DEF Queue!RefreshQueueAssumption
    <3>2. /\ "queued" \in Queue!JobStates /\ "" \in Queue!JobReasons /\ 0 \in Nat
          /\ 1 \in Nat \ {0} /\ FALSE \in BOOLEAN
      BY DEF Queue!JobStates, Queue!Active, Queue!JobReasons
    <3>3. new \in Queue!ImportJobs
      BY <1>1, <2>1, <3>1, <3>2 DEF Queue!New, Queue!ImportJobs
    <3> QED
      BY <3>3 DEF Queue!New
  <2> HIDE DEF new
  <2>3. /\ jobs' \in Seq(Queue!ImportJobs) /\ Len(jobs') = n + 1
        /\ \A i \in DOMAIN jobs : jobs'[i] = jobs[i]
        /\ jobs'[n + 1] = new
    BY <1>1, <1>8, <2>2, AppendProperties DEF new
  <2>4. DOMAIN jobs' = 1 .. n + 1 /\ n + 1 \notin DOMAIN jobs
    BY <1>1, <2>3
  <2>5. \A i \in DOMAIN jobs' : i = n + 1 \/ i \in DOMAIN jobs
    BY <1>1, <2>4
  <2>6. DOMAIN jobs \subseteq DOMAIN jobs' /\ n + 1 \in DOMAIN jobs'
    BY <1>1, <2>4
  <2>7. answers' \subseteq [actor : Members, key : RequestKeys, job : DOMAIN jobs']
    <3>1. answers \subseteq [actor : Members, key : RequestKeys, job : DOMAIN jobs]
      BY DEF Queue!QueueInvariant, Queue!TypeOK
    <3>2. key = NoKey \/ [actor |-> actor, key |-> key, job |-> n + 1] \in
                           [actor : Members, key : RequestKeys, job : DOMAIN jobs']
      BY <2>6
    <3>3. answers \subseteq [actor : Members, key : RequestKeys, job : DOMAIN jobs']
      BY <2>6, <3>1
    <3> QED
      BY <1>8, <2>3, <3>2, <3>3 DEF Queue!Remember
  <2>8. Queue!TypeOK'
    <3>1. running' \in [Workers -> [job : DOMAIN jobs' \cup {0}, generation : Nat]]
      BY <1>2, <2>6 DEF Queue!QueueInvariant, Queue!TypeOK
    <3>2. told' \subseteq [job : DOMAIN jobs', until : Nat]
      BY <1>2, <2>6 DEF Queue!QueueInvariant, Queue!TypeOK
    <3> QED
      BY <1>2, <2>3, <2>7, <3>1, <3>2 DEF Queue!QueueInvariant, Queue!TypeOK
  <2>9. ASSUME NEW i \in DOMAIN jobs, jobs[i].league = league, jobs[i].kind = kind
        PROVE  jobs[i].state \notin Queue!Active
    BY <1>8, <2>9 DEF Queue!UnderWay, Queue!Imports
  <2>10. Queue!OneUnderWay'
    <3> SUFFICES ASSUME NEW i \in DOMAIN jobs', NEW j \in DOMAIN jobs',
                        jobs'[i].league = jobs'[j].league, jobs'[i].kind = jobs'[j].kind,
                        jobs'[i].state \in Queue!Active, jobs'[j].state \in Queue!Active
                 PROVE  i = j
      BY DEF Queue!OneUnderWay
    <3> QED
      BY <2>2, <2>3, <2>5, <2>9 DEF Queue!QueueInvariant, Queue!OneUnderWay
  <2>11. Queue!OneRuns'
    <3> SUFFICES ASSUME NEW i \in DOMAIN jobs', NEW j \in DOMAIN jobs',
                        jobs'[i].state = "running", jobs'[j].state = "running"
                 PROVE  i = j
      BY DEF Queue!OneRuns
    <3> QED
      BY <2>2, <2>3, <2>5 DEF Queue!QueueInvariant, Queue!OneRuns
  <2>12. \A i \in DOMAIN jobs' : jobs'[i].league \notin YahooLeagues => jobs'[i].connection = 0
    BY <2>1, <2>2, <2>3, <2>5 DEF Queue!QueueInvariant
  <2>13. ASSUME NEW w \in Workers PROVE Queue!Fenced(w)'
    <3>1. Queue!Fenced(w) /\ running' = running /\ running[w].job \in DOMAIN jobs \cup {0}
      BY <1>2 DEF Queue!QueueInvariant, Queue!TypeOK
    <3> QED
      BY <2>3, <3>1 DEF Queue!Fenced
  <2>14. ASSUME NEW t \in told' PROVE Queue!LeftAlone(t)'
    <3>1. Queue!LeftAlone(t) /\ t.job \in DOMAIN jobs
      BY <1>2, <2>14 DEF Queue!QueueInvariant, Queue!TypeOK
    <3> QED
      BY <1>2, <2>3, <3>1 DEF Queue!LeftAlone
  <2> QED
    BY <2>8, <2>10, <2>11, <2>12, <2>13, <2>14 DEF Queue!QueueInvariant
<1> QED
  BY <1>6, <1>7, <1>8 DEF Queue!Submit

(* A lease that ran out gives its job a new generation and nothing else    *)
(* that the rest of the queue looks at.                                    *)
LEMMA ImportsRecovered ==
  ASSUME Queue!RefreshQueueAssumption, Queue!QueueInvariant
  PROVE  /\ Queue!Recovered \in Seq(Queue!ImportJobs) /\ DOMAIN Queue!Recovered = DOMAIN jobs
         /\ \A j \in DOMAIN jobs :
              /\ Queue!Recovered[j] \in Queue!ImportJobs
              /\ Queue!Recovered[j].generation \in Nat /\ jobs[j].generation \in Nat
              /\ Queue!Recovered[j].generation >= jobs[j].generation
              /\ Queue!Expired(jobs[j]) => Queue!Recovered[j].generation = jobs[j].generation + 1
              /\ Queue!Recovered[j].league = jobs[j].league
              /\ Queue!Recovered[j].kind = jobs[j].kind
              /\ Queue!Recovered[j].connection = jobs[j].connection
              /\ Queue!Recovered[j].reason = jobs[j].reason
              /\ Queue!Recovered[j].next = jobs[j].next
              /\ Queue!Recovered[j].state \in Queue!Active => jobs[j].state \in Queue!Active
              /\ jobs[j].state = "running" => Queue!Recovered[j].state \in {"running", "queued"}
              /\ jobs[j].state # "running" => Queue!Recovered[j] = jobs[j]
              /\ Queue!Recovered[j].state = "running" => jobs[j].state = "running"
<1>1. /\ jobs \in Seq(Queue!ImportJobs) /\ Len(jobs) \in Nat /\ DOMAIN jobs = 1 .. Len(jobs)
      /\ \A i \in DOMAIN jobs : jobs[i] \in Queue!ImportJobs
  BY QueueFacts
<1>2. DOMAIN Queue!Recovered = DOMAIN jobs
  BY DEF Queue!Recovered
<1>3. ASSUME NEW j \in DOMAIN jobs
      PROVE  /\ Queue!Recovered[j] \in Queue!ImportJobs
             /\ Queue!Recovered[j].generation \in Nat /\ jobs[j].generation \in Nat
             /\ Queue!Recovered[j].generation >= jobs[j].generation
             /\ Queue!Expired(jobs[j]) => Queue!Recovered[j].generation = jobs[j].generation + 1
             /\ Queue!Recovered[j].league = jobs[j].league /\ Queue!Recovered[j].kind = jobs[j].kind
             /\ Queue!Recovered[j].connection = jobs[j].connection
             /\ Queue!Recovered[j].reason = jobs[j].reason /\ Queue!Recovered[j].next = jobs[j].next
             /\ Queue!Recovered[j].state \in Queue!Active => jobs[j].state \in Queue!Active
             /\ jobs[j].state = "running" => Queue!Recovered[j].state \in {"running", "queued"}
             /\ jobs[j].state # "running" => Queue!Recovered[j] = jobs[j]
             /\ Queue!Recovered[j].state = "running" => jobs[j].state = "running"
  <2>1. jobs[j] \in Queue!ImportJobs /\ jobs[j].generation \in Nat \ {0}
    BY <1>1 DEF Queue!ImportJobs
  <2>2. CASE ~Queue!Expired(jobs[j])
    <3>1. Queue!Recovered[j] = jobs[j]
      BY <2>2 DEF Queue!Recovered
    <3> QED
      BY <2>1, <2>2, <3>1
  <2>3. CASE Queue!Expired(jobs[j])
    <3> DEFINE back == [jobs[j] EXCEPT !.generation = @ + 1, !.state = "queued", !.lease = 0]
    <3>1. Queue!Recovered[j] = back
      BY <2>3 DEF Queue!Recovered
    <3>2. "queued" \in Queue!JobStates /\ "queued" \in Queue!Active /\ "running" \in Queue!Active
          /\ 0 \in Nat /\ jobs[j].generation + 1 \in Nat \ {0}
      BY <2>1 DEF Queue!JobStates, Queue!Active
    <3>3. back \in Queue!ImportJobs
      BY <2>1, <3>2 DEF Queue!ImportJobs
    <3>4. /\ back.generation = jobs[j].generation + 1 /\ back.state = "queued"
          /\ back.league = jobs[j].league /\ back.kind = jobs[j].kind
          /\ back.connection = jobs[j].connection /\ back.reason = jobs[j].reason
          /\ back.next = jobs[j].next
      BY <2>1 DEF Queue!ImportJobs
    <3>5. jobs[j].state = "running"
      BY <2>3 DEF Queue!Expired
    <3> HIDE DEF back
    <3> QED
      BY <2>1, <3>1, <3>2, <3>3, <3>4, <3>5
  <2> QED
    BY <2>2, <2>3
<1>4. Queue!Recovered \in [1 .. Len(jobs) -> Queue!ImportJobs]
  <2>1. \A j \in 1 .. Len(jobs) : (IF Queue!Expired(jobs[j])
          THEN [jobs[j] EXCEPT !.generation = @ + 1, !.state = "queued", !.lease = 0]
          ELSE jobs[j]) \in Queue!ImportJobs
    BY <1>1, <1>3 DEF Queue!Recovered
  <2> QED
    BY <1>1, <2>1 DEF Queue!Recovered
<1>5. Queue!Recovered \in Seq(Queue!ImportJobs)
  BY <1>1, <1>4, SeqDef
<1> QED
  BY <1>2, <1>3, <1>5

(* What a claim does to the queue: every job stays the import it was, and  *)
(* only the one that is taken, which was waiting and may go, starts.       *)
LEMMA ClaimFacts ==
  ASSUME Queue!RefreshQueueAssumption, Queue!QueueInvariant, Queue!Claimable(Queue!Recovered) # {},
         NEW j, j = Queue!Min(Queue!Claimable(Queue!Recovered)),
         NEW claimed,
         claimed = [Queue!Recovered[j] EXCEPT !.state = "running", !.generation = @ + 1,
                                              !.lease = queueTime + ImportLease, !.next = 0]
  PROVE  /\ j \in DOMAIN jobs /\ claimed \in Queue!ImportJobs
         /\ claimed.league = jobs[j].league /\ claimed.kind = jobs[j].kind
         /\ claimed.connection = jobs[j].connection
         /\ claimed.state = "running" /\ jobs[j].state \in Queue!Active
         /\ claimed.generation > jobs[j].generation
         /\ Queue!Recovered[j].state = "queued" /\ Queue!Recovered[j].next <= queueTime
         /\ Queue!Recovered[j].league \in YahooLeagues => ~Queue!CoolingDown
         /\ \A k \in DOMAIN jobs : Queue!Recovered[k].state # "running"
<1>1. /\ DOMAIN jobs = 1 .. Len(jobs) /\ queueTime \in Nat /\ ImportLease \in Nat
  BY QueueFacts
<1>2. DOMAIN Queue!Recovered = DOMAIN jobs
  BY ImportsRecovered
<1>3. Queue!Claimable(Queue!Recovered) \in SUBSET Nat
  BY <1>1, <1>2 DEF Queue!Claimable
<1>4. j \in Queue!Claimable(Queue!Recovered)
  BY <1>3, LeastIsIn
<1>5. /\ j \in DOMAIN jobs /\ Queue!Recovered[j].state = "queued"
      /\ Queue!Recovered[j].next <= queueTime
      /\ Queue!Recovered[j].league \in YahooLeagues => ~Queue!CoolingDown
      /\ \A k \in DOMAIN jobs : Queue!Recovered[k].state # "running"
  BY <1>2, <1>4 DEF Queue!Claimable
<1>6. /\ Queue!Recovered[j] \in Queue!ImportJobs
      /\ Queue!Recovered[j].generation \in Nat /\ jobs[j].generation \in Nat
      /\ Queue!Recovered[j].generation >= jobs[j].generation
      /\ Queue!Recovered[j].league = jobs[j].league /\ Queue!Recovered[j].kind = jobs[j].kind
      /\ Queue!Recovered[j].connection = jobs[j].connection
      /\ Queue!Recovered[j].state \in Queue!Active => jobs[j].state \in Queue!Active
  BY <1>5, ImportsRecovered
<1>7. /\ "running" \in Queue!JobStates /\ "queued" \in Queue!Active /\ 0 \in Nat
      /\ Queue!Recovered[j].generation + 1 \in Nat \ {0} /\ queueTime + ImportLease \in Nat
      /\ Queue!Recovered[j].generation + 1 > jobs[j].generation
  BY <1>1, <1>6 DEF Queue!JobStates, Queue!Active
<1>8. claimed \in Queue!ImportJobs
  BY <1>6, <1>7 DEF Queue!ImportJobs
<1>9. /\ claimed.league = Queue!Recovered[j].league /\ claimed.kind = Queue!Recovered[j].kind
      /\ claimed.connection = Queue!Recovered[j].connection /\ claimed.state = "running"
      /\ claimed.generation = Queue!Recovered[j].generation + 1
  BY <1>6 DEF Queue!ImportJobs
<1> QED
  BY <1>5, <1>6, <1>7, <1>8, <1>9

(* A claim gives back what ran out and takes the oldest import that may    *)
(* go, which has then a generation nobody holds.                           *)
LEMMA ImportClaimKeeps ==
  ASSUME Queue!RefreshQueueAssumption, Queue!QueueInvariant, NEW w \in Workers, Queue!Claim(w)
  PROVE  Queue!QueueInvariant'
<1>1. /\ jobs \in Seq(Queue!ImportJobs) /\ DOMAIN jobs = 1 .. Len(jobs) /\ queueTime \in Nat
      /\ \A i \in DOMAIN jobs : jobs[i] \in Queue!ImportJobs
      /\ 0 \notin DOMAIN jobs
  BY QueueFacts
<1>2. UNCHANGED <<answers, accounts, memberships, queueTime, changes,
                  told>> /\ running[w] = Queue!Idle
  BY DEF Queue!Claim
<1> DEFINE Moved(i) ==
      /\ jobs'[i].league = jobs[i].league /\ jobs'[i].kind = jobs[i].kind
      /\ jobs'[i].connection = jobs[i].connection
      /\ jobs'[i].generation \in Nat /\ jobs[i].generation \in Nat
      /\ jobs'[i].generation >= jobs[i].generation
      /\ jobs'[i].state \in Queue!Active => jobs[i].state \in Queue!Active
<1>3. ASSUME jobs' \in Seq(Queue!ImportJobs), DOMAIN jobs' = DOMAIN jobs,
             \A i \in DOMAIN jobs : Moved(i),
             Queue!OneRuns',
             running' \in [Workers -> [job : DOMAIN jobs \cup {0}, generation : Nat]],
             \A v \in Workers : Queue!Fenced(v)',
             \A t \in told : Queue!LeftAlone(t)'
      PROVE  Queue!QueueInvariant'
  <2>1. Queue!TypeOK'
    BY <1>2, <1>3 DEF Queue!QueueInvariant, Queue!TypeOK
  <2>2. Queue!OneUnderWay'
    BY <1>3 DEF Queue!QueueInvariant, Queue!OneUnderWay
  <2>3. \A i \in DOMAIN jobs' : jobs'[i].league \notin YahooLeagues => jobs'[i].connection = 0
    BY <1>3 DEF Queue!QueueInvariant
  <2>4. \A t \in told' : Queue!LeftAlone(t)'
    BY <1>2, <1>3
  <2> QED
    BY <1>3, <2>1, <2>2, <2>3, <2>4 DEF Queue!QueueInvariant
<1>4. CASE jobs' = Queue!Recovered /\ running' = running
  <2>1. /\ Queue!Recovered \in Seq(Queue!ImportJobs) /\ DOMAIN Queue!Recovered = DOMAIN jobs
        /\ \A i \in DOMAIN jobs : /\ Moved(i)
                                  /\ jobs'[i].state = "running" => jobs[i].state = "running"
                                  /\ jobs[i].state # "running" => jobs'[i] = jobs[i]
    BY <1>4, ImportsRecovered
  <2>2. Queue!OneRuns'
    BY <1>4, <2>1 DEF Queue!QueueInvariant, Queue!OneRuns
  <2>3. ASSUME NEW v \in Workers PROVE Queue!Fenced(v)'
    <3> SUFFICES ASSUME running[v] # Queue!Idle PROVE Queue!Fenced(v)'
      BY <1>4 DEF Queue!Fenced, Queue!Idle
    <3>1. /\ Queue!Fenced(v) /\ running[v].job \in DOMAIN jobs \cup {0}
          /\ running[v].generation \in Nat
      BY DEF Queue!QueueInvariant, Queue!TypeOK
    <3>2. /\ running[v].job \in DOMAIN jobs
          /\ running[v].generation <= jobs[running[v].job].generation
      BY <3>1 DEF Queue!Fenced
    <3>3. running[v].generation <= jobs'[running[v].job].generation
      BY <2>1, <3>1, <3>2
    <3> QED
      BY <1>4, <3>1, <3>3 DEF Queue!Fenced
  <2>4. ASSUME NEW t \in told PROVE Queue!LeftAlone(t)'
    <3>1. Queue!LeftAlone(t) /\ t.job \in DOMAIN jobs
      BY DEF Queue!QueueInvariant, Queue!TypeOK
    <3> QED
      BY <1>2, <2>1, <3>1 DEF Queue!LeftAlone
  <2>5. running' \in [Workers -> [job : DOMAIN jobs \cup {0}, generation : Nat]]
    BY <1>4 DEF Queue!QueueInvariant, Queue!TypeOK
  <2> QED
    BY <1>3, <1>4, <2>1, <2>2, <2>3, <2>4, <2>5
<1>5. ASSUME NEW j, j = Queue!Min(Queue!Claimable(Queue!Recovered)),
             Queue!Claimable(Queue!Recovered) # {},
             jobs' = [Queue!Recovered EXCEPT ![j].state = "running", ![j].generation = @ + 1,
                                             ![j].lease = queueTime + ImportLease, ![j].next = 0],
             running' = [running EXCEPT ![w] = [job |-> j, generation |-> jobs'[j].generation]]
      PROVE  Queue!QueueInvariant'
  <2> DEFINE claimed == [Queue!Recovered[j] EXCEPT !.state = "running", !.generation = @ + 1,
                                                   !.lease = queueTime + ImportLease, !.next = 0]
  <2>1. /\ j \in DOMAIN jobs /\ claimed \in Queue!ImportJobs
        /\ claimed.league = jobs[j].league /\ claimed.kind = jobs[j].kind
        /\ claimed.connection = jobs[j].connection
        /\ claimed.state = "running" /\ jobs[j].state \in Queue!Active
        /\ claimed.generation > jobs[j].generation
        /\ Queue!Recovered[j].state = "queued" /\ Queue!Recovered[j].next <= queueTime
        /\ \A k \in DOMAIN jobs : Queue!Recovered[k].state # "running"
    BY <1>5, ClaimFacts
  <2>2. /\ Queue!Recovered \in Seq(Queue!ImportJobs) /\ DOMAIN Queue!Recovered = DOMAIN jobs
        /\ Len(Queue!Recovered) = Len(jobs)
    <3>1. Queue!Recovered \in Seq(Queue!ImportJobs) /\ DOMAIN Queue!Recovered = DOMAIN jobs
      BY ImportsRecovered
    <3> QED
      BY <1>1, <3>1
  <2>3. jobs' = [Queue!Recovered EXCEPT ![j] = claimed]
    BY <1>5, <2>1, <2>2
  <2> HIDE DEF claimed
  <2>4. /\ jobs' \in Seq(Queue!ImportJobs) /\ DOMAIN jobs' = DOMAIN jobs
        /\ \A i \in DOMAIN jobs : jobs'[i] = IF i = j THEN claimed ELSE Queue!Recovered[i]
    <3>1. jobs' \in Seq(Queue!ImportJobs) /\ Len(jobs') = Len(Queue!Recovered)
      BY <2>1, <2>2, <2>3, ExceptSeq
    <3>2. \A i \in DOMAIN jobs : jobs'[i] = IF i = j THEN claimed ELSE Queue!Recovered[i]
      BY <2>2, <2>3
    <3> QED
      BY <1>1, <2>2, <3>1, <3>2
  <2>5. ASSUME NEW i \in DOMAIN jobs PROVE Moved(i)
    <3>1. jobs[i].generation \in Nat /\ claimed.generation \in Nat
      BY <1>1, <2>1 DEF Queue!ImportJobs
    <3>2. CASE i = j
      <4>1. jobs'[i] = claimed /\ claimed.generation >= jobs[i].generation
        BY <2>1, <2>4, <3>1, <3>2
      <4> QED
        BY <2>1, <3>1, <3>2, <4>1
    <3>3. CASE i # j
      <4>1. jobs'[i] = Queue!Recovered[i]
        BY <2>4, <3>3
      <4> QED
        BY <4>1, ImportsRecovered
    <3> QED
      BY <3>2, <3>3
  <2>6. \A i \in DOMAIN jobs : jobs'[i].state = "running" => i = j
    BY <2>1, <2>4
  <2>7. Queue!OneRuns'
    BY <2>4, <2>6 DEF Queue!OneRuns
  <2>8. /\ jobs'[j] = claimed /\ claimed.generation \in Nat
        /\ \A v \in Workers :
             running'[v] = IF v = w THEN [job |-> j, generation |-> claimed.generation]
                           ELSE running[v]
    <3>1. claimed.generation \in Nat /\ jobs'[j] = claimed
      BY <2>1, <2>4 DEF Queue!ImportJobs
    <3> QED
      BY <1>5, <3>1 DEF Queue!QueueInvariant, Queue!TypeOK
  <2>9. running' \in [Workers -> [job : DOMAIN jobs \cup {0}, generation : Nat]]
    <3>1. [job |-> j, generation |-> claimed.generation]
            \in [job : DOMAIN jobs \cup {0}, generation : Nat]
      BY <2>1, <2>8
    <3>2. running \in [Workers -> [job : DOMAIN jobs \cup {0}, generation : Nat]]
      BY DEF Queue!QueueInvariant, Queue!TypeOK
    <3> QED
      BY <1>5, <2>8, <3>1, <3>2
  <2>10. ASSUME NEW v \in Workers, v # w, running[v].job = j
         PROVE  running[v].generation < claimed.generation
    <3>1. Queue!Fenced(v) /\ running[v] # Queue!Idle /\ running[v].generation \in Nat
      BY <1>1, <2>1, <2>10 DEF Queue!QueueInvariant, Queue!TypeOK, Queue!Idle
    <3>2. running[v].generation <= jobs[j].generation /\ jobs[j].generation \in Nat
      BY <1>1, <2>1, <2>10, <3>1 DEF Queue!Fenced, Queue!ImportJobs
    <3> QED
      BY <2>1, <2>8, <3>1, <3>2
  <2>11. Queue!Fenced(w)'
    <3> SUFFICES /\ running'[w].job # 0
                 /\ running'[w].generation <= jobs'[running'[w].job].generation
                 /\ \A v \in Workers \ {w} : running'[v].job = running'[w].job =>
                      running'[v].generation # running'[w].generation
      BY DEF Queue!Fenced
    <3>1. running'[w].job = j /\ running'[w].generation = claimed.generation /\ j # 0
      BY <1>1, <2>1, <2>8
    <3>2. running'[w].generation <= jobs'[running'[w].job].generation
      BY <2>8, <3>1
    <3>3. \A v \in Workers \ {w} : running'[v].job = j =>
              running'[v].generation # claimed.generation
      <4> SUFFICES ASSUME NEW v \in Workers \ {w}, running'[v].job = j
                   PROVE  running'[v].generation # claimed.generation
        OBVIOUS
      <4>1. running'[v] = running[v] /\ running[v].generation \in Nat
        BY <2>8 DEF Queue!QueueInvariant, Queue!TypeOK
      <4>2. running[v].generation < claimed.generation
        BY <2>10, <4>1
      <4> QED
        BY <2>8, <4>1, <4>2
    <3> QED
      BY <3>1, <3>2, <3>3
  <2>12. ASSUME NEW v \in Workers, v # w PROVE Queue!Fenced(v)'
    <3> SUFFICES ASSUME running'[v] # Queue!Idle
                 PROVE  /\ running'[v].job # 0
                        /\ running'[v].generation <= jobs'[running'[v].job].generation
                        /\ \A u \in Workers \ {v} : running'[u].job = running'[v].job =>
                             running'[u].generation # running'[v].generation
      BY DEF Queue!Fenced, Queue!Idle
    <3>1. /\ running'[v] = running[v] /\ Queue!Fenced(v) /\ running[v] # Queue!Idle
          /\ running[v].generation \in Nat
          /\ running[v].job \in DOMAIN jobs \cup {0}
      BY <2>8, <2>12 DEF Queue!QueueInvariant, Queue!TypeOK
    <3>2. /\ running[v].job \in DOMAIN jobs
          /\ running[v].generation <= jobs[running[v].job].generation
          /\ \A u \in Workers \ {v} : running[u].job = running[v].job =>
               running[u].generation # running[v].generation
      BY <3>1 DEF Queue!Fenced
    <3>3. running[v].generation <= jobs'[running[v].job].generation
      BY <2>5, <3>1, <3>2
    <3>4. \A u \in Workers \ {v} : running'[u].job = running[v].job =>
             running'[u].generation # running[v].generation
      <4> SUFFICES ASSUME NEW u \in Workers \ {v}, running'[u].job = running[v].job
                   PROVE  running'[u].generation # running[v].generation
        OBVIOUS
      <4>1. CASE u = w
        <5>1. running'[u].job = j /\ running'[u].generation = claimed.generation
          BY <2>8, <4>1
        <5>2. running[v].generation < claimed.generation
          BY <2>10, <2>12, <5>1
        <5> QED
          BY <2>8, <3>1, <5>1, <5>2
      <4>2. CASE u # w
        BY <2>8, <3>2, <4>2
      <4> QED
        BY <4>1, <4>2
    <3> QED
      BY <1>1, <3>1, <3>2, <3>3, <3>4
  <2>13. ASSUME NEW t \in told PROVE Queue!LeftAlone(t)'
    <3> SUFFICES ASSUME t.until > queueTime
                 PROVE  \/ jobs'[t.job].state = "cancelled"
                        \/ /\ jobs'[t.job].state = "queued"
                           /\ jobs'[t.job].reason = "yahoo_rate_limited"
                           /\ jobs'[t.job].league \in YahooLeagues /\ jobs'[t.job].next >= t.until
      BY <1>2 DEF Queue!LeftAlone
    <3>1. t.job \in DOMAIN jobs /\ t.until \in Nat /\ Queue!LeftAlone(t)
      BY DEF Queue!QueueInvariant, Queue!TypeOK
    <3>2. jobs[t.job].state # "running" /\ Queue!Recovered[t.job] = jobs[t.job]
      BY <3>1, ImportsRecovered DEF Queue!LeftAlone
    <3>3. t.job # j
      <4>1. jobs[t.job].next \in Nat
        BY <1>1, <3>1 DEF Queue!ImportJobs
      <4> QED
        BY <1>1, <2>1, <3>1, <3>2, <4>1 DEF Queue!LeftAlone
    <3>4. jobs'[t.job] = jobs[t.job]
      BY <2>4, <3>1, <3>2, <3>3
    <3> QED
      BY <3>1, <3>4 DEF Queue!LeftAlone
  <2>14. \A v \in Workers : Queue!Fenced(v)'
    BY <2>11, <2>12
  <2> QED
    BY <1>3, <2>4, <2>5, <2>7, <2>9, <2>13, <2>14
<1> QED
  BY <1>4, <1>5 DEF Queue!Claim

(* Who is told to leave Yahoo alone keeps doing so when another job        *)
(* changes, or its own is cancelled; one that is told so does not run.     *)
LEMMA OthersAreLeftAlone ==
  ASSUME Queue!RefreshQueueAssumption, Queue!QueueInvariant, NEW j \in DOMAIN jobs, NEW new,
         jobs' = [jobs EXCEPT ![j] = new], UNCHANGED queueTime,
         jobs[j].state \notin {"queued", "cancelled"} \/ new.state = "cancelled",
         NEW t \in told
  PROVE  Queue!LeftAlone(t)'
<1>1. t.job \in DOMAIN jobs /\ Queue!LeftAlone(t)
  BY DEF Queue!QueueInvariant, Queue!TypeOK
<1>2. CASE t.job # j
  <2>1. jobs'[t.job] = jobs[t.job]
    BY <1>1, <1>2, QueueFacts
  <2> QED
    BY <1>1, <2>1 DEF Queue!LeftAlone
<1>3. CASE t.job = j
  <2>1. jobs'[t.job] = new
    BY <1>1, <1>3, QueueFacts
  <2> QED
    BY <1>1, <1>3, <2>1 DEF Queue!LeftAlone
<1> QED
  BY <1>2, <1>3

(* A worker that owns its job took one, and it is running.                 *)
LEMMA OwnedFacts ==
  ASSUME Queue!RefreshQueueAssumption, Queue!QueueInvariant, NEW w \in Workers, Queue!Owns(w)
  PROVE  /\ running[w] # Queue!Idle /\ running[w].job \in DOMAIN jobs
         /\ Queue!Job(w) = jobs[running[w].job] /\ Queue!Job(w) \in Queue!ImportJobs
         /\ Queue!Job(w).state = "running" /\ Queue!Job(w).state \in Queue!Active
         /\ Queue!Job(w).generation \in Nat \ {0} /\ queueTime \in Nat /\ ImportLease \in Nat
         /\ Queue!Job(w).retries \in Nat
<1>1. running[w] # Queue!Idle /\ jobs[running[w].job].state = "running"
  BY DEF Queue!Owns
<1>2. running[w].job \in DOMAIN jobs
  BY <1>1 DEF Queue!QueueInvariant, Queue!TypeOK, Queue!Fenced
<1>3. jobs[running[w].job] \in Queue!ImportJobs /\ queueTime \in Nat /\ ImportLease \in Nat
  BY <1>2, QueueFacts
<1>4. Len(Delays) \in Nat
  BY DEF Queue!RefreshQueueAssumption
<1>5. jobs[running[w].job].retries \in Nat /\ jobs[running[w].job].generation \in Nat \ {0}
  BY <1>3, <1>4 DEF Queue!ImportJobs
<1> QED
  BY <1>1, <1>2, <1>3, <1>5 DEF Queue!Job, Queue!Active

(* Recording how a job ended.                                              *)
LEMMA EndsKeeps ==
  ASSUME Queue!RefreshQueueAssumption, Queue!QueueInvariant, NEW w \in Workers, NEW ended,
         Queue!Ends(w, ended),
         ended \in Queue!ImportJobs, ended.state # "running",
         ended.league = Queue!Job(w).league, ended.kind = Queue!Job(w).kind,
         ended.connection = Queue!Job(w).connection, ended.generation = Queue!Job(w).generation,
         told' \subseteq [job : DOMAIN jobs, until : Nat],
         \A t \in told' \ told :
           /\ t.job = running[w].job /\ ended.state = "queued"
           /\ ended.reason = "yahoo_rate_limited"
           /\ ended.league \in YahooLeagues /\ ended.next >= t.until
  PROVE  Queue!QueueInvariant'
<1> DEFINE j == running[w].job
           new == [ended EXCEPT !.lease = 0]
<1>1. /\ Queue!Owns(w) /\ jobs' = [jobs EXCEPT ![j] = new]
      /\ running' = [running EXCEPT ![w] = Queue!Idle]
      /\ UNCHANGED <<answers, accounts, memberships, queueTime>>
  BY DEF Queue!Ends
<1>2. /\ j \in DOMAIN jobs /\ Queue!Job(w) = jobs[j] /\ jobs[j].state = "running"
      /\ jobs[j].state \in Queue!Active /\ jobs[j].generation \in Nat
  BY <1>1, OwnedFacts
<1>3. /\ new \in Queue!ImportJobs /\ new.league = ended.league /\ new.kind = ended.kind
      /\ new.connection = ended.connection /\ new.generation = ended.generation
      /\ new.state = ended.state /\ new.reason = ended.reason /\ new.next = ended.next
  BY DEF Queue!ImportJobs
<1> HIDE DEF new
<1>4. Changes(j, new)
  BY <1>2, <1>3 DEF Changes
<1>5. jobs'[j] = new
  BY <1>1, <1>2, QueueFacts
<1>6. ASSUME NEW t \in told' PROVE Queue!LeftAlone(t)'
  <2>1. CASE t \in told
    BY <1>1, <1>2, <2>1, OthersAreLeftAlone
  <2>2. CASE t \notin told
    <3>1. /\ t.job = j /\ new.state = "queued" /\ new.reason = "yahoo_rate_limited"
          /\ new.league \in YahooLeagues /\ new.next >= t.until
      BY <1>3, <2>2
    <3> QED
      BY <1>5, <3>1 DEF Queue!LeftAlone
  <2> QED
    BY <2>1, <2>2
<1> HIDE DEF j
<1> QED
  BY <1>1, <1>2, <1>4, <1>6, ChangeKeeps DEF j

(* The ends of an import: done, no longer permitted, failed.               *)
LEMMA ImportFinishKeeps ==
  ASSUME Queue!RefreshQueueAssumption, Queue!QueueInvariant, NEW w \in Workers,
         Queue!Finish(w) \/ Queue!NotPermitted(w) \/ Queue!Fail(w)
  PROVE  Queue!QueueInvariant'
<1>1. told' = told /\ told \subseteq [job : DOMAIN jobs, until : Nat] /\ told' \ told = {}
  BY DEF Queue!Finish, Queue!NotPermitted, Queue!Fail, Queue!QueueInvariant, Queue!TypeOK
<1>2. Queue!Owns(w)
  BY DEF Queue!Finish, Queue!NotPermitted, Queue!Fail, Queue!Ends
<1>3. Queue!Job(w) \in Queue!ImportJobs
  BY <1>2, OwnedFacts
<1>4. {"succeeded", "held", "needs_attention"} \subseteq Queue!JobStates
      /\ {"provider_grant_changed", "execution_failed"} \subseteq Queue!JobReasons
  BY DEF Queue!JobStates, Queue!Active, Queue!JobReasons
<1>5. CASE Queue!Finish(w)
  <2> DEFINE ended == [Queue!Job(w) EXCEPT !.state = "succeeded"]
  <2>1. /\ ended \in Queue!ImportJobs /\ ended.state = "succeeded"
        /\ ended.league = Queue!Job(w).league /\ ended.kind = Queue!Job(w).kind
        /\ ended.connection = Queue!Job(w).connection /\ ended.generation = Queue!Job(w).generation
    BY <1>3, <1>4 DEF Queue!ImportJobs
  <2>2. Queue!Ends(w, ended)
    BY <1>5 DEF Queue!Finish
  <2> HIDE DEF ended
  <2> QED
    BY <1>1, <2>1, <2>2, EndsKeeps
<1>6. CASE Queue!NotPermitted(w)
  <2> DEFINE ended == [Queue!Job(w) EXCEPT !.state = "held", !.reason = "provider_grant_changed"]
  <2>1. /\ ended \in Queue!ImportJobs /\ ended.state = "held"
        /\ ended.league = Queue!Job(w).league /\ ended.kind = Queue!Job(w).kind
        /\ ended.connection = Queue!Job(w).connection /\ ended.generation = Queue!Job(w).generation
    BY <1>3, <1>4 DEF Queue!ImportJobs
  <2>2. Queue!Ends(w, ended)
    BY <1>6 DEF Queue!NotPermitted
  <2> HIDE DEF ended
  <2> QED
    BY <1>1, <2>1, <2>2, EndsKeeps
<1>7. CASE Queue!Fail(w)
  <2> DEFINE ended == [Queue!Job(w) EXCEPT !.state = "needs_attention",
                                           !.reason = "execution_failed"]
  <2>1. /\ ended \in Queue!ImportJobs /\ ended.state = "needs_attention"
        /\ ended.league = Queue!Job(w).league /\ ended.kind = Queue!Job(w).kind
        /\ ended.connection = Queue!Job(w).connection /\ ended.generation = Queue!Job(w).generation
    BY <1>3, <1>4 DEF Queue!ImportJobs
  <2>2. Queue!Ends(w, ended)
    BY <1>7 DEF Queue!Fail
  <2> HIDE DEF ended
  <2> QED
    BY <1>1, <2>1, <2>2, EndsKeeps
<1> QED
  BY <1>5, <1>6, <1>7

(* Yahoo asks for a pause: the job waits at least as long as it asked.     *)
LEMMA ThrottledKeeps ==
  ASSUME Queue!RefreshQueueAssumption, Queue!QueueInvariant, NEW w \in Workers,
         NEW retryAfter \in Nat,
         Queue!Throttled(w, retryAfter)
  PROVE  Queue!QueueInvariant'
<1> DEFINE until == queueTime + Queue!Max({Queue!Delay(Queue!Job(w).retries + 1), retryAfter})
           ended == [Queue!Job(w) EXCEPT !.state = "queued", !.reason = "yahoo_rate_limited",
                                         !.retries = Queue!Min({@ + 1, Len(Delays)}),
                                         !.next = until,
                                         !.since = 0, !.waiting = FALSE]
<1>1. /\ Queue!Ends(w, ended) /\ Queue!Job(w).league \in YahooLeagues
      /\ told' = told \cup {[job |-> running[w].job, until |-> until]}
  BY DEF Queue!Throttled
<1>2. /\ running[w].job \in DOMAIN jobs /\ Queue!Job(w) \in Queue!ImportJobs
      /\ queueTime \in Nat /\ Queue!Job(w).retries \in Nat
  BY <1>1, OwnedFacts DEF Queue!Ends
<1>3. until \in Nat
  <2>1. PICK n \in Nat \ {0} : n = Queue!Job(w).retries + 1
    BY <1>2
  <2>2. PICK d \in Nat : d = Queue!Delay(n)
    BY DelayTypes
  <2>3. Queue!Max({d, retryAfter}) = IF d <= retryAfter THEN retryAfter ELSE d
    BY OfTwo
  <2>4. Queue!Max({d, retryAfter}) \in Nat
    BY <2>3
  <2> QED
    BY <1>2, <2>1, <2>2, <2>4
<1>4. Queue!Min({Queue!Job(w).retries + 1, Len(Delays)}) \in 0 .. Len(Delays)
  BY <1>2, DelayTypes
<1>5. /\ "queued" \in Queue!JobStates /\ "yahoo_rate_limited" \in Queue!JobReasons /\ 0 \in Nat
      /\ FALSE \in BOOLEAN
  BY DEF Queue!JobStates, Queue!Active, Queue!JobReasons
<1> HIDE DEF until
<1>6. /\ ended \in Queue!ImportJobs
      /\ ended.state = "queued" /\ ended.reason = "yahoo_rate_limited" /\ ended.next = until
      /\ ended.league = Queue!Job(w).league /\ ended.kind = Queue!Job(w).kind
      /\ ended.connection = Queue!Job(w).connection /\ ended.generation = Queue!Job(w).generation
  BY <1>2, <1>3, <1>4, <1>5 DEF Queue!ImportJobs
<1> HIDE DEF ended
<1>7. told' \subseteq [job : DOMAIN jobs, until : Nat]
  BY <1>1, <1>2, <1>3 DEF Queue!QueueInvariant, Queue!TypeOK
<1>8. \A t \in told' \ told :
        /\ t.job = running[w].job /\ ended.state = "queued" /\ ended.reason = "yahoo_rate_limited"
        /\ ended.league \in YahooLeagues /\ ended.next >= t.until
  BY <1>1, <1>3, <1>6
<1> QED
  BY <1>1, <1>6, <1>7, <1>8, EndsKeeps

(* Results that are not complete: the import waits for them, or gives up.  *)
LEMMA NotReadyKeeps ==
  ASSUME Queue!RefreshQueueAssumption, Queue!QueueInvariant, NEW w \in Workers, Queue!NotReady(w)
  PROVE  Queue!QueueInvariant'
<1> DEFINE since == IF Queue!Job(w).waiting THEN Queue!Job(w).since ELSE queueTime
           expired == queueTime - since >= MaxWait
           next == IF expired THEN 0 ELSE queueTime + Queue!Delay(Queue!Job(w).retries + 1)
           retries == Queue!Min({Queue!Job(w).retries + 1, Len(Delays)})
           state == IF expired THEN "needs_attention" ELSE "queued"
           ended == [Queue!Job(w) EXCEPT !.state = state, !.reason = "results_not_ready",
                                         !.retries = retries, !.next = next,
                                         !.since = since, !.waiting = TRUE]
<1>1. Queue!Ends(w, ended) /\ told' = told
  BY DEF Queue!NotReady
<1>2. /\ running[w].job \in DOMAIN jobs /\ Queue!Job(w) \in Queue!ImportJobs
      /\ queueTime \in Nat /\ Queue!Job(w).retries \in Nat
  BY <1>1, OwnedFacts DEF Queue!Ends
<1>3. next \in Nat
  <2>1. PICK n \in Nat \ {0} : n = Queue!Job(w).retries + 1
    BY <1>2
  <2>2. PICK d \in Nat : d = Queue!Delay(n)
    BY DelayTypes
  <2>3. queueTime + d \in Nat /\ 0 \in Nat
    BY <1>2
  <2> HIDE DEF expired
  <2> QED
    BY <2>1, <2>2, <2>3
<1>4. retries \in 0 .. Len(Delays)
  BY <1>2, DelayTypes
<1>5. since \in Nat
  BY <1>2 DEF Queue!ImportJobs
<1>6. /\ state \in {"queued", "needs_attention"} /\ state \in Queue!JobStates
      /\ "results_not_ready" \in Queue!JobReasons /\ TRUE \in BOOLEAN
  BY DEF Queue!JobStates, Queue!Active, Queue!JobReasons
<1> HIDE DEF since, expired, next, retries, state
<1>7. /\ ended \in Queue!ImportJobs /\ ended.state = state
      /\ ended.league = Queue!Job(w).league /\ ended.kind = Queue!Job(w).kind
      /\ ended.connection = Queue!Job(w).connection /\ ended.generation = Queue!Job(w).generation
  BY <1>2, <1>3, <1>4, <1>5, <1>6 DEF Queue!ImportJobs
<1> HIDE DEF ended
<1>8. told' \subseteq [job : DOMAIN jobs, until : Nat] /\ told' \ told = {}
  BY <1>1 DEF Queue!QueueInvariant, Queue!TypeOK
<1>9. ended.state # "running"
  BY <1>6, <1>7
<1> QED
  BY <1>1, <1>7, <1>8, <1>9, EndsKeeps

(* A worker that still owns its job prolongs the lease.                    *)
LEMMA HeartbeatKeeps ==
  ASSUME Queue!RefreshQueueAssumption, Queue!QueueInvariant, NEW w \in Workers, Queue!Heartbeat(w)
  PROVE  Queue!QueueInvariant'
<1> DEFINE j == running[w].job
           new == [jobs[j] EXCEPT !.lease = queueTime + ImportLease]
<1>1. /\ Queue!Owns(w) /\ jobs' = [jobs EXCEPT ![j] = new]
      /\ UNCHANGED <<answers, running, accounts, memberships, queueTime, told>>
  BY DEF Queue!Heartbeat
<1>2. /\ j \in DOMAIN jobs /\ jobs[j] \in Queue!ImportJobs /\ jobs[j].state = "running"
      /\ jobs[j].generation \in Nat \ {0} /\ queueTime \in Nat /\ ImportLease \in Nat
  BY <1>1, OwnedFacts DEF Queue!Job
<1>3. queueTime + ImportLease \in Nat
  BY <1>2
<1>4. /\ new \in Queue!ImportJobs /\ new.league = jobs[j].league /\ new.kind = jobs[j].kind
      /\ new.connection = jobs[j].connection /\ new.generation = jobs[j].generation
      /\ new.state = jobs[j].state
  BY <1>2, <1>3 DEF Queue!ImportJobs
<1> HIDE DEF new, j
<1>5. Changes(j, new)
  BY <1>2, <1>4 DEF Changes
<1>6. \A t \in told' : Queue!LeftAlone(t)'
  BY <1>1, <1>2, OthersAreLeftAlone
<1>7. told' \subseteq [job : DOMAIN jobs, until : Nat]
  BY <1>1 DEF Queue!QueueInvariant, Queue!TypeOK
<1> QED
  BY <1>1, <1>2, <1>5, <1>6, <1>7, ChangeKeeps

(* A worker that ends and records nothing leaves the queue as it is.       *)
LEMMA AbandonKeeps ==
  ASSUME Queue!RefreshQueueAssumption, Queue!QueueInvariant, NEW w \in Workers,
         running' = [running EXCEPT ![w] = Queue!Idle],
         UNCHANGED <<jobs, answers, accounts, memberships, queueTime, told>>
  PROVE  Queue!QueueInvariant'
<1>1. ASSUME NEW v \in Workers PROVE running'[v] = IF v = w THEN Queue!Idle ELSE running[v]
  BY DEF Queue!QueueInvariant, Queue!TypeOK
<1>2. running' \in [Workers -> [job : DOMAIN jobs \cup {0}, generation : Nat]]
  <2>1. Queue!Idle \in [job : DOMAIN jobs \cup {0}, generation : Nat]
    BY DEF Queue!Idle
  <2>2. running \in [Workers -> [job : DOMAIN jobs \cup {0}, generation : Nat]]
    BY DEF Queue!QueueInvariant, Queue!TypeOK
  <2> QED
    BY <2>1, <2>2
<1>3. Queue!TypeOK'
  BY <1>2 DEF Queue!QueueInvariant, Queue!TypeOK
<1>4. ASSUME NEW v \in Workers PROVE Queue!Fenced(v)'
  <2> SUFFICES ASSUME running'[v] # Queue!Idle PROVE Queue!Fenced(v)'
    BY DEF Queue!Fenced, Queue!Idle
  <2>1. running'[v] = running[v] /\ Queue!Fenced(v) /\ running[v].job # 0
    BY <1>1 DEF Queue!QueueInvariant, Queue!Fenced
  <2>2. \A u \in Workers \ {v} : running'[u].job = running[v].job => running'[u] = running[u]
    BY <1>1, <2>1 DEF Queue!Idle
  <2> QED
    BY <2>1, <2>2 DEF Queue!Fenced
<1> QED
  BY <1>3, <1>4 DEF Queue!QueueInvariant, Queue!OneUnderWay, Queue!OneRuns, Queue!LeftAlone

(* A shutdown holds the job, under a new generation.                       *)
LEMMA ShutdownKeeps ==
  ASSUME Queue!RefreshQueueAssumption, Queue!QueueInvariant, NEW w \in Workers, Queue!Shutdown(w)
  PROVE  Queue!QueueInvariant'
<1> DEFINE j == running[w].job
           new == [jobs[j] EXCEPT !.state = "held", !.reason = "worker_shutdown",
                                  !.generation = @ + 1, !.lease = 0]
<1>1. /\ running[w] # Queue!Idle /\ running' = [running EXCEPT ![w] = Queue!Idle]
      /\ UNCHANGED <<answers, accounts, memberships, queueTime, told>>
  BY DEF Queue!Shutdown
<1>2. CASE jobs' = jobs
  BY <1>1, <1>2, AbandonKeeps
<1>3. CASE jobs' # jobs
  <2>1. jobs[j].state = "running" /\ jobs' = [jobs EXCEPT ![j] = new]
    BY <1>3 DEF Queue!Shutdown, Queue!Job
  <2>2. j \in DOMAIN jobs
    BY <1>1 DEF Queue!QueueInvariant, Queue!TypeOK, Queue!Fenced
  <2>3. jobs[j] \in Queue!ImportJobs /\ jobs[j].generation \in Nat
    BY <2>2, QueueFacts DEF Queue!ImportJobs
  <2>4. /\ "held" \in Queue!JobStates /\ "worker_shutdown" \in Queue!JobReasons /\ 0 \in Nat
        /\ jobs[j].generation + 1 \in Nat \ {0} /\ jobs[j].generation + 1 >= jobs[j].generation
    BY <2>3 DEF Queue!JobStates, Queue!Active, Queue!JobReasons
  <2>5. new \in Queue!ImportJobs
    BY <2>3, <2>4 DEF Queue!ImportJobs
  <2>6. /\ new.league = jobs[j].league /\ new.kind = jobs[j].kind
        /\ new.connection = jobs[j].connection /\ new.generation = jobs[j].generation + 1
        /\ new.state = "held"
    BY <2>3 DEF Queue!ImportJobs
  <2> HIDE DEF new, j
  <2>7. Changes(j, new)
    BY <2>1, <2>4, <2>5, <2>6 DEF Changes, Queue!Active
  <2>8. \A t \in told' : Queue!LeftAlone(t)'
    BY <1>1, <2>1, <2>2, OthersAreLeftAlone
  <2>9. told' \subseteq [job : DOMAIN jobs, until : Nat]
    BY <1>1 DEF Queue!QueueInvariant, Queue!TypeOK
  <2> QED
    BY <1>1, <2>1, <2>2, <2>7, <2>8, <2>9, ChangeKeeps
<1> QED
  BY <1>2, <1>3

(* The owner cancels what is under way.                                    *)
LEMMA CancelKeeps ==
  ASSUME Queue!RefreshQueueAssumption, Queue!QueueInvariant, NEW j \in DOMAIN jobs, Queue!Cancel(j)
  PROVE  Queue!QueueInvariant'
<1> DEFINE new == [jobs[j] EXCEPT !.state = "cancelled", !.reason = "owner_cancelled",
                                  !.generation = @ + 1, !.lease = 0, !.next = 0]
<1>1. /\ jobs[j].state \in Queue!Active /\ jobs' = [jobs EXCEPT ![j] = new]
      /\ UNCHANGED <<answers, running, accounts, memberships, queueTime, told>>
  BY DEF Queue!Cancel
<1>2. jobs[j] \in Queue!ImportJobs /\ jobs[j].generation \in Nat
  BY QueueFacts DEF Queue!ImportJobs
<1>3. /\ "cancelled" \in Queue!JobStates /\ "owner_cancelled" \in Queue!JobReasons /\ 0 \in Nat
      /\ jobs[j].generation + 1 \in Nat \ {0} /\ jobs[j].generation + 1 >= jobs[j].generation
  BY <1>2 DEF Queue!JobStates, Queue!JobReasons
<1>4. new \in Queue!ImportJobs
  BY <1>2, <1>3 DEF Queue!ImportJobs
<1>5. /\ new.league = jobs[j].league /\ new.kind = jobs[j].kind
      /\ new.connection = jobs[j].connection /\ new.generation = jobs[j].generation + 1
      /\ new.state = "cancelled"
  BY <1>2 DEF Queue!ImportJobs
<1> HIDE DEF new
<1>6. Changes(j, new)
  BY <1>1, <1>3, <1>4, <1>5 DEF Changes
<1>7. \A t \in told' : Queue!LeftAlone(t)'
  BY <1>1, <1>5, OthersAreLeftAlone
<1>8. told' \subseteq [job : DOMAIN jobs, until : Nat]
  BY <1>1 DEF Queue!QueueInvariant, Queue!TypeOK
<1> QED
  BY <1>1, <1>6, <1>7, <1>8, ChangeKeeps

(* A held or failed import is queued again.                                *)
LEMMA ImportResumeKeeps ==
  ASSUME Queue!RefreshQueueAssumption, Queue!QueueInvariant, NEW j \in DOMAIN jobs, Queue!Resume(j)
  PROVE  Queue!QueueInvariant'
<1> DEFINE new == [jobs[j] EXCEPT !.state = "queued", !.reason = "", !.since = 0, !.waiting = FALSE]
<1>1. /\ jobs[j].state \in {"held", "needs_attention"} /\ jobs' = [jobs EXCEPT ![j] = new]
      /\ UNCHANGED <<answers, running, accounts, memberships, queueTime, told>>
  BY DEF Queue!Resume
<1>2. jobs[j] \in Queue!ImportJobs /\ jobs[j].generation \in Nat
  BY QueueFacts DEF Queue!ImportJobs
<1>3. /\ "queued" \in Queue!JobStates /\ "" \in Queue!JobReasons /\ 0 \in Nat /\ FALSE \in BOOLEAN
      /\ jobs[j].state \in Queue!Active
  BY <1>1 DEF Queue!JobStates, Queue!JobReasons, Queue!Active
<1>4. /\ new \in Queue!ImportJobs /\ new.league = jobs[j].league /\ new.kind = jobs[j].kind
      /\ new.connection = jobs[j].connection /\ new.generation = jobs[j].generation
      /\ new.state = "queued"
  BY <1>2, <1>3 DEF Queue!ImportJobs
<1> HIDE DEF new
<1>5. Changes(j, new)
  <2>1. new.generation >= jobs[j].generation
    BY <1>2, <1>4
  <2> QED
    BY <1>3, <1>4, <2>1 DEF Changes
<1>6. \A t \in told' : Queue!LeftAlone(t)'
  BY <1>1, OthersAreLeftAlone
<1>7. told' \subseteq [job : DOMAIN jobs, until : Nat]
  BY <1>1 DEF Queue!QueueInvariant, Queue!TypeOK
<1> QED
  BY <1>1, <1>5, <1>6, <1>7, ChangeKeeps

(* The accounts and memberships of members change.                         *)
LEMMA MembersKeep ==
  ASSUME Queue!RefreshQueueAssumption, Queue!QueueInvariant,
         \/ \E m \in Members : Queue!Reconnect(m) \/ Queue!Disconnect(m)
         \/ \E league \in Leagues, m \in Members : Queue!Leave(league, m)
  PROVE  Queue!QueueInvariant'
<1>1. UNCHANGED <<jobs, answers, running, queueTime, told>>
  BY DEF Queue!Reconnect, Queue!Disconnect, Queue!Leave
<1>2. accounts' \in [Members -> [generation : Nat, connected : BOOLEAN]]
  <2>1. accounts \in [Members -> [generation : Nat, connected : BOOLEAN]]
    BY DEF Queue!QueueInvariant, Queue!TypeOK
  <2>2. ASSUME NEW m \in Members, Queue!Reconnect(m)
        PROVE  accounts' \in [Members -> [generation : Nat, connected : BOOLEAN]]
    <3>1. accounts[m].generation + 1 \in Nat
      BY <2>1
    <3>2. [generation |-> accounts[m].generation + 1, connected |-> TRUE]
            \in [generation : Nat, connected : BOOLEAN]
      BY <3>1
    <3> QED
      BY <2>1, <2>2, <3>2 DEF Queue!Reconnect
  <2>3. ASSUME NEW m \in Members, Queue!Disconnect(m)
        PROVE  accounts' \in [Members -> [generation : Nat, connected : BOOLEAN]]
    BY <2>1, <2>3 DEF Queue!Disconnect
  <2>4. ASSUME NEW league \in Leagues, NEW m \in Members, Queue!Leave(league, m)
        PROVE  accounts' \in [Members -> [generation : Nat, connected : BOOLEAN]]
    BY <2>1, <2>4 DEF Queue!Leave
  <2> QED
    BY <2>2, <2>3, <2>4
<1>3. memberships' \subseteq Leagues \X Members
  BY DEF Queue!Reconnect, Queue!Disconnect, Queue!Leave, Queue!QueueInvariant, Queue!TypeOK
<1>4. Queue!TypeOK'
  BY <1>1, <1>2, <1>3 DEF Queue!QueueInvariant, Queue!TypeOK
<1> QED
  BY <1>1, <1>4 DEF Queue!QueueInvariant, Queue!OneUnderWay, Queue!OneRuns, Queue!Fenced,
         Queue!LeftAlone

(* Time passes: what was told of a pause that is over is forgotten.        *)
LEMMA QueueTickKeeps ==
  ASSUME Queue!RefreshQueueAssumption, Queue!QueueInvariant, Queue!Tick
  PROVE  Queue!QueueInvariant'
<1>1. /\ queueTime \in Nat /\ ImportEnd \in Nat
  BY QueueFacts
<1>2. /\ queueTime' = queueTime + 1 /\ queueTime < ImportEnd /\ told' \subseteq told
      /\ UNCHANGED <<jobs, answers, running, accounts, memberships>>
  BY DEF Queue!Tick
<1>3. queueTime' \in 0 .. ImportEnd
  BY <1>1, <1>2
<1>4. Queue!TypeOK'
  BY <1>2, <1>3 DEF Queue!QueueInvariant, Queue!TypeOK
<1>5. ASSUME NEW t \in told' PROVE Queue!LeftAlone(t)'
  <2>1. Queue!LeftAlone(t) /\ t.until \in Nat
    BY <1>2 DEF Queue!QueueInvariant, Queue!TypeOK
  <2>2. t.until > queueTime' => t.until > queueTime
    BY <1>1, <1>2, <2>1
  <2> QED
    BY <1>2, <2>1, <2>2 DEF Queue!LeftAlone
<1> QED
  BY <1>2, <1>4, <1>5 DEF Queue!QueueInvariant, Queue!OneUnderWay, Queue!OneRuns, Queue!Fenced

(* No step of the queue breaks the invariant.                              *)
LEMMA QueueNext ==
  ASSUME Queue!RefreshQueueAssumption, Queue!QueueInvariant, [Queue!Next]_queueVars
  PROVE  Queue!QueueInvariant'
<1>1. CASE UNCHANGED queueVars
  BY <1>1 DEF queueVars, Queue!QueueInvariant, Queue!TypeOK, Queue!OneUnderWay,
         Queue!OneRuns, Queue!Fenced, Queue!LeftAlone
<1>2. ASSUME NEW r \in ImportRequests, NEW actor \in Members, NEW missing \in BOOLEAN,
             NEW key \in RequestKeys \cup {NoKey},
             Queue!Submit(r.league, r.kind, actor, r.by, key, missing)
      PROVE  Queue!QueueInvariant'
  <2>1. r.league \in Leagues /\ r.kind \in Queue!Kinds /\ r.by \in {"member", "scheduler"}
    BY DEF Queue!RefreshQueueAssumption
  <2> QED
    BY <1>2, <2>1, SubmitKeeps
<1>3. ASSUME NEW w \in Workers, Queue!Lost(w) \/ Queue!Crash(w) PROVE Queue!QueueInvariant'
  <2>1. /\ running' = [running EXCEPT ![w] = Queue!Idle]
        /\ UNCHANGED <<jobs, answers, accounts, memberships, queueTime, told>>
    BY <1>3 DEF Queue!Lost, Queue!Crash
  <2> QED
    BY <2>1, AbandonKeeps
<1>4. ASSUME NEW w \in Workers,
             NEW retryAfter \in {0, Queue!Max({Delays[n] : n \in DOMAIN Delays}) + 1},
             Queue!Throttled(w, retryAfter)
      PROVE  Queue!QueueInvariant'
  <2>1. retryAfter \in Nat
    <3>1. Queue!Max({Delays[n] : n \in DOMAIN Delays}) \in Nat
      BY DelayTypes
    <3>2. PICK d \in Nat : d = Queue!Max({Delays[n] : n \in DOMAIN Delays})
      BY <3>1
    <3> QED
      BY <3>2
  <2> QED
    BY <1>4, <2>1, ThrottledKeeps
<1>5. CASE \E w \in Workers :
             \/ Queue!Claim(w) \/ Queue!Heartbeat(w) \/ Queue!Finish(w) \/ Queue!NotPermitted(w)
             \/ Queue!Fail(w) \/ Queue!NotReady(w) \/ Queue!Lost(w) \/ Queue!Shutdown(w)
             \/ Queue!Crash(w)
             \/ \E retryAfter \in {0, Queue!Max({Delays[n] : n \in DOMAIN Delays}) + 1} :
                  Queue!Throttled(w, retryAfter)
  BY <1>3, <1>4, <1>5, ImportClaimKeeps, HeartbeatKeeps, ImportFinishKeeps, NotReadyKeeps,
         ShutdownKeeps
<1>6. CASE \E r \in ImportRequests, actor \in Members :
             \/ /\ r.by = "member"
                /\ \E missing \in BOOLEAN, key \in RequestKeys \cup {NoKey} :
                     Queue!Submit(r.league, r.kind, actor, r.by, key, missing)
             \/ /\ r.by = "scheduler"
                /\ Queue!Submit(r.league, r.kind, actor, r.by, NoKey, FALSE)
  BY <1>2, <1>6
<1>7. CASE \E j \in DOMAIN jobs : Queue!Cancel(j) \/ Queue!Resume(j)
  BY <1>7, CancelKeeps, ImportResumeKeeps
<1> QED
  BY <1>1, <1>5, <1>6, <1>7, MembersKeep, QueueTickKeeps DEF Queue!Next

-----------------------------------------------------------------------------
(* What the invariant says of the turns.                                   *)

(* A pause that is not over is noted on a job, unless that was cancelled.  *)
LEMMA PauseIsNoted ==
  ASSUME Queue!RefreshQueueAssumption, Queue!QueueInvariant, ~Queue!CoolingDown
  PROVE  Queue!Quiet
<1> SUFFICES ASSUME NEW t \in told, ~(t.until <= queueTime)
             PROVE  jobs[t.job].state = "cancelled"
  BY DEF Queue!Quiet
<1>1. t.job \in DOMAIN jobs /\ Queue!LeftAlone(t) /\ t.until \in Nat /\ queueTime \in Nat
  BY QueueFacts DEF Queue!QueueInvariant, Queue!TypeOK
<1>2. t.until > queueTime
  BY <1>1
<1>3. jobs[t.job].next \in Nat
  BY <1>1, QueueFacts DEF Queue!ImportJobs
<1>4. ASSUME jobs[t.job].state # "cancelled"
      PROVE  FALSE
  <2>1. /\ jobs[t.job].reason = "yahoo_rate_limited" /\ jobs[t.job].league \in YahooLeagues
        /\ jobs[t.job].next >= t.until
    BY <1>1, <1>2, <1>4 DEF Queue!LeftAlone
  <2>2. jobs[t.job].next > queueTime
    BY <1>1, <1>2, <1>3, <2>1
  <2> QED
    BY <1>1, <2>1, <2>2 DEF Queue!CoolingDown
<1> QED
  BY <1>4

(* A worker that ends its import well still may, and none starts by this.  *)
LEMMA EndsInTurn ==
  ASSUME Queue!RefreshQueueAssumption, Queue!QueueInvariant, NEW w \in Workers, NEW ended,
         Queue!Ends(w, ended),
         "state" \in DOMAIN ended, ended.state # "running",
         ended.state = "succeeded" => Queue!Permitted(running[w].job),
         NEW i \in DOMAIN jobs
  PROVE  Queue!InTurn(i)
<1> DEFINE j == running[w].job
           new == [ended EXCEPT !.lease = 0]
<1>1. j \in DOMAIN jobs /\ jobs[j].state = "running" /\ jobs[j] \in Queue!ImportJobs
  BY OwnedFacts DEF Queue!Ends, Queue!Job
<1>2. jobs' = [jobs EXCEPT ![j] = new] /\ new.state = ended.state
  BY DEF Queue!Ends
<1> HIDE DEF new, j
<1>3. jobs'[i] = IF i = j THEN new ELSE jobs[i]
  BY <1>1, <1>2, QueueFacts
<1>4. CASE i # j
  BY <1>3, <1>4 DEF Queue!InTurn
<1>5. CASE i = j /\ ended.state # "succeeded"
  BY <1>2, <1>3, <1>5 DEF Queue!InTurn
<1>6. CASE i = j /\ ended.state = "succeeded"
  <2>1. <<jobs[i].league, jobs[i].actor>> \in memberships
    BY <1>6 DEF Queue!Permitted, j
  <2>2. jobs[i].connection = Queue!Connection(jobs[i].league, jobs[i].actor)
    BY <1>6 DEF Queue!Permitted, Queue!Connection, Queue!QueueInvariant, j
  <2> QED
    BY <1>1, <1>6, <2>1, <2>2 DEF Queue!InTurn
<1> QED
  BY <1>4, <1>5, <1>6

(* A claim starts the one import that may go, and ends none.               *)
LEMMA ClaimInTurn ==
  ASSUME Queue!RefreshQueueAssumption, Queue!QueueInvariant, NEW w \in Workers, Queue!Claim(w),
         NEW i \in DOMAIN jobs
  PROVE  Queue!InTurn(i)
<1>1. /\ DOMAIN Queue!Recovered = DOMAIN jobs
      /\ Queue!Recovered[i].league = jobs[i].league
      /\ jobs[i].state = "running" => Queue!Recovered[i].state \in {"running", "queued"}
      /\ jobs[i].state # "running" => Queue!Recovered[i] = jobs[i]
      /\ Queue!Recovered[i].state = "running" => jobs[i].state = "running"
  BY ImportsRecovered
<1>2. CASE jobs' = Queue!Recovered
  BY <1>1, <1>2 DEF Queue!InTurn
<1>3. ASSUME NEW j, j = Queue!Min(Queue!Claimable(Queue!Recovered)),
             Queue!Claimable(Queue!Recovered) # {},
             jobs' = [Queue!Recovered EXCEPT ![j].state = "running", ![j].generation = @ + 1,
                                             ![j].lease = queueTime + ImportLease, ![j].next = 0]
      PROVE  Queue!InTurn(i)
  <2> DEFINE claimed == [Queue!Recovered[j] EXCEPT !.state = "running", !.generation = @ + 1,
                                                   !.lease = queueTime + ImportLease, !.next = 0]
  <2>1. /\ j \in DOMAIN jobs /\ claimed.state = "running"
        /\ Queue!Recovered[j].league \in YahooLeagues => ~Queue!CoolingDown
    BY <1>3, ClaimFacts
  <2>2. jobs' = [Queue!Recovered EXCEPT ![j] = claimed]
    BY <1>1, <1>3, <2>1
  <2> HIDE DEF claimed
  <2>3. jobs'[i] = IF i = j THEN claimed ELSE Queue!Recovered[i]
    BY <1>1, <2>2
  <2>4. CASE i # j
    BY <1>1, <2>3, <2>4 DEF Queue!InTurn
  <2>5. CASE i = j
    BY <1>1, <2>1, <2>3, <2>5, PauseIsNoted DEF Queue!InTurn
  <2> QED
    BY <2>4, <2>5
<1> QED
  BY <1>2, <1>3 DEF Queue!Claim

(* Every other change of a job neither ends it well nor starts it.         *)
LEMMA OthersInTurn ==
  ASSUME Queue!RefreshQueueAssumption, Queue!QueueInvariant, NEW j \in DOMAIN jobs, NEW new,
         \/ jobs' = [jobs EXCEPT ![j] = new], new.state \notin {"succeeded", "running"}
         \/ new.state = jobs[j].state,
         NEW i \in DOMAIN jobs
  PROVE  Queue!InTurn(i)
<1>1. jobs'[i] = IF i = j THEN new ELSE jobs[i]
  BY QueueFacts
<1> QED
  BY <1>1 DEF Queue!InTurn

(* Every step takes the jobs in turn.                                      *)
LEMMA StepInTurn ==
  ASSUME Queue!RefreshQueueAssumption, Queue!QueueInvariant, [Queue!Next]_queueVars,
         NEW i \in DOMAIN jobs
  PROVE  Queue!InTurn(i)
<1>1. CASE UNCHANGED jobs
  BY <1>1 DEF Queue!InTurn
<1>2. ASSUME NEW r \in ImportRequests, NEW actor \in Members, NEW key, NEW missing,
             Queue!Submit(r.league, r.kind, actor, r.by, key, missing)
      PROVE  Queue!InTurn(i)
  <2>1. UNCHANGED jobs \/ jobs' = Append(jobs, Queue!New(r.league, r.kind, actor, r.by))
    BY <1>2 DEF Queue!Submit
  <2>2. /\ jobs \in Seq(Queue!ImportJobs) /\ Len(jobs) \in Nat /\ DOMAIN jobs = 1 .. Len(jobs)
    BY QueueFacts
  <2>3. jobs'[i] = jobs[i]
    BY <2>1, <2>2
  <2> QED
    BY <2>3 DEF Queue!InTurn
<1>3. ASSUME NEW w \in Workers, Queue!Heartbeat(w) PROVE Queue!InTurn(i)
  <2> DEFINE j == running[w].job
             new == [jobs[j] EXCEPT !.lease = queueTime + ImportLease]
  <2>1. Queue!Owns(w) /\ jobs' = [jobs EXCEPT ![j] = new]
    BY <1>3 DEF Queue!Heartbeat
  <2>2. j \in DOMAIN jobs /\ jobs[j] \in Queue!ImportJobs
    BY <2>1, OwnedFacts DEF Queue!Job
  <2>3. new.state = jobs[j].state
    BY <2>2 DEF Queue!ImportJobs
  <2> HIDE DEF new, j
  <2> QED
    BY <2>1, <2>2, <2>3, OthersInTurn
<1>4. ASSUME NEW w \in Workers, Queue!Finish(w) \/ Queue!NotPermitted(w) \/ Queue!Fail(w)
      PROVE  Queue!InTurn(i)
  <2>1. Queue!Job(w) \in Queue!ImportJobs /\ Queue!Owns(w)
    BY <1>4, OwnedFacts DEF Queue!Finish, Queue!NotPermitted, Queue!Fail, Queue!Ends
  <2>2. CASE Queue!Finish(w)
    <3> DEFINE ended == [Queue!Job(w) EXCEPT !.state = "succeeded"]
    <3>1. "state" \in DOMAIN ended /\ ended.state = "succeeded"
      BY <2>1 DEF Queue!ImportJobs
    <3>2. Queue!Ends(w, ended) /\ Queue!Permitted(running[w].job)
      BY <2>2 DEF Queue!Finish
    <3> HIDE DEF ended
    <3> QED
      BY <3>1, <3>2, EndsInTurn
  <2>3. CASE Queue!NotPermitted(w)
    <3> DEFINE ended == [Queue!Job(w) EXCEPT !.state = "held", !.reason = "provider_grant_changed"]
    <3>1. "state" \in DOMAIN ended /\ ended.state = "held"
      BY <2>1 DEF Queue!ImportJobs
    <3>2. Queue!Ends(w, ended)
      BY <2>3 DEF Queue!NotPermitted
    <3> HIDE DEF ended
    <3> QED
      BY <3>1, <3>2, EndsInTurn
  <2>4. CASE Queue!Fail(w)
    <3> DEFINE ended == [Queue!Job(w) EXCEPT !.state = "needs_attention",
                                             !.reason = "execution_failed"]
    <3>1. "state" \in DOMAIN ended /\ ended.state = "needs_attention"
      BY <2>1 DEF Queue!ImportJobs
    <3>2. Queue!Ends(w, ended)
      BY <2>4 DEF Queue!Fail
    <3> HIDE DEF ended
    <3> QED
      BY <3>1, <3>2, EndsInTurn
  <2> QED
    BY <1>4, <2>2, <2>3, <2>4
<1>5. ASSUME NEW w \in Workers, NEW retryAfter, Queue!Throttled(w, retryAfter) PROVE Queue!InTurn(i)
  <2> DEFINE until == queueTime + Queue!Max({Queue!Delay(Queue!Job(w).retries + 1), retryAfter})
             ended == [Queue!Job(w) EXCEPT !.state = "queued", !.reason = "yahoo_rate_limited",
                                           !.retries = Queue!Min({@ + 1, Len(Delays)}),
                                           !.next = until,
                                           !.since = 0, !.waiting = FALSE]
  <2>1. Queue!Ends(w, ended)
    BY <1>5 DEF Queue!Throttled
  <2>2. Queue!Job(w) \in Queue!ImportJobs
    BY <2>1, OwnedFacts DEF Queue!Ends
  <2>3. "state" \in DOMAIN ended /\ ended.state = "queued"
    BY <2>2 DEF Queue!ImportJobs
  <2> HIDE DEF ended
  <2> QED
    BY <2>1, <2>3, EndsInTurn
<1>6. ASSUME NEW w \in Workers, Queue!NotReady(w) PROVE Queue!InTurn(i)
  <2> DEFINE since == IF Queue!Job(w).waiting THEN Queue!Job(w).since ELSE queueTime
             expired == queueTime - since >= MaxWait
             state == IF expired THEN "needs_attention" ELSE "queued"
             ended == [Queue!Job(w) EXCEPT !.state = state, !.reason = "results_not_ready",
                                           !.retries = Queue!Min({@ + 1, Len(Delays)}),
                                           !.next =
                                             IF expired THEN 0
                                             ELSE queueTime + Queue!Delay(Queue!Job(w).retries + 1),
                                           !.since = since, !.waiting = TRUE]
  <2>1. Queue!Ends(w, ended)
    BY <1>6 DEF Queue!NotReady
  <2>2. Queue!Job(w) \in Queue!ImportJobs
    BY <2>1, OwnedFacts DEF Queue!Ends
  <2>3. state \in {"needs_attention", "queued"}
    OBVIOUS
  <2> HIDE DEF since, expired, state
  <2>4. "state" \in DOMAIN ended /\ ended.state = state
    BY <2>2 DEF Queue!ImportJobs
  <2> HIDE DEF ended
  <2> QED
    BY <2>1, <2>3, <2>4, EndsInTurn
<1>7. ASSUME NEW w \in Workers, Queue!Shutdown(w) PROVE Queue!InTurn(i)
  <2> DEFINE new == [Queue!Job(w) EXCEPT !.state = "held", !.reason = "worker_shutdown",
                                         !.generation = @ + 1, !.lease = 0]
  <2>1. UNCHANGED jobs \/ jobs' = [jobs EXCEPT ![running[w].job] = new]
    BY <1>7 DEF Queue!Shutdown
  <2>2. running[w].job \in DOMAIN jobs
    BY <1>7 DEF Queue!Shutdown, Queue!QueueInvariant, Queue!TypeOK, Queue!Fenced
  <2>3. Queue!Job(w) \in Queue!ImportJobs
    BY <2>2, QueueFacts DEF Queue!Job
  <2>4. new.state = "held"
    BY <2>3 DEF Queue!ImportJobs
  <2> HIDE DEF new
  <2> QED
    BY <1>1, <2>1, <2>2, <2>4, OthersInTurn
<1>8. ASSUME NEW j \in DOMAIN jobs, Queue!Cancel(j) PROVE Queue!InTurn(i)
  <2> DEFINE new == [jobs[j] EXCEPT !.state = "cancelled", !.reason = "owner_cancelled",
                                    !.generation = @ + 1, !.lease = 0, !.next = 0]
  <2>1. jobs' = [jobs EXCEPT ![j] = new]
    BY <1>8 DEF Queue!Cancel
  <2>2. new.state = "cancelled"
    BY QueueFacts DEF Queue!ImportJobs
  <2> HIDE DEF new
  <2> QED
    BY <2>1, <2>2, OthersInTurn
<1>9. ASSUME NEW j \in DOMAIN jobs, Queue!Resume(j) PROVE Queue!InTurn(i)
  <2> DEFINE new == [jobs[j] EXCEPT !.state = "queued", !.reason = "", !.since = 0,
                                    !.waiting = FALSE]
  <2>1. jobs' = [jobs EXCEPT ![j] = new]
    BY <1>9 DEF Queue!Resume
  <2>2. new.state = "queued"
    BY QueueFacts DEF Queue!ImportJobs
  <2> HIDE DEF new
  <2> QED
    BY <2>1, <2>2, OthersInTurn
<1>10. CASE \E w \in Workers :
             \/ Queue!Claim(w) \/ Queue!Heartbeat(w) \/ Queue!Finish(w) \/ Queue!NotPermitted(w)
             \/ Queue!Fail(w) \/ Queue!NotReady(w) \/ Queue!Lost(w) \/ Queue!Shutdown(w)
             \/ Queue!Crash(w)
             \/ \E retryAfter \in {0, Queue!Max({Delays[n] : n \in DOMAIN Delays}) + 1} :
                  Queue!Throttled(w, retryAfter)
  <2>1. ASSUME NEW w \in Workers, Queue!Lost(w) \/ Queue!Crash(w) PROVE Queue!InTurn(i)
    BY <1>1, <2>1 DEF Queue!Lost, Queue!Crash
  <2> QED
    BY <1>3, <1>4, <1>5, <1>6, <1>7, <1>10, <2>1, ClaimInTurn
<1>11. CASE \E r \in ImportRequests, actor \in Members :
             \/ /\ r.by = "member"
                /\ \E missing \in BOOLEAN, key \in RequestKeys \cup {NoKey} :
                     Queue!Submit(r.league, r.kind, actor, r.by, key, missing)
             \/ /\ r.by = "scheduler"
                /\ Queue!Submit(r.league, r.kind, actor, r.by, NoKey, FALSE)
  BY <1>2, <1>11
<1>12. CASE \/ \E m \in Members : Queue!Reconnect(m) \/ Queue!Disconnect(m)
            \/ \E league \in Leagues, m \in Members : Queue!Leave(league, m)
            \/ Queue!Tick
  BY <1>1, <1>12 DEF Queue!Reconnect, Queue!Disconnect, Queue!Leave, Queue!Tick
<1>13. CASE \E j \in DOMAIN jobs : Queue!Cancel(j) \/ Queue!Resume(j)
  BY <1>8, <1>9, <1>13
<1>14. CASE UNCHANGED queueVars
  BY <1>1, <1>14 DEF queueVars
<1> QED
  BY <1>10, <1>11, <1>12, <1>13, <1>14 DEF Queue!Next

(* In states of the invariant every step takes the imports in turn.        *)
LEMMA InvariantTakesTurns ==
  ASSUME Queue!RefreshQueueAssumption, Queue!QueueInvariant, Queue!QueueInvariant',
         [Queue!Next]_queueVars
  PROVE  Queue!TakesTurns
<1>1. Queue!OneUnderWay'
  BY DEF Queue!QueueInvariant
<1>2. ASSUME NEW v \in Workers, NEW w \in Workers, Queue!Owns(v)', Queue!Owns(w)'
      PROVE  v = w
  <2>1. /\ running'[v] # Queue!Idle /\ running'[w] # Queue!Idle
        /\ jobs'[running'[v].job].state = "running" /\ jobs'[running'[w].job].state = "running"
        /\ jobs'[running'[v].job].generation = running'[v].generation
        /\ jobs'[running'[w].job].generation = running'[w].generation
    BY <1>2 DEF Queue!Owns, Queue!Idle
  <2>2. Queue!Fenced(v)' /\ v \in Workers /\ w \in Workers
    BY DEF Queue!QueueInvariant
  <2>3. Queue!Fenced(w)'
    BY DEF Queue!QueueInvariant
  <2>4. running'[v].job \in DOMAIN jobs' /\ running'[w].job \in DOMAIN jobs'
    BY <2>1, <2>2, <2>3 DEF Queue!QueueInvariant, Queue!TypeOK, Queue!Fenced, Queue!Idle
  <2>5. running'[v].job = running'[w].job
    BY <2>1, <2>4 DEF Queue!QueueInvariant, Queue!OneRuns
  <2> QED
    BY <2>1, <2>2, <2>5 DEF Queue!Fenced, Queue!Idle
<1>3. \A j \in DOMAIN jobs : Queue!InTurn(j)
  BY StepInTurn
<1> QED
  BY <1>1, <1>2, <1>3 DEF Queue!TakesTurns

-----------------------------------------------------------------------------
(* RecapBudget: why limits are kept.  First sums over the calls, which     *)
(* grow with what is summed.                                               *)

(* A set of naturals has a least element.                                  *)
LEMMA HasLeast ==
  ASSUME NEW S \in SUBSET Nat, S # {}
  PROVE  \E x \in S : \A y \in S : x <= y
  BY LeastIsIn

(* A sum is built up one element at a time.                                *)
Adds(C, amounts, sums) ==
  sums = [s \in SUBSET C |->
           IF s = {} THEN 0
           ELSE amounts[CHOOSE x \in s : TRUE] + sums[s \ {CHOOSE x \in s : TRUE}]]

(* What is left to add is smaller.                                         *)
LEMMA Removed ==
  ASSUME NEW C, IsFiniteSet(C), NEW s \in SUBSET C, s # {}, NEW x, x = CHOOSE y \in s : TRUE
  PROVE  /\ x \in s /\ x \in C /\ s \ {x} \in SUBSET C
         /\ Cardinality(s) \in Nat \ {0} /\ Cardinality(s \ {x}) = Cardinality(s) - 1
<1>1. x \in s
  OBVIOUS
<1>2. IsFiniteSet(s)
  BY FS_Subset
<1>3. Cardinality(s) \in Nat /\ Cardinality(s) # 0
  BY <1>2, FS_CardinalityType, FS_EmptySet
<1>4. Cardinality(s \ {x}) = Cardinality(s) - 1
  BY <1>1, <1>2, FS_RemoveElement
<1> QED
  BY <1>1, <1>3, <1>4

(* The function that adds exists on the subsets of a finite set: up to any *)
(* size, for a least size without one would have one.                      *)
LEMMA SumsExist ==
  ASSUME NEW C, IsFiniteSet(C), NEW amounts \in [C -> Nat]
  PROVE  \E sums : Adds(C, amounts, sums)
<1> DEFINE Step(s, f) == IF s = {} THEN 0
                         ELSE amounts[CHOOSE x \in s : TRUE] + f[s \ {CHOOSE x \in s : TRUE}]
           Upto(n) == \E f : \A s \in SUBSET C : Cardinality(s) <= n => f[s] = Step(s, f)
           T == {n \in Nat : ~Upto(n)}
<1>1. \A s \in SUBSET C : IsFiniteSet(s) /\ Cardinality(s) \in Nat
  BY FS_Subset, FS_CardinalityType
<1>2. T = {}
  <2> SUFFICES ASSUME T # {} PROVE FALSE
    OBVIOUS
  <2>1. T \in SUBSET Nat
    OBVIOUS
  <2>2. PICK n \in Nat : ~Upto(n) /\ \A m \in Nat : ~Upto(m) => n <= m
    <3>1. PICK n \in T : \A m \in T : n <= m
      <4> HIDE DEF T
      <4> QED
        BY <2>1, HasLeast
    <3> QED
      BY <3>1
  <2>3. n # 0
    <3>1. ASSUME n = 0 PROVE FALSE
      <4> DEFINE f == [s \in SUBSET C |-> 0]
      <4>1. ASSUME NEW s \in SUBSET C, Cardinality(s) <= 0 PROVE f[s] = Step(s, f)
        <5>1. Cardinality(s) = 0
          BY <1>1, <4>1
        <5>2. s = {}
          BY <1>1, <5>1, FS_EmptySet
        <5> QED
          BY <5>2
      <4>2. Upto(0)
        <5> HIDE DEF Step, f
        <5> QED
          BY <4>1
      <4> QED
        BY <2>2, <3>1, <4>2
    <3> QED
      BY <3>1
  <2>4. n - 1 \in Nat /\ ~(n <= n - 1)
    BY <2>3
  <2>5. PICK f : \A s \in SUBSET C : Cardinality(s) <= n - 1 => f[s] = Step(s, f)
    BY <2>2, <2>4
  <2> DEFINE g == [s \in SUBSET C |-> Step(s, f)]
  <2>6. ASSUME NEW s \in SUBSET C, Cardinality(s) <= n PROVE g[s] = Step(s, g)
    <3>1. CASE s = {}
      BY <3>1
    <3>2. CASE s # {}
      <4> DEFINE x == CHOOSE y \in s : TRUE
      <4>1. s \ {x} \in SUBSET C /\ Cardinality(s \ {x}) = Cardinality(s) - 1
        BY <3>2, Removed
      <4>2. Cardinality(s \ {x}) <= n - 1
        BY <1>1, <2>6, <4>1
      <4>3. g[s \ {x}] = Step(s \ {x}, f)
        BY <4>1
      <4>4. f[s \ {x}] = Step(s \ {x}, f)
        <5> HIDE DEF Step
        <5> QED
          BY <2>5, <4>1, <4>2
      <4>5. g[s] = Step(s, f)
        OBVIOUS
      <4>6. Step(s, f) = amounts[x] + f[s \ {x}] /\ Step(s, g) = amounts[x] + g[s \ {x}]
        BY <3>2
      <4> QED
        BY <4>3, <4>4, <4>5, <4>6
    <3> QED
      BY <3>1, <3>2
  <2>7. Upto(n)
    <3> HIDE DEF Step, g
    <3> QED
      BY <2>6
  <2> QED
    BY <2>2, <2>7
<1>3. PICK n \in Nat : n = Cardinality(C)
  BY FS_CardinalityType
<1>4. \A s \in SUBSET C : Cardinality(s) <= n
  BY <1>3, FS_Subset
<1>5. PICK f : \A s \in SUBSET C : Cardinality(s) <= n => f[s] = Step(s, f)
  BY <1>2
<1> DEFINE sums == [s \in SUBSET C |-> f[s]]
<1>6. ASSUME NEW s \in SUBSET C PROVE sums[s] = Step(s, sums)
  <2>1. f[s] = Step(s, f)
    BY <1>4, <1>5
  <2>2. CASE s = {}
    BY <2>1, <2>2
  <2>3. CASE s # {}
    <3> DEFINE x == CHOOSE y \in s : TRUE
    <3>1. s \ {x} \in SUBSET C
      OBVIOUS
    <3>2. sums[s \ {x}] = f[s \ {x}]
      BY <3>1
    <3> QED
      BY <2>1, <2>3, <3>2
  <2> QED
    BY <2>2, <2>3
<1>7. sums = [s \in SUBSET C |-> Step(s, sums)]
  <2> HIDE DEF Step
  <2> QED
    BY <1>6
<1>8. Adds(C, amounts, sums)
  BY <1>7 DEF Adds
<1> QED
  BY <1>8

(* What the total is.                                                      *)
LEMMA TotalIs ==
  ASSUME IsFiniteSet(Calls), NEW amounts \in [Calls -> Nat]
  PROVE  \E sums : Adds(Calls, amounts, sums) /\ Budget!Total(amounts) = sums[Calls]
<1>1. \E sums : Adds(Calls, amounts, sums)
  BY SumsExist
<1> QED
  BY <1>1 DEF Adds, Budget!Total, Budget!MapThenSumSet, Budget!MapThenFoldSet

(* Smaller amounts have a smaller total: the smallest part whose total     *)
(* were not would have a smaller one.                                      *)
LEMMA TotalGrows ==
  ASSUME IsFiniteSet(Calls), NEW a \in [Calls -> Nat], NEW b \in [Calls -> Nat],
         \A c \in Calls : a[c] <= b[c]
  PROVE  Budget!Total(a) \in Nat /\ Budget!Total(b) \in Nat /\ Budget!Total(a) <= Budget!Total(b)
<1>1. PICK f : Adds(Calls, a, f) /\ Budget!Total(a) = f[Calls]
  BY TotalIs
<1>2. PICK g : Adds(Calls, b, g) /\ Budget!Total(b) = g[Calls]
  BY TotalIs
<1> DEFINE Smaller(s) == f[s] \in Nat /\ g[s] \in Nat /\ f[s] <= g[s]
           T == {n \in Nat : \E s \in SUBSET Calls : Cardinality(s) = n /\ ~Smaller(s)}
<1>3. \A s \in SUBSET Calls : Cardinality(s) \in Nat
  BY FS_Subset, FS_CardinalityType
<1>4. T = {}
  <2> SUFFICES ASSUME T # {} PROVE FALSE
    OBVIOUS
  <2>1. T \in SUBSET Nat
    OBVIOUS
  <2>2. PICK n \in T : \A m \in T : n <= m
    <3> HIDE DEF T
    <3> QED
      BY <2>1, HasLeast
  <2>3. PICK s \in SUBSET Calls : Cardinality(s) = n /\ ~Smaller(s)
    OBVIOUS
  <2>4. ASSUME NEW r \in SUBSET Calls, Cardinality(r) < Cardinality(s) PROVE Smaller(r)
    <3>1. Cardinality(r) \in Nat /\ ~(n <= Cardinality(r))
      BY <1>3, <2>3, <2>4
    <3>2. Cardinality(r) \notin T
      <4> HIDE DEF T
      <4> QED
        BY <2>2, <3>1
    <3> QED
      BY <3>1, <3>2
  <2>5. CASE s = {}
    <3>1. f[s] = 0 /\ g[s] = 0
      BY <1>1, <1>2, <2>5 DEF Adds
    <3> QED
      BY <2>3, <3>1
  <2>6. CASE s # {}
    <3> DEFINE x == CHOOSE y \in s : TRUE
    <3>1. /\ x \in Calls /\ s \ {x} \in SUBSET Calls
          /\ Cardinality(s) \in Nat \ {0} /\ Cardinality(s \ {x}) = Cardinality(s) - 1
      BY <2>6, Removed
    <3>2. Cardinality(s \ {x}) < Cardinality(s)
      BY <3>1
    <3>3. f[s \ {x}] \in Nat /\ g[s \ {x}] \in Nat /\ f[s \ {x}] <= g[s \ {x}]
      <4>1. Smaller(s \ {x})
        <5> HIDE DEF Smaller, x
        <5> QED
          BY <2>4, <3>1, <3>2
      <4> QED
        BY <4>1
    <3>4. f[s] = a[x] + f[s \ {x}] /\ g[s] = b[x] + g[s \ {x}]
      BY <1>1, <1>2, <2>6 DEF Adds
    <3>5. a[x] \in Nat /\ b[x] \in Nat /\ a[x] <= b[x]
      BY <3>1
    <3>6. f[s] \in Nat /\ g[s] \in Nat /\ f[s] <= g[s]
      <4> HIDE DEF x
      <4> QED
        BY <3>3, <3>4, <3>5
    <3> QED
      BY <2>3, <3>6
  <2> QED
    BY <2>5, <2>6
<1>5. Smaller(Calls)
  <2>1. Cardinality(Calls) \in Nat /\ Calls \in SUBSET Calls
    BY <1>3
  <2> QED
    BY <1>4, <2>1
<1> QED
  BY <1>1, <1>2, <1>5


(* There are finitely many calls.                                          *)
LEMMA FiniteCalls ==
  ASSUME Budget!BudgetAssumption
  PROVE  IsFiniteSet(Calls)
<1>1. Budget!IsFiniteSet(Calls)
  BY DEF Budget!BudgetAssumption
<1> QED
  BY <1>1 DEF Budget!IsFiniteSet, IsFiniteSet

(* Nothing is reserved yet.                                                *)
LEMMA BudgetInit ==
  ASSUME Budget!BudgetAssumption, Budget!Init
  PROVE  Budget!BudgetInvariant
<1>1. today \in Budget!Times
  <2>1. \E t \in Budget!Times : \A u \in Budget!Times : t <= u
    BY HasLeast DEF Budget!BudgetAssumption
  <2> QED
    BY <2>1 DEF Budget!Init
<1>2. Budget!Unused \in Budget!Allocations
  BY DEF Budget!Unused, Budget!Allocations
<1>3. /\ allocations \in [Calls -> Budget!Allocations]
      /\ \A c \in Calls : allocations[c] = Budget!Unused
  BY <1>2 DEF Budget!Init
<1>4. saves \in 0 .. MaxSaves
  <2>1. MaxSaves \in Nat /\ saves = 0
    BY DEF Budget!BudgetAssumption, Budget!Init
  <2> QED
    BY <2>1
<1>5. Budget!TypeOK
  BY <1>1, <1>3, <1>4 DEF Budget!TypeOK, Budget!Init, Budget!BudgetAssumption
<1>6. \A c \in Calls : Budget!Accounted(c)
  BY <1>3 DEF Budget!Accounted, Budget!Unused
<1> QED
  BY <1>5, <1>6 DEF Budget!BudgetInvariant

(* What is known of an allocation, in plain numbers.                       *)
LEMMA BudgetFacts ==
  ASSUME Budget!BudgetAssumption, Budget!BudgetInvariant
  PROVE  /\ Budget!Times \subseteq Nat /\ today \in Budget!Times /\ today \in Nat
         /\ \A c \in Calls :
              /\ Budget!Accounted(c) /\ allocations[c] \in Budget!Allocations
              /\ allocations[c].held \in Nat /\ allocations[c].known \in Nat
              /\ allocations[c].at \in Budget!Times \cup {0}
              /\ Most[c] \in Nat \ {0} /\ Plan[c] \in Plans
<1>1. Budget!Times \subseteq Nat /\ today \in Budget!Times
  BY DEF Budget!BudgetAssumption, Budget!BudgetInvariant, Budget!TypeOK
<1>2. \A c \in Calls : Budget!Accounted(c) /\ allocations[c] \in Budget!Allocations
  BY DEF Budget!BudgetInvariant, Budget!TypeOK
<1>3. \A c \in Calls : Most[c] \in Nat \ {0} /\ Plan[c] \in Plans
  BY DEF Budget!BudgetAssumption
<1> QED
  BY <1>1, <1>2, <1>3 DEF Budget!Allocations

(* An allocation that may take the place of another: it has its type, and  *)
(* its account is in order.                                                *)
Sound(c, a) ==
  /\ a \in Budget!Allocations
  /\ a.state = "none" => a.known = 0 /\ a.held = 0
  /\ a.state \in {"reserved", "sent"} => a.known = 0 /\ a.held = Most[c]
  /\ a.state = "settled" => a.held = 0
  /\ a.state # "none" => a.at \in Budget!Times /\ a.at <= today

(* A ledger of sound allocations keeps the invariant.                      *)
LEMMA SoundKeeps ==
  ASSUME Budget!BudgetAssumption, Budget!BudgetInvariant, NEW ledger,
         ledger = [c \in Calls |-> ledger[c]], \A c \in Calls : Sound(c, ledger[c]),
         allocations' = ledger, plans' \subseteq Plans, UNCHANGED <<caps, appCap, today, saves>>,
         holds' \subseteq {Provider[p] : p \in Plans} \cup {"control"}
  PROVE  Budget!BudgetInvariant'
<1>1. allocations' \in [Calls -> Budget!Allocations]
  BY DEF Sound
<1>2. Budget!TypeOK'
  BY <1>1 DEF Budget!BudgetInvariant, Budget!TypeOK
<1>3. \A c \in Calls : Budget!Accounted(c)'
  BY DEF Sound, Budget!Accounted
<1> QED
  BY <1>2, <1>3 DEF Budget!BudgetInvariant

(* What stands in the ledger is sound.                                     *)
LEMMA StandsSound ==
  ASSUME Budget!BudgetAssumption, Budget!BudgetInvariant, NEW c \in Calls
  PROVE  Sound(c, allocations[c])
  BY BudgetFacts DEF Sound, Budget!Accounted

(* A plan is reserved in full, at a time that has come, and the allowance  *)
(* it replaces is given back.                                              *)
LEMMA ReservedSound ==
  ASSUME Budget!BudgetAssumption, Budget!BudgetInvariant, NEW p \in Plans,
         NEW now \in Budget!Times, now <= today,
         Budget!Reservable(p), NEW c \in Calls
  PROVE  Sound(c, Budget!Reserved(p, now)[c])
<1>1. /\ Sound(c, allocations[c]) /\ allocations[c] \in Budget!Allocations
      /\ Most[c] \in Nat \ {0}
  BY StandsSound, BudgetFacts
<1>2. CASE Plan[c] = p
  <2> DEFINE a == [Budget!Unused EXCEPT !.state = "reserved", !.at = now, !.held = Most[c]]
  <2>1. Budget!Reserved(p, now)[c] = a
    BY <1>2 DEF Budget!Reserved
  <2>2. Budget!Unused \in Budget!Allocations /\ Most[c] \in Nat
    BY <1>1 DEF Budget!Unused, Budget!Allocations
  <2>3. /\ a \in Budget!Allocations
        /\ a.state = "reserved" /\ a.at = now /\ a.held = Most[c] /\ a.known = Budget!Unused.known
    BY <2>2 DEF Budget!Allocations
  <2>4. Budget!Unused.known = 0
    BY DEF Budget!Unused
  <2> HIDE DEF a
  <2> QED
    BY <2>1, <2>3, <2>4 DEF Sound
<1>3. CASE Plan[c] # p /\ c = Allowance[p]
  <2> DEFINE a == [allocations[c] EXCEPT !.state = "settled", !.held = 0]
  <2>1. Budget!Reserved(p, now)[c] = a
    BY <1>3 DEF Budget!Reserved
  <2>2. allocations[c].state = "reserved"
    <3>1. Allowance[p] # NoCall
      BY <1>3 DEF Budget!BudgetAssumption
    <3> QED
      BY <1>3, <3>1 DEF Budget!Reservable
  <2>3. /\ a \in Budget!Allocations /\ a.state = "settled" /\ a.held = 0
        /\ a.known = allocations[c].known
        /\ a.at = allocations[c].at
    <3>1. 0 \in Nat
      OBVIOUS
    <3> QED
      BY <1>1, <3>1 DEF Budget!Allocations
  <2> HIDE DEF a
  <2> QED
    BY <1>1, <2>1, <2>2, <2>3 DEF Sound
<1>4. CASE Plan[c] # p /\ c # Allowance[p]
  BY <1>1, <1>4 DEF Budget!Reserved
<1> QED
  BY <1>2, <1>3, <1>4

(* A plan reserved ahead counts from now.                                  *)
LEMMA BudgetReserveKeeps ==
  ASSUME Budget!BudgetAssumption, Budget!BudgetInvariant, NEW p \in RequestedPlans,
         Budget!Reserve(p)
  PROVE  Budget!BudgetInvariant'
<1>1. p \in Plans /\ today \in Budget!Times /\ today <= today
  BY BudgetFacts DEF Budget!BudgetAssumption
<1> DEFINE ledger == Budget!Reserved(p, today)
<1>2. /\ allocations' = ledger /\ plans' = plans \cup {p} /\ Budget!Reservable(p)
      /\ UNCHANGED <<caps, appCap, holds, today>>
      /\ saves' = saves
  BY DEF Budget!Reserve
<1>3. \A c \in Calls : Sound(c, ledger[c])
  BY <1>1, <1>2, ReservedSound
<1>4. ledger = [c \in Calls |-> ledger[c]]
  BY DEF Budget!Reserved
<1>5. /\ plans' \subseteq Plans /\ holds' \subseteq {Provider[q] : q \in Plans} \cup {"control"}
  BY <1>1, <1>2 DEF Budget!BudgetInvariant, Budget!TypeOK
<1> HIDE DEF ledger
<1> QED
  BY <1>2, <1>3, <1>4, <1>5, SoundKeeps

(* What a dispatch sends was reserved, and counts from now.                *)
LEMMA BudgetDispatchKeeps ==
  ASSUME Budget!BudgetAssumption, Budget!BudgetInvariant, NEW c \in Calls,
         Plan[c] \in RequestedPlans,
         NEW read \in Budget!Seen(Plan[c]), Budget!Dispatch(c, read)
  PROVE  Budget!BudgetInvariant'
<1> DEFINE p == Plan[c]
           planned == IF p \in plans THEN allocations ELSE Budget!Reserved(p, read)
           dispatched == [planned[c] EXCEPT !.state = "sent", !.at = today, !.open = TRUE]
           ledger == [planned EXCEPT ![c] = dispatched]
<1>1. p \in Plans /\ today \in Budget!Times /\ read \in Budget!Times /\ read <= today
  BY BudgetFacts DEF Budget!Seen
<1>2. /\ allocations' = ledger /\ plans' = plans \cup {p}
      /\ (p \notin plans => Budget!Reservable(p))
      /\ planned[c].state = "reserved" /\ UNCHANGED <<caps, appCap, holds, today>>
      /\ saves' = saves
  BY DEF Budget!Dispatch
<1>3. planned = [d \in Calls |-> planned[d]]
  BY DEF Budget!Reserved, Budget!BudgetInvariant, Budget!TypeOK
<1>4. ASSUME NEW d \in Calls PROVE Sound(d, planned[d])
  <2>1. CASE p \in plans
    BY <2>1, StandsSound
  <2>2. CASE p \notin plans
    <3>1. planned[d] = Budget!Reserved(p, read)[d]
      BY <2>2
    <3> HIDE DEF planned, p
    <3> QED
      BY <1>1, <1>2, <2>2, <3>1, ReservedSound
  <2> QED
    BY <2>1, <2>2
<1> HIDE DEF planned
<1>5. Sound(c, dispatched)
  <2>1. planned[c] \in Budget!Allocations /\ planned[c].known = 0 /\ planned[c].held = Most[c]
    BY <1>2, <1>4 DEF Sound
  <2>2. /\ dispatched \in Budget!Allocations /\ dispatched.state = "sent" /\ dispatched.at = today
        /\ dispatched.known = planned[c].known /\ dispatched.held = planned[c].held
    BY <1>1, <2>1 DEF Budget!Allocations
  <2>3. today <= today
    BY BudgetFacts
  <2> HIDE DEF dispatched
  <2> QED
    BY <1>1, <2>1, <2>2, <2>3 DEF Sound
<1> HIDE DEF dispatched
<1>6. \A d \in Calls : ledger[d] = IF d = c THEN dispatched ELSE planned[d]
  BY <1>3
<1>7. ledger = [d \in Calls |-> ledger[d]]
  BY <1>3
<1>8. /\ plans' \subseteq Plans /\ holds' \subseteq {Provider[q] : q \in Plans} \cup {"control"}
  BY <1>1, <1>2 DEF Budget!BudgetInvariant, Budget!TypeOK
<1>9. \A d \in Calls : Sound(d, ledger[d])
  BY <1>4, <1>5, <1>6
<1> HIDE DEF ledger, p
<1> QED
  BY <1>2, <1>7, <1>8, <1>9, SoundKeeps

(* A charge settles its allocation.                                        *)
LEMMA BudgetChargeKeeps ==
  ASSUME Budget!BudgetAssumption, Budget!BudgetInvariant, NEW c \in Calls,
         NEW amount \in Charges[c],
         Budget!Receive(c, amount) \/ Budget!Invoice(c, amount)
  PROVE  Budget!BudgetInvariant'
<1>1. PICK open \in BOOLEAN : Budget!Charge(c, amount, open) /\ allocations[c].state # "none"
  <2>1. CASE Budget!Receive(c, amount)
    BY <2>1 DEF Budget!Receive
  <2>2. CASE Budget!Invoice(c, amount)
    <3>1. allocations[c].open \in BOOLEAN
      BY BudgetFacts DEF Budget!Allocations
    <3> QED
      BY <2>2, <3>1 DEF Budget!Invoice
  <2> QED
    BY <2>1, <2>2
<1> DEFINE charged == [allocations[c] EXCEPT !.state = "settled", !.held = 0, !.known = amount,
                                             !.open = open]
           ledger == [allocations EXCEPT ![c] = charged]
<1>2. /\ allocations' = ledger /\ UNCHANGED <<plans, caps, appCap, today, saves>>
      /\ holds' \subseteq holds \cup {"control", Provider[Plan[c]]}
  BY <1>1 DEF Budget!Charge
<1>3. allocations = [d \in Calls |-> allocations[d]]
  BY DEF Budget!BudgetInvariant, Budget!TypeOK
<1>4. Sound(c, charged)
  <2>1. allocations[c] \in Budget!Allocations /\ Sound(c, allocations[c]) /\ amount \in Nat
    BY BudgetFacts, StandsSound DEF Budget!BudgetAssumption
  <2>2. /\ charged \in Budget!Allocations /\ charged.state = "settled" /\ charged.held = 0
        /\ charged.at = allocations[c].at
    BY <2>1 DEF Budget!Allocations
  <2> HIDE DEF charged
  <2> QED
    BY <1>1, <2>1, <2>2 DEF Sound
<1> HIDE DEF charged
<1>5. \A d \in Calls : ledger[d] = IF d = c THEN charged ELSE allocations[d]
  BY <1>3
<1>6. ledger = [d \in Calls |-> ledger[d]]
  BY <1>3
<1>7. \A d \in Calls : Sound(d, ledger[d])
  BY <1>4, <1>5, StandsSound
<1>8. /\ plans' \subseteq Plans /\ holds' \subseteq {Provider[q] : q \in Plans} \cup {"control"}
  <2>1. Plan[c] \in Plans
    BY BudgetFacts
  <2>2. plans \subseteq Plans /\ holds \subseteq {Provider[q] : q \in Plans} \cup {"control"}
    BY DEF Budget!BudgetInvariant, Budget!TypeOK
  <2> QED
    BY <1>2, <2>1, <2>2
<1> HIDE DEF ledger
<1> QED
  BY <1>2, <1>6, <1>7, <1>8, SoundKeeps

(* An accepted outcome keeps its reservation.                              *)
LEMMA BudgetAcceptKeeps ==
  ASSUME Budget!BudgetAssumption, Budget!BudgetInvariant, NEW c \in Calls, Budget!Accept(c)
  PROVE  Budget!BudgetInvariant'
<1> DEFINE acceptedCall == [allocations[c] EXCEPT !.open = FALSE]
           ledger == [allocations EXCEPT ![c] = acceptedCall]
<1>1. allocations' = ledger /\ UNCHANGED <<plans, caps, appCap, holds, today, saves>>
  BY DEF Budget!Accept
<1>2. allocations = [d \in Calls |-> allocations[d]]
  BY DEF Budget!BudgetInvariant, Budget!TypeOK
<1>3. Sound(c, acceptedCall)
  <2>1. allocations[c] \in Budget!Allocations /\ Sound(c, allocations[c])
    BY BudgetFacts, StandsSound
  <2>2. /\ acceptedCall \in Budget!Allocations /\ acceptedCall.state = allocations[c].state
        /\ acceptedCall.held = allocations[c].held /\ acceptedCall.known = allocations[c].known
        /\ acceptedCall.at = allocations[c].at
    BY <2>1 DEF Budget!Allocations
  <2> HIDE DEF acceptedCall
  <2> QED
    BY <2>1, <2>2 DEF Sound
<1> HIDE DEF acceptedCall
<1>4. \A d \in Calls : ledger[d] = IF d = c THEN acceptedCall ELSE allocations[d]
  BY <1>2
<1>5. ledger = [d \in Calls |-> ledger[d]]
  BY <1>2
<1>6. \A d \in Calls : Sound(d, ledger[d])
  BY <1>3, <1>4, StandsSound
<1>7. /\ plans' \subseteq Plans /\ holds' \subseteq {Provider[q] : q \in Plans} \cup {"control"}
  BY <1>1 DEF Budget!BudgetInvariant, Budget!TypeOK
<1> HIDE DEF ledger
<1> QED
  BY <1>1, <1>5, <1>6, <1>7, SoundKeeps

(* What is released was never sent, and is reserved no longer.             *)
LEMMA BudgetReleaseKeeps ==
  ASSUME Budget!BudgetAssumption, Budget!BudgetInvariant, NEW o, NEW completed,
         Budget!Release(o, completed)
  PROVE  Budget!BudgetInvariant'
<1> DEFINE freed(c) == [allocations[c] EXCEPT !.state = "settled", !.held = 0]
           ledger == [c \in Calls |-> IF c \in Budget!Releasable(o, completed) THEN freed(c)
                                      ELSE allocations[c]]
<1>1. allocations' = ledger /\ UNCHANGED <<plans, caps, appCap, holds, today, saves>>
  BY DEF Budget!Release
<1>2. ASSUME NEW c \in Calls PROVE Sound(c, ledger[c])
  <2>1. allocations[c] \in Budget!Allocations /\ Sound(c, allocations[c])
    BY BudgetFacts, StandsSound
  <2>2. CASE c \in Budget!Releasable(o, completed)
    <3>1. allocations[c].state = "reserved"
      BY <2>2 DEF Budget!Releasable
    <3>2. /\ freed(c) \in Budget!Allocations /\ freed(c).state = "settled" /\ freed(c).held = 0
          /\ freed(c).at = allocations[c].at
      BY <2>1 DEF Budget!Allocations
    <3>3. ledger[c] = freed(c)
      BY <2>2
    <3> HIDE DEF freed, ledger
    <3> QED
      BY <2>1, <3>1, <3>2, <3>3 DEF Sound
  <2>3. CASE c \notin Budget!Releasable(o, completed)
    BY <2>1, <2>3
  <2> QED
    BY <2>2, <2>3
<1>3. ledger = [c \in Calls |-> ledger[c]]
  OBVIOUS
<1>4. /\ plans' \subseteq Plans /\ holds' \subseteq {Provider[q] : q \in Plans} \cup {"control"}
  BY <1>1 DEF Budget!BudgetInvariant, Budget!TypeOK
<1> HIDE DEF ledger
<1> QED
  BY <1>1, <1>2, <1>3, <1>4, SoundKeeps

(* Limits, accounts that are held again free, and the clock leave the      *)
(* ledger alone.                                                           *)
LEMMA BudgetOthersKeep ==
  ASSUME Budget!BudgetAssumption, Budget!BudgetInvariant,
         \/ \E new \in CapChoices, acknowledged \in BOOLEAN : Budget!SaveCaps(new, acknowledged)
         \/ \E new \in AppCaps : Budget!SaveAppCap(new)
         \/ \E h \in holds : Budget!ClearHold(h)
         \/ Budget!Tick
         \/ UNCHANGED budgetVars
  PROVE  Budget!BudgetInvariant' /\ allocations' = allocations /\ today <= today'
<1>1. allocations' = allocations /\ plans' = plans
  BY DEF Budget!SaveCaps, Budget!SaveAppCap, Budget!ClearHold, Budget!Tick, budgetVars
<1>2. caps' \in CapChoices /\ appCap' \in AppCaps /\ holds' \subseteq holds
  BY DEF Budget!BudgetInvariant, Budget!TypeOK, Budget!SaveCaps, Budget!SaveAppCap,
         Budget!ClearHold, Budget!Tick, budgetVars
<1>3. today \in Nat /\ saves \in 0 .. MaxSaves /\ MaxSaves \in Nat
  BY BudgetFacts DEF Budget!BudgetAssumption, Budget!BudgetInvariant, Budget!TypeOK
<1>4. saves' \in 0 .. MaxSaves
  <2>1. saves' = saves \/ (saves < MaxSaves /\ saves' = saves + 1)
    BY DEF Budget!SaveCaps, Budget!SaveAppCap, Budget!ClearHold, Budget!Tick, budgetVars
  <2> QED
    BY <1>3, <2>1
<1>5. today' \in Budget!Times /\ today' \in Nat /\ today <= today'
  <2>1. today' = today \/ (today + 1 \in Budget!Times /\ today' = today + 1)
    BY DEF Budget!SaveCaps, Budget!SaveAppCap, Budget!ClearHold, Budget!Tick, budgetVars
  <2> QED
    BY <1>3, <2>1, BudgetFacts
<1>6. Budget!TypeOK'
  BY <1>1, <1>2, <1>4, <1>5 DEF Budget!BudgetInvariant, Budget!TypeOK
<1>7. ASSUME NEW c \in Calls PROVE Budget!Accounted(c)'
  <2>1. Budget!Accounted(c) /\ allocations'[c] = allocations[c]
    BY <1>1, BudgetFacts
  <2>2. \A t \in Budget!Times : t <= today => t <= today'
    BY <1>3, <1>5, BudgetFacts
  <2> QED
    BY <2>1, <2>2 DEF Budget!Accounted
<1> QED
  BY <1>1, <1>5, <1>6, <1>7 DEF Budget!BudgetInvariant

(* The budgets as a whole.                                                 *)
LEMMA BudgetNext ==
  ASSUME Budget!BudgetAssumption, Budget!BudgetInvariant, [Budget!Next]_budgetVars
  PROVE  Budget!BudgetInvariant'
<1>1. CASE \E p \in RequestedPlans : Budget!Reserve(p)
  BY <1>1, BudgetReserveKeeps
<1>2. CASE \E c \in Calls : /\ Plan[c] \in RequestedPlans
                           /\ \E read \in Budget!Seen(Plan[c]) : Budget!Dispatch(c, read)
  BY <1>2, BudgetDispatchKeeps
<1>3. CASE \E c \in Calls : \E amount \in Charges[c] :
             Budget!Receive(c, amount) \/ Budget!Invoice(c, amount)
  BY <1>3, BudgetChargeKeeps
<1>4. CASE \E c \in Calls : Budget!Accept(c)
  BY <1>4, BudgetAcceptKeeps
<1>5. CASE \E c \in Calls, completed \in BOOLEAN : Budget!Release(Operation[c], completed)
  BY <1>5, BudgetReleaseKeeps
<1>6. CASE \/ \E new \in CapChoices, acknowledged \in BOOLEAN : Budget!SaveCaps(new, acknowledged)
           \/ \E new \in AppCaps : Budget!SaveAppCap(new)
           \/ \E h \in holds : Budget!ClearHold(h)
           \/ Budget!Tick
           \/ UNCHANGED budgetVars
  BY <1>6, BudgetOthersKeep
<1> QED
  BY <1>1, <1>2, <1>3, <1>4, <1>5, <1>6 DEF Budget!Next

(* What a call weighs when its allocation a became b: it stands from the   *)
(* same time, holds no more, and costs no more than it was allowed.        *)
Lighter(a, b) ==
  b.state # "none" =>
    /\ a.state # "none" /\ b.at = a.at
    /\ b.held <= a.held /\ b.known + b.held <= a.known + a.held

(* In a month that ends only later, a lighter allocation weighs no more.   *)
LEMMA InMonthShrinks ==
  ASSUME Budget!Times \subseteq Nat, NEW month \in [Budget!Times -> Nat],
         \A t, u \in Budget!Times : t <= u => month[t] <= month[u],
         NEW then \in Budget!Times, NEW now \in Budget!Times, then <= now,
         NEW a \in Budget!Allocations, NEW b \in Budget!Allocations, Lighter(a, b),
         b.state # "none", a.at \in Budget!Times, a.at <= then
  PROVE  Budget!InMonth(b, month, now) <= Budget!InMonth(a, month, then)
<1>1. /\ a.held \in Nat /\ a.known \in Nat /\ b.held \in Nat /\ b.known \in Nat
      /\ b.at = a.at /\ b.held <= a.held /\ b.known + b.held <= a.known + a.held
  BY DEF Budget!Allocations, Lighter
<1>2. /\ month[a.at] \in Nat /\ month[then] \in Nat /\ month[now] \in Nat
      /\ month[a.at] <= month[then] /\ month[then] <= month[now]
  OBVIOUS
<1>3. CASE month[a.at] = month[now]
  <2>1. month[a.at] = month[then]
    BY <1>2, <1>3
  <2> QED
    BY <1>1, <1>3, <2>1 DEF Budget!InMonth
<1>4. CASE month[a.at] # month[now]
  <2>1. Budget!InMonth(b, month, now) = b.held
    BY <1>1, <1>2, <1>4 DEF Budget!InMonth
  <2>2. Budget!InMonth(a, month, then) = a.held \/ Budget!InMonth(a, month, then) = a.known + a.held
    BY <1>2 DEF Budget!InMonth
  <2> QED
    BY <1>1, <2>1, <2>2
<1> QED
  BY <1>3, <1>4

(* A call adds a natural number to a balance.                              *)
LEMMA AmountsTypes ==
  ASSUME NEW ledger \in [Calls -> Budget!Allocations], NEW scope, NEW e, NEW now
  PROVE  /\ Budget!Amounts(ledger, scope, e, now) \in [Calls -> Nat]
         /\ Budget!AppAmounts(ledger, now) \in [Calls -> Nat]
<1>1. ASSUME NEW c \in Calls, NEW month PROVE Budget!InMonth(ledger[c], month, now) \in Nat
  <2>1. ledger[c].held \in Nat /\ ledger[c].known \in Nat
    BY DEF Budget!Allocations
  <2>2. ledger[c].known + ledger[c].held \in Nat /\ 0 \in Nat
    BY <2>1
  <2> QED
    BY <2>1, <2>2 DEF Budget!InMonth
<1>2. \A c \in Calls : ledger[c].known + ledger[c].held \in Nat
  BY DEF Budget!Allocations
<1>3. 0 \in Nat
  OBVIOUS
<1>4. ASSUME NEW c \in Calls
      PROVE  /\ Budget!Amounts(ledger, scope, e, now)[c] \in Nat
             /\ Budget!AppAmounts(ledger, now)[c] \in Nat
  BY <1>1, <1>2, <1>3 DEF Budget!Amounts, Budget!AppAmounts
<1> QED
  BY <1>4 DEF Budget!Amounts, Budget!AppAmounts

(* A balance to which nothing became heavier does not grow.                *)
LEMMA BalanceShrinks ==
  ASSUME Budget!BudgetAssumption, Budget!BudgetInvariant, Budget!BudgetInvariant',
         today <= today', NEW scope, NEW e,
         \A c \in Calls : Budget!InScope(c, scope, e) => Lighter(allocations[c], allocations'[c])
  PROVE  /\ Budget!Balance(scope, e) \in Nat /\ Budget!Balance(scope, e)' \in Nat
         /\ Budget!Balance(scope, e)' <= Budget!Balance(scope, e)
<1> DEFINE old == Budget!Amounts(allocations, scope, e, today)
           new == Budget!Amounts(allocations', scope, e, today')
<1>1. /\ IsFiniteSet(Calls) /\ Budget!Times \subseteq Nat /\ LocalMonth \in [Budget!Times -> Nat]
      /\ \A t, u \in Budget!Times : t <= u => LocalMonth[t] <= LocalMonth[u]
  BY FiniteCalls DEF Budget!BudgetAssumption
<1>2. /\ allocations \in [Calls -> Budget!Allocations]
      /\ allocations' \in [Calls -> Budget!Allocations]
      /\ today \in Budget!Times /\ today' \in Budget!Times
  BY DEF Budget!BudgetInvariant, Budget!TypeOK
<1>3. old \in [Calls -> Nat] /\ new \in [Calls -> Nat]
  BY <1>2, AmountsTypes
<1>4. ASSUME NEW c \in Calls PROVE new[c] <= old[c]
  <2>1. old[c] \in Nat
    BY <1>3
  <2>2. CASE allocations'[c].state = "none" \/ ~Budget!InScope(c, scope, e)
    <3>1. new[c] = 0
      BY <2>2 DEF Budget!Amounts
    <3> QED
      BY <2>1, <3>1
  <2>3. CASE allocations'[c].state # "none" /\ Budget!InScope(c, scope, e)
    <3>1. /\ Lighter(allocations[c], allocations'[c]) /\ allocations[c].state # "none"
          /\ allocations[c] \in Budget!Allocations /\ allocations'[c] \in Budget!Allocations
      BY <1>2, <2>3 DEF Lighter
    <3>2. CASE scope \in Budget!EpisodeScopes
      <4>1. /\ new[c] = allocations'[c].known + allocations'[c].held
            /\ old[c] = allocations[c].known + allocations[c].held
        BY <2>3, <3>1, <3>2 DEF Budget!Amounts
      <4> QED
        BY <2>3, <3>1, <4>1 DEF Lighter
    <3>3. CASE scope \notin Budget!EpisodeScopes
      <4>1. /\ new[c] = Budget!InMonth(allocations'[c], LocalMonth, today')
            /\ old[c] = Budget!InMonth(allocations[c], LocalMonth, today)
        BY <2>3, <3>1, <3>3 DEF Budget!Amounts
      <4>2. allocations[c].at \in Budget!Times /\ allocations[c].at <= today
        BY <3>1, BudgetFacts DEF Budget!Accounted
      <4>3. Budget!InMonth(allocations'[c], LocalMonth, today')
              <= Budget!InMonth(allocations[c], LocalMonth, today)
        BY <1>1, <1>2, <2>3, <3>1, <4>2, InMonthShrinks
      <4> QED
        BY <4>1, <4>3
    <3> QED
      BY <3>2, <3>3
  <2> QED
    BY <2>2, <2>3
<1>5. Budget!Balance(scope, e) = Budget!Total(old) /\ Budget!Balance(scope, e)' = Budget!Total(new)
  BY DEF Budget!Balance, Budget!Committed
<1> HIDE DEF old, new
<1> QED
  BY <1>1, <1>3, <1>4, <1>5, TotalGrows

(* The same of the app's balance, in its own calendar.                     *)
LEMMA AppBalanceShrinks ==
  ASSUME Budget!BudgetAssumption, Budget!BudgetInvariant, Budget!BudgetInvariant', today <= today',
         \A c \in Calls : Lighter(allocations[c], allocations'[c])
  PROVE  /\ Budget!AppBalance \in Nat /\ Budget!AppBalance' \in Nat
         /\ Budget!AppBalance' <= Budget!AppBalance
<1> DEFINE old == Budget!AppAmounts(allocations, today)
           new == Budget!AppAmounts(allocations', today')
<1>1. /\ IsFiniteSet(Calls) /\ Budget!Times \subseteq Nat /\ AppMonth \in [Budget!Times -> Nat]
      /\ \A t, u \in Budget!Times : t <= u => AppMonth[t] <= AppMonth[u]
  BY FiniteCalls DEF Budget!BudgetAssumption
<1>2. /\ allocations \in [Calls -> Budget!Allocations]
      /\ allocations' \in [Calls -> Budget!Allocations]
      /\ today \in Budget!Times /\ today' \in Budget!Times
  BY DEF Budget!BudgetInvariant, Budget!TypeOK
<1>3. old \in [Calls -> Nat] /\ new \in [Calls -> Nat]
  BY <1>2, AmountsTypes
<1>4. ASSUME NEW c \in Calls PROVE new[c] <= old[c]
  <2>1. old[c] \in Nat
    BY <1>3
  <2>2. CASE allocations'[c].state = "none"
    <3>1. new[c] = 0
      BY <2>2 DEF Budget!AppAmounts
    <3> QED
      BY <2>1, <3>1
  <2>3. CASE allocations'[c].state # "none"
    <3>1. /\ Lighter(allocations[c], allocations'[c]) /\ allocations[c].state # "none"
          /\ allocations[c] \in Budget!Allocations /\ allocations'[c] \in Budget!Allocations
      BY <1>2, <2>3 DEF Lighter
    <3>2. /\ new[c] = Budget!InMonth(allocations'[c], AppMonth, today')
          /\ old[c] = Budget!InMonth(allocations[c], AppMonth, today)
      BY <2>3, <3>1 DEF Budget!AppAmounts
    <3>3. allocations[c].at \in Budget!Times /\ allocations[c].at <= today
      BY <3>1, BudgetFacts DEF Budget!Accounted
    <3>4. Budget!InMonth(allocations'[c], AppMonth, today')
            <= Budget!InMonth(allocations[c], AppMonth, today)
      BY <1>1, <1>2, <2>3, <3>1, <3>3, InMonthShrinks
    <3> QED
      BY <3>2, <3>4
  <2> QED
    BY <2>2, <2>3
<1>5. Budget!AppBalance = Budget!Total(old) /\ Budget!AppBalance' = Budget!Total(new)
  BY DEF Budget!AppBalance
<1> HIDE DEF old, new
<1> QED
  BY <1>1, <1>3, <1>4, <1>5, TotalGrows

(* Limits are naturals, and balances are of scopes.                        *)
LEMMA LimitTypes ==
  ASSUME Budget!BudgetAssumption, Budget!BudgetInvariant
  PROVE  /\ appCap \in Nat
         /\ \A b \in Budget!Balances : b[1] \in Budget!Scopes /\ caps[b[1]] \in Nat
<1>1. caps \in [Budget!Scopes -> Nat \ {0}] /\ appCap \in Nat
  BY DEF Budget!BudgetInvariant, Budget!TypeOK, Budget!BudgetAssumption
<1>2. \A b \in Budget!Balances : b[1] \in Budget!Scopes
  BY DEF Budget!Balances, Budget!Scopes, Budget!EpisodeScopes
<1> QED
  BY <1>1, <1>2

(* A step after which nothing weighs more keeps the limits.                *)
LEMMA LighterKeeps ==
  ASSUME Budget!BudgetAssumption, Budget!BudgetInvariant, Budget!BudgetInvariant', today <= today',
         \A c \in Calls : Lighter(allocations[c], allocations'[c])
  PROVE  Budget!KeepsLimits
<1>1. ASSUME NEW b \in Budget!Balances, Budget!Balance(b[1], b[2])' > caps'[b[1]], caps' = caps
      PROVE  /\ Budget!Balance(b[1], b[2]) > caps[b[1]]
             /\ Budget!Balance(b[1], b[2])' <= Budget!Balance(b[1], b[2])
  <2>1. /\ Budget!Balance(b[1], b[2]) \in Nat /\ Budget!Balance(b[1], b[2])' \in Nat
        /\ Budget!Balance(b[1], b[2])' <= Budget!Balance(b[1], b[2])
    BY BalanceShrinks
  <2>2. caps[b[1]] \in Nat
    BY LimitTypes
  <2> QED
    BY <1>1, <2>1, <2>2
<1>2. ASSUME appCap' # 0, Budget!AppBalance' > appCap', appCap' = appCap
      PROVE  appCap # 0 /\ Budget!AppBalance > appCap /\ Budget!AppBalance' <= Budget!AppBalance
  <2>1. /\ Budget!AppBalance \in Nat /\ Budget!AppBalance' \in Nat
        /\ Budget!AppBalance' <= Budget!AppBalance /\ appCap \in Nat
    BY AppBalanceShrinks, LimitTypes
  <2> QED
    BY <1>2, <2>1
<1> QED
  BY <1>1, <1>2 DEF Budget!KeepsLimits

(* So does one that admits a plan: what the plan adds to fits, and to the  *)
(* other balances nothing is added.                                        *)
LEMMA AdmittedKeeps ==
  ASSUME Budget!BudgetAssumption, Budget!BudgetInvariant, Budget!BudgetInvariant',
         UNCHANGED <<caps, appCap, today>>, NEW p \in Plans, Budget!Admits(allocations', p, today),
         \A c \in Calls : Plan[c] # p => Lighter(allocations[c], allocations'[c])
  PROVE  Budget!KeepsLimits
<1>1. today \in Nat /\ today <= today'
  BY BudgetFacts
<1>2. ASSUME NEW b \in Budget!Balances, Budget!Balance(b[1], b[2])' > caps'[b[1]]
      PROVE  /\ Budget!Balance(b[1], b[2]) > caps[b[1]]
             /\ Budget!Balance(b[1], b[2])' <= Budget!Balance(b[1], b[2])
  <2>1. caps[b[1]] \in Nat /\ b[1] \in Budget!Scopes /\ caps' = caps
    BY LimitTypes
  <2>2. \A c \in Calls : Budget!InScope(c, b[1], b[2]) => Plan[c] # p
    <3> SUFFICES ASSUME NEW c \in Calls, Budget!InScope(c, b[1], b[2]), Plan[c] = p PROVE FALSE
      OBVIOUS
    <3>1. Category[p] # "managed" /\ (b[1] \in Budget!EpisodeScopes => Episode[p] = b[2])
      BY DEF Budget!InScope
    <3>2. Budget!Committed(allocations', b[1], Episode[p], today) <= caps[b[1]]
      BY <2>1, <3>1 DEF Budget!Admits, Budget!Fits
    <3>3. Budget!Committed(allocations', b[1], Episode[p], today) = Budget!Balance(b[1], b[2])'
      <4>1. CASE b[1] \in Budget!EpisodeScopes
        BY <3>1, <4>1 DEF Budget!Balance
      <4>2. CASE b[1] \notin Budget!EpisodeScopes
        <5>1. \A d \in Calls : Budget!InScope(d, b[1], Episode[p]) = Budget!InScope(d, b[1], b[2])
          BY <4>2 DEF Budget!InScope
        <5>2. Budget!Amounts(allocations', b[1], Episode[p], today)
                = Budget!Amounts(allocations', b[1], b[2], today)
          BY <5>1 DEF Budget!Amounts
        <5> QED
          BY <5>2 DEF Budget!Balance, Budget!Committed
      <4> QED
        BY <4>1, <4>2
    <3>4. Budget!Balance(b[1], b[2])' \in Nat
      <4>1. allocations' \in [Calls -> Budget!Allocations] /\ IsFiniteSet(Calls)
        BY FiniteCalls DEF Budget!BudgetInvariant, Budget!TypeOK
      <4>2. Budget!Amounts(allocations', b[1], b[2], today) \in [Calls -> Nat]
        BY <4>1, AmountsTypes
      <4>3. Budget!Total(Budget!Amounts(allocations', b[1], b[2], today)) \in Nat
        <5> DEFINE amounts == Budget!Amounts(allocations', b[1], b[2], today)
        <5>1. \A d \in Calls : amounts[d] <= amounts[d]
          BY <4>2
        <5> HIDE DEF amounts
        <5>2. amounts \in [Calls -> Nat]
          BY <4>2 DEF amounts
        <5>3. Budget!Total(amounts) \in Nat
          BY <4>1, <5>1, <5>2, TotalGrows
        <5> QED
          BY <5>3 DEF amounts
      <4> QED
        BY <4>3 DEF Budget!Balance, Budget!Committed
    <3> QED
      BY <1>2, <2>1, <3>2, <3>3, <3>4
  <2>3. /\ Budget!Balance(b[1], b[2]) \in Nat /\ Budget!Balance(b[1], b[2])' \in Nat
        /\ Budget!Balance(b[1], b[2])' <= Budget!Balance(b[1], b[2])
    BY <1>1, <2>2, BalanceShrinks
  <2> QED
    BY <1>2, <2>1, <2>3
<1>3. appCap' # 0 => Budget!AppBalance' <= appCap'
  BY DEF Budget!Admits, Budget!FitsApp, Budget!AppBalance
<1>4. Budget!AppBalance' \in Nat /\ appCap' \in Nat
  <2>1. allocations' \in [Calls -> Budget!Allocations] /\ IsFiniteSet(Calls)
    BY FiniteCalls DEF Budget!BudgetInvariant, Budget!TypeOK
  <2> DEFINE amounts == Budget!AppAmounts(allocations', today')
  <2>2. amounts \in [Calls -> Nat]
    BY <2>1, AmountsTypes
  <2>3. Budget!AppBalance' = Budget!Total(amounts)
    BY DEF Budget!AppBalance
  <2> HIDE DEF amounts
  <2>4. \A c \in Calls : amounts[c] <= amounts[c]
    BY <2>2
  <2> QED
    BY <2>1, <2>2, <2>3, <2>4, TotalGrows, LimitTypes
<1>5. ~(appCap' # 0 /\ Budget!AppBalance' > appCap')
  BY <1>3, <1>4
<1> QED
  BY <1>2, <1>5 DEF Budget!KeepsLimits

(* What stands as it was weighs what it did.                               *)
LEMMA SameIsLighter ==
  ASSUME Budget!BudgetAssumption, Budget!BudgetInvariant, NEW c \in Calls
  PROVE  Lighter(allocations[c], allocations[c])
<1>1. allocations[c].held \in Nat /\ allocations[c].known \in Nat
  BY BudgetFacts
<1> QED
  BY <1>1 DEF Lighter

(* A plan that is reserved makes nothing heavier but its own calls.        *)
LEMMA ReservedIsLighter ==
  ASSUME Budget!BudgetAssumption, Budget!BudgetInvariant, NEW p \in Plans, NEW now,
         Budget!Reservable(p),
         NEW c \in Calls, Plan[c] # p
  PROVE  Lighter(allocations[c], Budget!Reserved(p, now)[c])
<1>1. CASE c = Allowance[p]
  <2> DEFINE a == [allocations[c] EXCEPT !.state = "settled", !.held = 0]
  <2>1. Budget!Reserved(p, now)[c] = a
    BY <1>1 DEF Budget!Reserved
  <2>2. allocations[c].state = "reserved"
    <3>1. Allowance[p] # NoCall
      BY <1>1 DEF Budget!BudgetAssumption
    <3> QED
      BY <1>1, <3>1 DEF Budget!Reservable
  <2>3. /\ allocations[c] \in Budget!Allocations /\ allocations[c].held \in Nat
        /\ allocations[c].known \in Nat
    BY BudgetFacts
  <2>4. a.at = allocations[c].at /\ a.held = 0 /\ a.known = allocations[c].known
    BY <2>3 DEF Budget!Allocations
  <2> HIDE DEF a
  <2> QED
    BY <2>1, <2>2, <2>3, <2>4 DEF Lighter
<1>2. CASE c # Allowance[p]
  <2>1. Budget!Reserved(p, now)[c] = allocations[c]
    BY <1>2 DEF Budget!Reserved
  <2> QED
    BY <2>1, SameIsLighter
<1> QED
  BY <1>1, <1>2

(* Every step keeps the limits.                                            *)
LEMMA InvariantKeepsLimits ==
  ASSUME Budget!BudgetAssumption, Budget!BudgetInvariant, Budget!BudgetInvariant',
         [Budget!Next]_budgetVars
  PROVE  Budget!KeepsLimits
<1>0. today \in Nat /\ today <= today
  BY BudgetFacts
<1>1. ASSUME NEW p \in RequestedPlans, Budget!Reserve(p) PROVE Budget!KeepsLimits
  <2>1. /\ p \in Plans /\ allocations' = Budget!Reserved(p, today) /\ Budget!Reservable(p)
        /\ Budget!Admits(allocations', p, today) /\ UNCHANGED <<caps, appCap, today>>
    BY <1>1 DEF Budget!Reserve, Budget!BudgetAssumption
  <2>2. \A c \in Calls : Plan[c] # p => Lighter(allocations[c], allocations'[c])
    BY <2>1, ReservedIsLighter
  <2> QED
    BY <2>1, <2>2, AdmittedKeeps
<1>2. ASSUME NEW c \in Calls, NEW read \in Budget!Seen(Plan[c]), Budget!Dispatch(c, read)
      PROVE  Budget!KeepsLimits
  <2> DEFINE p == Plan[c]
             planned == IF p \in plans THEN allocations ELSE Budget!Reserved(p, read)
             ledger == [planned EXCEPT ![c].state = "sent", ![c].at = today, ![c].open = TRUE]
  <2>1. /\ p \in Plans /\ allocations' = ledger /\ (p \notin plans => Budget!Reservable(p))
        /\ Budget!Admits(ledger, p, today) /\ UNCHANGED <<caps, appCap, today>>
    BY <1>2, BudgetFacts DEF Budget!Dispatch, Budget!DispatchTime
  <2>2. ASSUME NEW d \in Calls, Plan[d] # p PROVE Lighter(allocations[d], allocations'[d])
    <3>1. ledger[d] = planned[d]
      <4>1. d # c /\ planned = [e \in Calls |-> planned[e]]
        BY <2>2 DEF Budget!Reserved, Budget!BudgetInvariant, Budget!TypeOK
      <4> QED
        BY <4>1
    <3>2. CASE p \in plans
      BY <2>1, <3>1, <3>2, SameIsLighter
    <3>3. CASE p \notin plans
      <4>1. planned[d] = Budget!Reserved(p, read)[d] /\ allocations'[d] = planned[d]
        BY <2>1, <3>1, <3>3
      <4> HIDE DEF planned, ledger, p
      <4> QED
        BY <2>1, <2>2, <3>3, <4>1, ReservedIsLighter
    <3> QED
      BY <3>2, <3>3
  <2>3. Budget!Admits(allocations', p, today)
    BY <2>1
  <2> HIDE DEF p, planned, ledger
  <2> QED
    BY <2>1, <2>2, <2>3, AdmittedKeeps
<1>3. ASSUME NEW c \in Calls, NEW amount \in Charges[c],
             Budget!Receive(c, amount) \/ Budget!Invoice(c, amount)
      PROVE  Budget!KeepsLimits
  <2>1. PICK open : Budget!Charge(c, amount, open)
    BY <1>3 DEF Budget!Receive, Budget!Invoice
  <2> DEFINE charged == [allocations[c] EXCEPT !.state = "settled", !.held = 0, !.known = amount,
                                               !.open = open]
  <2>2. /\ allocations' = [allocations EXCEPT ![c] = charged]
        /\ UNCHANGED <<caps, appCap, today>>
    BY <2>1 DEF Budget!Charge
  <2>3. /\ allocations[c] \in Budget!Allocations /\ Budget!Accounted(c) /\ amount \in Nat
        /\ Most[c] \in Nat
        /\ allocations[c].held \in Nat /\ allocations[c].known \in Nat
    BY BudgetFacts DEF Budget!BudgetAssumption
  <2>4. charged.at = allocations[c].at /\ charged.held = 0 /\ charged.known = amount
    BY <2>3 DEF Budget!Allocations
  <2>5. \A d \in Calls : allocations'[d] = IF d = c THEN charged ELSE allocations[d]
    BY <2>2 DEF Budget!BudgetInvariant, Budget!TypeOK
  <2> HIDE DEF charged
  <2>6. CASE Budget!Overran
    BY <2>6 DEF Budget!KeepsLimits
  <2>7. CASE ~Budget!Overran
    <3>1. ~(amount > Most[c] /\ allocations[c].known = 0)
      BY <2>4, <2>5, <2>7 DEF Budget!Overran
    <3>2. /\ allocations[c].state # "none"
          /\ amount <= allocations[c].known + allocations[c].held
      <4>1. CASE allocations[c].state \in {"reserved", "sent"}
        BY <2>3, <3>1, <4>1 DEF Budget!Accounted
      <4>2. CASE allocations[c].state = "settled" /\ amount = allocations[c].known
        BY <2>3, <4>2
      <4> QED
        BY <1>3, <4>1, <4>2 DEF Budget!Receive, Budget!Invoice
    <3>3. Lighter(allocations[c], charged)
      BY <2>3, <2>4, <3>2 DEF Lighter
    <3>4. \A d \in Calls : Lighter(allocations[d], allocations'[d])
      BY <2>5, <3>3, SameIsLighter
    <3> QED
      BY <1>0, <2>2, <3>4, LighterKeeps
  <2> QED
    BY <2>6, <2>7
<1>4. ASSUME NEW c \in Calls, Budget!Accept(c) PROVE Budget!KeepsLimits
  <2> DEFINE acceptedCall == [allocations[c] EXCEPT !.open = FALSE]
  <2>1. allocations' = [allocations EXCEPT ![c] = acceptedCall] /\ UNCHANGED <<caps, appCap, today>>
    BY <1>4 DEF Budget!Accept
  <2>2. /\ acceptedCall.state = allocations[c].state /\ acceptedCall.at = allocations[c].at
        /\ acceptedCall.held = allocations[c].held /\ acceptedCall.known = allocations[c].known
    BY BudgetFacts DEF Budget!Allocations
  <2>3. \A d \in Calls : allocations'[d] = IF d = c THEN acceptedCall ELSE allocations[d]
    BY <2>1 DEF Budget!BudgetInvariant, Budget!TypeOK
  <2> HIDE DEF acceptedCall
  <2>4. \A d \in Calls : Lighter(allocations[d], allocations'[d])
    BY <2>2, <2>3, SameIsLighter DEF Lighter
  <2> QED
    BY <1>0, <2>1, <2>4, LighterKeeps
<1>5. ASSUME NEW o, NEW completed, Budget!Release(o, completed) PROVE Budget!KeepsLimits
  <2>1. UNCHANGED <<caps, appCap, today>>
    BY <1>5 DEF Budget!Release
  <2>2. ASSUME NEW d \in Calls PROVE Lighter(allocations[d], allocations'[d])
    <3>1. CASE d \in Budget!Releasable(o, completed)
      <4> DEFINE freed == [allocations[d] EXCEPT !.state = "settled", !.held = 0]
      <4>1. allocations'[d] = freed
        BY <1>5, <3>1 DEF Budget!Release
      <4>2. /\ allocations[d] \in Budget!Allocations /\ allocations[d].held \in Nat
            /\ allocations[d].known \in Nat /\ allocations[d].state = "reserved"
        BY <3>1, BudgetFacts DEF Budget!Releasable
      <4>3. freed.at = allocations[d].at /\ freed.held = 0 /\ freed.known = allocations[d].known
        BY <4>2 DEF Budget!Allocations
      <4> HIDE DEF freed
      <4> QED
        BY <4>1, <4>2, <4>3 DEF Lighter
    <3>2. CASE d \notin Budget!Releasable(o, completed)
      <4>1. allocations'[d] = allocations[d]
        BY <1>5, <3>2 DEF Budget!Release
      <4> QED
        BY <4>1, SameIsLighter
    <3> QED
      BY <3>1, <3>2
  <2> QED
    BY <1>0, <2>1, <2>2, LighterKeeps
<1>6. CASE \/ \E new \in CapChoices, acknowledged \in BOOLEAN : Budget!SaveCaps(new, acknowledged)
           \/ \E new \in AppCaps : Budget!SaveAppCap(new)
           \/ \E h \in holds : Budget!ClearHold(h)
           \/ Budget!Tick
           \/ UNCHANGED budgetVars
  <2>1. allocations' = allocations /\ today <= today'
    BY <1>6, BudgetOthersKeep
  <2>2. \A c \in Calls : Lighter(allocations[c], allocations'[c])
    BY <2>1, SameIsLighter
  <2> QED
    BY <2>1, <2>2, LighterKeeps
<1> QED
  BY <1>1, <1>2, <1>3, <1>4, <1>5, <1>6 DEF Budget!Next

-----------------------------------------------------------------------------
(* These modules alone, in all of their behaviours.                        *)

(* Limits are overrun only by lowering them or by an overcharge, and what  *)
(* is overrun is not added to (recap_budget.py).                           *)
THEOREM BudgetKeepsLimits == Budget!Spec => Budget!LimitsKept
<1>1. Budget!Init => Budget!BudgetInvariant
  BY BudgetInit, InstancesAssumption DEF InstancesAssumption
<1>2. Budget!BudgetInvariant /\ [Budget!Next]_(Budget!budgetVars)
        => Budget!BudgetInvariant'
  <2> SUFFICES ASSUME Budget!BudgetInvariant, [Budget!Next]_(Budget!budgetVars)
               PROVE  Budget!BudgetInvariant'
    OBVIOUS
  <2>1. [Budget!Next]_budgetVars
    BY DEF budgetVars, Budget!budgetVars
  <2> QED
    BY <2>1, BudgetNext, InstancesAssumption DEF InstancesAssumption
<1>3. Budget!BudgetInvariant /\ Budget!BudgetInvariant'
          /\ [Budget!Next]_(Budget!budgetVars)
        => [Budget!KeepsLimits]_(Budget!budgetVars)
  <2> SUFFICES ASSUME Budget!BudgetInvariant, Budget!BudgetInvariant',
                         [Budget!Next]_(Budget!budgetVars)
               PROVE  Budget!KeepsLimits
    OBVIOUS
  <2>1. [Budget!Next]_budgetVars
    BY DEF budgetVars, Budget!budgetVars
  <2> QED
    BY <2>1, InvariantKeepsLimits, InstancesAssumption DEF InstancesAssumption
<1> QED
  BY <1>1, <1>2, <1>3, PTL DEF Budget!Spec, Budget!LimitsKept

(* Imports come one at a time, by one owner, for a member still connected, *)
(* and not while Yahoo asked for a pause (generation/commands.py).         *)
THEOREM QueueTakesTurns == Queue!Spec => Queue!ImportsInTurn
<1>1. Queue!Init => Queue!QueueInvariant
  BY QueueInit, InstancesAssumption DEF InstancesAssumption
<1>2. Queue!QueueInvariant /\ [Queue!Next]_(Queue!refreshVars)
        => Queue!QueueInvariant'
  <2> SUFFICES ASSUME Queue!QueueInvariant, [Queue!Next]_(Queue!refreshVars)
               PROVE  Queue!QueueInvariant'
    OBVIOUS
  <2>1. [Queue!Next]_queueVars
    BY DEF queueVars, Queue!refreshVars
  <2> QED
    BY <2>1, QueueNext, InstancesAssumption DEF InstancesAssumption
<1>3. Queue!QueueInvariant /\ Queue!QueueInvariant'
          /\ [Queue!Next]_(Queue!refreshVars)
        => [Queue!TakesTurns]_(Queue!refreshVars)
  <2> SUFFICES ASSUME Queue!QueueInvariant, Queue!QueueInvariant',
                         [Queue!Next]_(Queue!refreshVars)
               PROVE  Queue!TakesTurns
    OBVIOUS
  <2>1. [Queue!Next]_queueVars
    BY DEF queueVars, Queue!refreshVars
  <2> QED
    BY <2>1, InvariantTakesTurns, InstancesAssumption DEF InstancesAssumption
<1> QED
  BY <1>1, <1>2, <1>3, PTL DEF Queue!Spec, Queue!ImportsInTurn

(* What is bought without the owner is news, and never what had been       *)
(* collected when writing was resumed, but for a week admitted before      *)
(* (planner.py, worker.py).                                                *)
THEOREM PlanningBuysNews == Planning!Spec => Planning!OnlyNewsIsBought
<1>1. Planning!Init => Planning!PlanningInvariant
  BY PlanningInit, InstancesAssumption DEF InstancesAssumption
<1>2. Planning!PlanningInvariant /\ [Planning!Next]_(Planning!planningVars)
        => Planning!PlanningInvariant'
  <2> SUFFICES ASSUME Planning!PlanningInvariant, [Planning!Next]_(Planning!planningVars)
               PROVE  Planning!PlanningInvariant'
    OBVIOUS
  <2>1. [Planning!Next]_planningVars
    BY DEF planningVars, Planning!planningVars, Planning!inputs, Planning!controls,
           Planning!history
  <2> QED
    BY <2>1, PlanningNext, InstancesAssumption DEF InstancesAssumption
<1>3. Planning!PlanningInvariant /\ Planning!PlanningInvariant'
          /\ [Planning!Next]_(Planning!planningVars)
        => [Planning!BuysOnlyNews]_(Planning!planningVars)
  <2> SUFFICES ASSUME Planning!PlanningInvariant, Planning!PlanningInvariant',
                         [Planning!Next]_(Planning!planningVars)
               PROVE  Planning!BuysOnlyNews
    OBVIOUS
  <2>1. [Planning!Next]_planningVars
    BY DEF planningVars, Planning!planningVars, Planning!inputs, Planning!controls,
           Planning!history
  <2> QED
    BY <2>1, InvariantBuysNews, InstancesAssumption DEF InstancesAssumption
<1> QED
  BY <1>1, <1>2, <1>3, PTL DEF Planning!Spec, Planning!OnlyNewsIsBought

(* The work is resumed twice at most, and a blocker is mailed once, as it  *)
(* was found and to whom it was found for (recap_monitor).                 *)
THEOREM MonitorBehaves == Monitor!Spec => []Monitor!AsksOnce
<1>1. Monitor!Init => Monitor!MonitorInvariant
  BY MonitorInit, InstancesAssumption DEF InstancesAssumption
<1>2. Monitor!MonitorInvariant /\ [Monitor!Next]_(Monitor!monitorVars)
        => Monitor!MonitorInvariant'
  <2> SUFFICES ASSUME Monitor!MonitorInvariant, [Monitor!Next]_(Monitor!monitorVars)
               PROVE  Monitor!MonitorInvariant'
    OBVIOUS
  <2>1. [Monitor!Next]_monitorVars
    BY DEF monitorVars, Monitor!monitorVars
  <2> QED
    BY <2>1, MonitorNext, InstancesAssumption DEF InstancesAssumption
<1>3. Monitor!MonitorInvariant => Monitor!AsksOnce
  BY InvariantAsksOnce
<1> QED
  BY <1>1, <1>2, <1>3, PTL DEF Monitor!Spec

-----------------------------------------------------------------------------
(* The composition: in every behaviour one part runs, and the others stand *)
(* still, so that an invariant of a part is kept while that part runs.     *)

(* A step is one of the part that was chosen.                              *)
LEMMA PartSteps ==
  ASSUME [PartNext]_operationsVars
  PROVE  /\ UNCHANGED part
         /\ [Next]_vars
         /\ Budgeting => [Budget!Next]_budgetVars
         /\ Importing => [Queue!Next]_queueVars
         /\ Collecting => [Planning!Next]_planningVars
         /\ Restoring => [Restores!Next]_restoreVars
         /\ Storing => [Retention!Next]_retentionVars
         /\ Connecting => [Yahoo!Next]_yahooVars
         /\ Monitoring => [Monitor!Next]_monitorVars
<1>1. CASE PartNext
  BY <1>1 DEF PartNext, Budgeting, Films, Articles, Importing, Schedules, Asks, Collecting,
         WeekPlanned, TradePlanned, Restoring, Storing, Connecting, Monitoring, Helps, Heals
<1>2. CASE UNCHANGED operationsVars
  BY <1>2 DEF operationsVars
<1> QED
  BY <1>1, <1>2

(* The parts begin as they do alone.                                       *)
LEMMA PartStarts ==
  ASSUME PartInit
  PROVE  /\ Init
         /\ Budgeting => Budget!Init
         /\ Importing => Queue!Init
         /\ Collecting => Planning!Init
         /\ Restoring => Restores!Init
         /\ Storing => Retention!Init
         /\ Connecting => Yahoo!Init
         /\ Monitoring => Monitor!Init
BY DEF PartInit

(* The watchdog runs, or stands still.                                     *)
LEMMA PartsWatch == PartSpec => Spec
<1>1. PartInit => Init
  BY PartStarts
<1>2. [PartNext]_operationsVars => [Next]_vars
  BY PartSteps
<1> QED
  BY <1>1, <1>2, PTL DEF PartSpec, Spec

(* What is reserved, sent, charged and released keeps its invariant, for   *)
(* any plans, calls, prices, limits and calendars (recap_budget.py).       *)
THEOREM BudgetingIsSound == PartSpec => [](Budgeting => Budget!BudgetInvariant)
<1>1. PartInit => (Budgeting => Budget!BudgetInvariant)
  BY PartStarts, BudgetInit, InstancesAssumption DEF InstancesAssumption
<1>2. (Budgeting => Budget!BudgetInvariant) /\ [PartNext]_operationsVars =>
        (Budgeting => Budget!BudgetInvariant)'
  <2> SUFFICES ASSUME Budgeting => Budget!BudgetInvariant, [PartNext]_operationsVars, Budgeting'
               PROVE  Budget!BudgetInvariant'
    OBVIOUS
  <2>1. Budgeting /\ [Budget!Next]_budgetVars
    BY PartSteps DEF Budgeting
  <2>2. Budget!BudgetAssumption
    BY InstancesAssumption DEF InstancesAssumption
  <2> QED
    BY <2>1, <2>2, BudgetNext
<1> QED
  BY <1>1, <1>2, PTL DEF PartSpec

(* What is reserved and spent goes over a limit only after the limit was   *)
(* lowered or a provider overcharged, and is then not added to, even when  *)
(* a month ends between admission and dispatch (recap_budget.py            *)
(* reserve_plan, authorize_dispatch, settle_allocation).                   *)
THEOREM LimitsAreKept == PartSpec => LimitsKept
<1>1. (Budgeting => Budget!BudgetInvariant) /\ (Budgeting => Budget!BudgetInvariant)'
        /\ [PartNext]_operationsVars => [Budgeting => Budget!KeepsLimits]_budgetVars
  <2> SUFFICES ASSUME Budgeting, Budget!BudgetInvariant, (Budgeting => Budget!BudgetInvariant)',
                      [PartNext]_operationsVars
               PROVE  Budget!KeepsLimits
    OBVIOUS
  <2>1. [Budget!Next]_budgetVars /\ Budgeting'
    BY PartSteps DEF Budgeting
  <2>2. Budget!BudgetAssumption
    BY InstancesAssumption DEF InstancesAssumption
  <2> QED
    BY <2>1, <2>2, InvariantKeepsLimits
<1> QED
  BY <1>1, BudgetingIsSound, PTL DEF PartSpec, LimitsKept

(* The imports keep their invariant, for any leagues, members, workers,    *)
(* requests, intervals, leases and delays (generation/commands.py,         *)
(* generation/worker.py).                                                  *)
THEOREM ImportingIsSound == PartSpec => [](Importing => Queue!QueueInvariant)
<1>1. PartInit => (Importing => Queue!QueueInvariant)
  BY PartStarts, QueueInit, InstancesAssumption DEF InstancesAssumption
<1>2. (Importing => Queue!QueueInvariant) /\ [PartNext]_operationsVars =>
        (Importing => Queue!QueueInvariant)'
  <2> SUFFICES ASSUME Importing => Queue!QueueInvariant, [PartNext]_operationsVars, Importing'
               PROVE  Queue!QueueInvariant'
    OBVIOUS
  <2>1. Importing /\ [Queue!Next]_queueVars
    BY PartSteps DEF Importing
  <2>2. Queue!RefreshQueueAssumption
    BY InstancesAssumption DEF InstancesAssumption
  <2> QED
    BY <2>1, <2>2, QueueNext
<1> QED
  BY <1>1, <1>2, PTL DEF PartSpec

(* A league has one import of a kind under way, owned by one worker, which *)
(* finishes for a member still connected as when it was asked for, and     *)
(* none starts while Yahoo asked for a pause (generation/commands.py).     *)
THEOREM ImportsTakeTurns == PartSpec => ImportsInTurn
<1>1. (Importing => Queue!QueueInvariant) /\ (Importing => Queue!QueueInvariant)'
        /\ [PartNext]_operationsVars => [Importing => Queue!TakesTurns]_queueVars
  <2> SUFFICES ASSUME Importing, Queue!QueueInvariant, (Importing => Queue!QueueInvariant)',
                      [PartNext]_operationsVars
               PROVE  Queue!TakesTurns
    OBVIOUS
  <2>1. [Queue!Next]_queueVars /\ Importing'
    BY PartSteps DEF Importing
  <2>2. Queue!RefreshQueueAssumption
    BY InstancesAssumption DEF InstancesAssumption
  <2> QED
    BY <2>1, <2>2, InvariantTakesTurns
<1> QED
  BY <1>1, ImportingIsSound, PTL DEF PartSpec, ImportsInTurn

(* What is observed, collected and authorized keeps its invariant, for any *)
(* weeks, trades, releases and waits (readiness.py, planner.py, worker.py).*)
THEOREM CollectingIsSound == PartSpec => [](Collecting => Planning!PlanningInvariant)
<1>1. PartInit => (Collecting => Planning!PlanningInvariant)
  BY PartStarts, PlanningInit, InstancesAssumption DEF InstancesAssumption
<1>2. (Collecting => Planning!PlanningInvariant) /\ [PartNext]_operationsVars =>
        (Collecting => Planning!PlanningInvariant)'
  <2> SUFFICES ASSUME Collecting => Planning!PlanningInvariant, [PartNext]_operationsVars,
                      Collecting'
               PROVE  Planning!PlanningInvariant'
    OBVIOUS
  <2>1. Collecting /\ [Planning!Next]_planningVars
    BY PartSteps DEF Collecting
  <2>2. Planning!PlanningAssumption
    BY InstancesAssumption DEF InstancesAssumption
  <2> QED
    BY <2>1, <2>2, PlanningNext
<1> QED
  BY <1>1, <1>2, PTL DEF PartSpec

(* What is bought without the owner is news: settled facts, observed last, *)
(* on a connection verified for them, and never what had been collected    *)
(* when writing was resumed, but for a week admitted before                *)
(* (worker.py, planner.py, administration.py hold_backlog).                *)
THEOREM NewsAloneIsBought == PartSpec => OnlyNewsIsBought
<1>1. (Collecting => Planning!PlanningInvariant) /\ [PartNext]_operationsVars =>
        [Collecting => Planning!BuysOnlyNews]_planningVars
  <2> SUFFICES ASSUME Collecting, Planning!PlanningInvariant, [PartNext]_operationsVars
               PROVE  Planning!BuysOnlyNews
    OBVIOUS
  <2>1. [Planning!Next]_planningVars
    BY PartSteps
  <2>2. Planning!PlanningAssumption
    BY InstancesAssumption DEF InstancesAssumption
  <2> QED
    BY <2>1, <2>2, InvariantBuysNews
<1> QED
  BY <1>1, CollectingIsSound, PTL DEF PartSpec, OnlyNewsIsBought

(* Backups, restores and what happens around them keep their invariant,    *)
(* for any jobs and bounds (generation/recovery.py).                       *)
THEOREM RestoringIsSound == PartSpec => [](Restoring => Restores!RestoreInvariant)
<1>1. PartInit => (Restoring => Restores!RestoreInvariant)
  BY PartStarts, Restores!RestoreInit, InstancesAssumption DEF InstancesAssumption
<1>2. (Restoring => Restores!RestoreInvariant) /\ [PartNext]_operationsVars =>
        (Restoring => Restores!RestoreInvariant)'
  <2> SUFFICES ASSUME Restoring => Restores!RestoreInvariant, [PartNext]_operationsVars,
                      Restoring'
               PROVE  Restores!RestoreInvariant'
    OBVIOUS
  <2>1. Restoring /\ [Restores!Next]_restoreVars
    BY PartSteps DEF Restoring
  <2>2. Restores!RestoreAssumption /\ [Restores!Next]_(Restores!restoreVars)
    BY <2>1, InstancesAssumption DEF InstancesAssumption, restoreVars, Restores!restoreVars
  <2> QED
    BY <2>1, <2>2, Restores!RestoreNext
<1> QED
  BY <1>1, <1>2, PTL DEF PartSpec

(* A database restored from a backup shows, sends and executes only what   *)
(* agrees with all that was decided and sent after the backup              *)
(* (generation/recovery.py reconcile_restore, reopen_restore).             *)
THEOREM RestoresForgetNothing == PartSpec => []RestoreForgetsNothing
<1>1. (Restoring => Restores!RestoreInvariant) => RestoreForgetsNothing
  BY Restores!InvariantForgetsNothing DEF RestoreForgetsNothing
<1> QED
  BY <1>1, RestoringIsSound, PTL

(* Uploads, cleanups and backups keep their invariant, for any takes,      *)
(* backups and waits (recap_video/retention.py, backup_state.py).          *)
THEOREM StoringIsSound == PartSpec => [](Storing => Retention!RetentionInvariant)
<1>1. PartInit => (Storing => Retention!RetentionInvariant)
  BY PartStarts, Retention!RetentionInit, InstancesAssumption DEF InstancesAssumption
<1>2. (Storing => Retention!RetentionInvariant) /\ [PartNext]_operationsVars =>
        (Storing => Retention!RetentionInvariant)'
  <2> SUFFICES ASSUME Storing => Retention!RetentionInvariant, [PartNext]_operationsVars,
                      Storing'
               PROVE  Retention!RetentionInvariant'
    OBVIOUS
  <2>1. Storing /\ [Retention!Next]_retentionVars
    BY PartSteps DEF Storing
  <2>2. Retention!RetentionAssumption /\ [Retention!Next]_(Retention!retentionVars)
    BY <2>1, InstancesAssumption DEF InstancesAssumption, retentionVars, Retention!retentionVars
  <2> QED
    BY <2>1, <2>2, Retention!RetentionStep
<1> QED
  BY <1>1, <1>2, PTL DEF PartSpec

(* A cleanup never removes an object that is registered, published, still  *)
(* worked on or named by a backup (recap_video/retention.py                *)
(* claim_deletions).                                                       *)
THEOREM StoredMediaIsKept == PartSpec => []MediaIsKept
<1>1. (Storing => Retention!RetentionInvariant) => MediaIsKept
  BY DEF MediaIsKept, Retention!RetentionInvariant
<1> QED
  BY <1>1, StoringIsSound, PTL

(* Consents, disconnects and requests keep their invariant, for any        *)
(* requests, leagues and accounts (yahoo_connection.py).                   *)
THEOREM ConnectingIsSound == PartSpec => [](Connecting => Yahoo!ConsentInvariant)
<1>1. PartInit => (Connecting => Yahoo!ConsentInvariant)
  BY PartStarts, Yahoo!ConsentInit, InstancesAssumption DEF InstancesAssumption
<1>2. (Connecting => Yahoo!ConsentInvariant) /\ [PartNext]_operationsVars =>
        (Connecting => Yahoo!ConsentInvariant)'
  <2> SUFFICES ASSUME Connecting => Yahoo!ConsentInvariant, [PartNext]_operationsVars,
                      Connecting'
               PROVE  Yahoo!ConsentInvariant'
    OBVIOUS
  <2>1. Connecting /\ [Yahoo!Next]_yahooVars
    BY PartSteps DEF Connecting
  <2>2. Yahoo!YahooAssumption /\ [Yahoo!Next]_(Yahoo!yahooVars)
    BY <2>1, InstancesAssumption DEF InstancesAssumption, yahooVars, Yahoo!yahooVars
  <2> QED
    BY <2>1, <2>2, Yahoo!ConsentStep
<1> QED
  BY <1>1, <1>2, PTL DEF PartSpec

(* A user's account is connected by the newest consent only, and a league  *)
(* is opened on a fresh listing to the account that is connected           *)
(* (yahoo_connection.py complete, ensure_grant, connected_client).         *)
THEOREM ConnectionsFollowConsent == PartSpec => ConnectionFollowsConsent
<1>1. (Connecting => Yahoo!ConsentInvariant) /\ [PartNext]_operationsVars =>
        [Connecting => Yahoo!FollowsConsent]_yahooVars
  <2> SUFFICES ASSUME Connecting, Yahoo!ConsentInvariant, [PartNext]_operationsVars,
                      ~UNCHANGED yahooVars
               PROVE  Yahoo!FollowsConsent
    OBVIOUS
  <2>1. [Yahoo!Next]_yahooVars
    BY PartSteps
  <2>2. Yahoo!YahooAssumption /\ [Yahoo!Next]_(Yahoo!yahooVars) /\ ~UNCHANGED Yahoo!yahooVars
    BY <2>1, InstancesAssumption DEF InstancesAssumption, yahooVars, Yahoo!yahooVars
  <2> QED
    BY <2>2, Yahoo!ConsentFollows
<1> QED
  BY <1>1, ConnectingIsSound, PTL DEF PartSpec, ConnectionFollowsConsent

(* The monitor keeps its invariant, for any replicas, owners, times and    *)
(* releases (recap_monitor.py).                                            *)
THEOREM MonitoringIsSound == PartSpec => [](Monitoring => Monitor!MonitorInvariant)
<1>1. PartInit => (Monitoring => Monitor!MonitorInvariant)
  BY PartStarts, MonitorInit, InstancesAssumption DEF InstancesAssumption
<1>2. (Monitoring => Monitor!MonitorInvariant) /\ [PartNext]_operationsVars =>
        (Monitoring => Monitor!MonitorInvariant)'
  <2> SUFFICES ASSUME Monitoring => Monitor!MonitorInvariant, [PartNext]_operationsVars,
                      Monitoring'
               PROVE  Monitor!MonitorInvariant'
    OBVIOUS
  <2>1. Monitoring /\ [Monitor!Next]_monitorVars
    BY PartSteps DEF Monitoring
  <2>2. Monitor!MonitorAssumption
    BY InstancesAssumption DEF InstancesAssumption
  <2> QED
    BY <2>1, <2>2, MonitorNext
<1> QED
  BY <1>1, <1>2, PTL DEF PartSpec

(* The work is resumed twice at most and a blocker is mailed once, to the  *)
(* owner it was found for and as it was found, whatever dies, moves or is  *)
(* lost (recap_monitor.py finish, deliver, recovery_step).                 *)
THEOREM OwnerIsAskedOnce == PartSpec => []MonitorAsksOnce
<1>1. (Monitoring => Monitor!MonitorInvariant) => MonitorAsksOnce
  BY InvariantAsksOnce DEF MonitorAsksOnce
<1> QED
  BY <1>1, MonitoringIsSound, PTL

(* The state of the part that runs has its type.                           *)
THEOREM TypesAreKept == PartSpec => []TypesOK
<1>1. /\ TypeOK /\ WatchdogInvariant
      /\ Budgeting => Budget!BudgetInvariant
      /\ Importing => Queue!QueueInvariant
      /\ Collecting => Planning!PlanningInvariant
      /\ Restoring => Restores!RestoreInvariant
      /\ Storing => Retention!RetentionInvariant
      /\ Connecting => Yahoo!ConsentInvariant
      /\ Monitoring => Monitor!MonitorInvariant
      => TypesOK
  BY DEF TypesOK, Budget!BudgetInvariant, Queue!QueueInvariant, Planning!PlanningInvariant,
         Restores!RestoreInvariant, Retention!RetentionInvariant, Yahoo!ConsentInvariant,
         Monitor!MonitorInvariant
<1> QED
  BY <1>1, PartsWatch, WatchdogInvariance, BudgetingIsSound, ImportingIsSound, CollectingIsSound,
     RestoringIsSound, StoringIsSound, ConnectingIsSound, MonitoringIsSound, PTL
===============================================================================
