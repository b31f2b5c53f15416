----------------------------- MODULE RecapWatchdog -----------------------------
(***************************************************************************)
(* The watchdog of the recap monitor (media/controller/watchdog.mjs): it   *)
(* probes the monitor, keeps the incident it sees in a file, and after a   *)
(* grace period mails the owner once.  One process runs at a time; it may  *)
(* stop between any two steps.  External: the mail provider, which takes a *)
(* second message with the same key within its window for the first one.   *)
(***************************************************************************)
EXTENDS Integers

CONSTANTS
    Keys,            \* the identities of incidents
    Reasons,         \* why a monitor is unhealthy
    Addresses,       \* the recipients that may be configured
    CheckEvery,      \* the time between two checks
    GraceSeconds,    \* GRACE_SECONDS
    SendWindow,      \* how long an alert is retried
    ProviderWindow,  \* how long the provider knows a key
    Timeout,         \* how long a check may last before its request is sent
    MaxTime,         \* bound: the clock stops there
    None

VARIABLES
    clock,      \* the wall clock
    recipient,  \* the recipient that is configured
    file,       \* the state file, or None before the first check
    pc,         \* where the process is
    mem,        \* the incident it works on
    at,         \* the clock when its check began
    sends,      \* the messages that reached the provider
    delivered   \* those the provider took for new ones and delivered

vars == <<clock, recipient, file, pc, mem, at, sends, delivered>>
mailbox == <<sends, delivered>>

Payloads == [reason : Reasons, to : Addresses]
Incidents ==
    [id : Keys, since : Nat, sent : BOOLEAN, firstSendAt : Nat,
     payload : Payloads \cup {None}]
Files == [checkedAt : Nat, incident : Incidents \cup {None}]
Messages == [key : Keys, payload : Payloads, at : Nat]

ASSUME RecapWatchdogAssumption ==
    /\ {CheckEvery, GraceSeconds, SendWindow, ProviderWindow, Timeout, MaxTime}
            \subseteq Nat
    /\ SendWindow > 0 /\ SendWindow + Timeout <= ProviderWindow
    /\ None \notin Payloads /\ None \notin Incidents /\ None \notin Files

Pcs == {"down", "probe", "envelope", "send", "accepted"}

Init ==
    /\ clock = 0 /\ recipient \in Addresses
    /\ file = None
    /\ pc = "down" /\ mem = None /\ at = 0
    /\ sends = {} /\ delivered = {}

-------------------------------------------------------------------------------
End == pc' = "down" /\ mem' = None /\ at' = 0

Due == file # None => clock - file.checkedAt >= CheckEvery

Check ==
    /\ pc = "down" /\ Due
    /\ mem' = IF file = None THEN None ELSE file.incident
    /\ at' = clock /\ pc' = "probe"
    /\ UNCHANGED <<clock, recipient, file, mailbox>>

Healthy ==
    /\ pc = "probe"
    /\ file' = [checkedAt |-> at, incident |-> None]
    /\ End
    /\ UNCHANGED <<clock, recipient, mailbox>>

UnusedKey(k) == \A m \in sends : m.key # k

Opened(k) ==
    [id |-> k, since |-> at, sent |-> FALSE, firstSendAt |-> 0, payload |-> None]

(* A fault: the saved incident comes back without its envelope.            *)
FaultyCurrent ==
    IF mem # None THEN {[mem EXCEPT !.payload = None]}
                  ELSE {Opened(k) : k \in {l \in Keys : UnusedKey(l)}}

(* The incident goes on, whatever its symptoms, or a new one is opened.    *)
Current ==
    IF mem # None THEN {mem} ELSE {Opened(k) : k \in {l \in Keys : UnusedKey(l)}}

Quiet(incident) == incident.sent \/ at - incident.since < GraceSeconds

(* A fault: an alert is retried for ever.                                  *)
FaultyRetry(incident) == incident.payload.to = recipient

(* A fault: the saved envelope goes out whoever is configured now.         *)
FaultyRecipient(incident) == at - incident.firstSendAt < SendWindow

InWindow(incident) ==
    at - incident.firstSendAt < SendWindow /\ incident.payload.to = recipient

(* Unreachable, answered wrongly or unhealthy: the incident is saved, and  *)
(* the process ends or goes on to the alert, a new or the saved one.       *)
Unhealthy(incident) ==
    /\ pc = "probe"
    /\ file' = [checkedAt |-> at, incident |-> incident]
    /\ \/ /\ \/ Quiet(incident)
             \/ incident.payload # None /\ ~InWindow(incident)
          /\ End
       \/ /\ ~Quiet(incident) /\ incident.payload = None
          /\ pc' = "envelope" /\ mem' = incident /\ UNCHANGED at
       \/ /\ ~Quiet(incident) /\ incident.payload # None /\ InWindow(incident)
          /\ pc' = "send" /\ mem' = incident /\ UNCHANGED at
    /\ UNCHANGED <<clock, recipient, mailbox>>

(* A fault: the envelope has no recipient.                                 *)
FaultyEnveloped(reason) ==
    [mem EXCEPT !.firstSendAt = at, !.payload = [reason |-> reason, to |-> None]]

Enveloped(reason) ==
    [mem EXCEPT !.firstSendAt = at, !.payload = [reason |-> reason, to |-> recipient]]

(* A fault: the envelope is sent before it is saved.                       *)
FaultyEnvelope(reason) ==
    /\ pc = "envelope"
    /\ mem' = Enveloped(reason)
    /\ pc' = "send"
    /\ UNCHANGED <<clock, recipient, file, at, mailbox>>

(* The envelope is saved before it is sent.                                *)
Envelope(reason) ==
    /\ pc = "envelope"
    /\ mem' = Enveloped(reason)
    /\ file' = [file EXCEPT !.incident = mem']
    /\ pc' = "send"
    /\ UNCHANGED <<clock, recipient, at, mailbox>>

Message == [key |-> mem.id, payload |-> mem.payload, at |-> clock]
Duplicate == \E m \in delivered :
                m.key = mem.id /\ clock - m.at < ProviderWindow

Send ==
    /\ pc = "send" /\ clock - at <= Timeout
    /\ sends' = sends \cup {Message}
    /\ delivered' = IF Duplicate THEN delivered ELSE delivered \cup {Message}
    /\ pc' = "accepted"
    /\ UNCHANGED <<clock, recipient, file, mem, at>>

Accepted ==
    /\ pc = "accepted"
    /\ file' = [file EXCEPT !.incident.sent = TRUE]
    /\ End
    /\ UNCHANGED <<clock, recipient, mailbox>>

(* A crash, a write or a request that fails, an answer that is lost.       *)
Stop ==
    /\ pc # "down" /\ End
    /\ UNCHANGED <<clock, recipient, file, mailbox>>

(* The service is deployed anew with another recipient.                    *)
Configure(address) ==
    /\ pc = "down" /\ recipient' = address
    /\ UNCHANGED <<clock, file, pc, mem, at, mailbox>>

Tick ==
    /\ clock < MaxTime /\ clock' = clock + 1
    /\ UNCHANGED <<recipient, file, pc, mem, at, mailbox>>

Next ==
    \/ Check \/ Healthy \/ Send \/ Accepted \/ Stop \/ Tick
    \/ \E incident \in Current : Unhealthy(incident)
    \/ \E reason \in Reasons : Envelope(reason)
    \/ \E address \in Addresses : Configure(address)

Spec == Init /\ [][Next]_vars

-------------------------------------------------------------------------------
(* Properties.                                                             *)

TypeOK ==
    /\ clock \in Nat /\ at \in Nat /\ recipient \in Addresses
    /\ file \in Files \cup {None}
    /\ pc \in Pcs /\ mem \in Incidents \cup {None}
    /\ sends \subseteq Messages /\ delivered \subseteq sends

(* However often the answer of the mail provider is lost and whenever the  *)
(* process stops, the owner gets one mail for an incident.                 *)
OneMailPerIncident ==
    \A m, n \in delivered : m.key = n.key => m = n

(* Every message sent under one key is the same message: the provider      *)
(* refuses a key it knows with other contents.                             *)
SameEnvelope ==
    \A m, n \in sends : m.key = n.key => m.payload = n.payload

(* An incident is mailed once, and every retry of it is that same mail.    *)
MailedOnce == OneMailPerIncident /\ SameEnvelope

(* A mail goes to nobody but the recipient configured when it is sent, and *)
(* only when no check of the last GraceSeconds found the monitor healthy.  *)
ToTheOwner ==
    [][\A m \in sends' \ sends :
            /\ m.payload.to = recipient
            /\ file.incident # None /\ file.incident.id = m.key
            /\ m.at - file.incident.since >= GraceSeconds]_vars

-------------------------------------------------------------------------------
(* The inductive invariant.                                                *)

Saved == IF file = None THEN None ELSE file.incident

(* What was sent under the key of the saved incident is what it says.      *)
Recorded(incident) ==
    \A m \in sends : m.key = incident.id =>
        incident.payload = m.payload /\ incident.firstSendAt <= m.at

(* The process works on the incident of the file, whose alert is due, and  *)
(* sends nothing that is not saved.                                        *)
WatchdogInvariant ==
    /\ at <= clock
    /\ pc # "down" => mem = Saved
    /\ pc \in {"envelope", "send", "accepted"} => mem # None
    /\ Saved # None => Recorded(Saved) /\ Saved.firstSendAt <= clock
    /\ pc # "down" /\ mem # None => mem.firstSendAt <= at
    /\ pc \in {"envelope", "send"} => at - mem.since >= GraceSeconds
    /\ pc = "envelope" => mem.payload = None
    /\ pc = "send" => mem.payload # None /\ InWindow(mem)
===============================================================================
