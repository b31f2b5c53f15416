--------------------------- MODULE YahooConnection ---------------------------
(***************************************************************************)
(* The Yahoo account of one user: consent, token rotation, the leagues it  *)
(* was listed for, and what is opened on them.  The row of the user is     *)
(* locked for a transaction; a request that talks to Yahoo may hold it     *)
(* through the call, or commit, and lock it again.  No row of another user *)
(* is touched.                                                             *)
(*                                                                         *)
(* Yahoo itself is external: it refuses, is unavailable, expires a token   *)
(* and ends a membership when it likes.                                    *)
(*                                                                         *)
(* Simplifications.  A call to Yahoo made while the row is locked is one   *)
(* step with the transaction it ends in: nobody else can write then.  A    *)
(* state that has expired is refused without effect, like an unknown one,  *)
(* and is left out.  Encryption and the verifier are left out.             *)
(***************************************************************************)
EXTENDS Integers

CONSTANTS Requests,  \* of the user, running at one time
          Leagues, Accounts,
          None,
          Joined,    \* the leagues of each account, until it leaves
          Lifetime,  \* of a grant, scaled
          MaxStarts, MaxTime

YahooAssumption ==
  /\ Joined \in [Accounts -> SUBSET Leagues]
  /\ {MaxStarts, MaxTime} \subseteq Nat /\ Lifetime \in Nat \ {0}
  /\ None \notin Requests

VARIABLES clock,
          starts,      \* consents started so far; the last is the newest
          cancelled,   \* those up to this one were cancelled by a disconnect
          pending,     \* the row of YahooOAuthState
          connection,  \* the row of YahooConnection
          generations, \* connections made so far
          grants,      \* the row of YahooLeagueGrant for each league
          lock,        \* the request that holds the row of the user
          requests,
          membership,  \* at Yahoo
          heard,       \* when Yahoo last listed each league, and to which connection
          opened       \* what the last step opened to the user

yahooVars == <<clock, starts, cancelled, pending, connection, generations, grants, lock,
               requests, membership, heard, opened>>
yahoo == <<membership, clock>>
consent == <<starts, cancelled, pending, generations>>

Idle == [at |-> "idle"]
NoGrant == [generation |-> 0, until |-> 0]
NoToken == [generation |-> 0, account |-> None]
Nothing == [kind |-> "nothing", league |-> None, token |-> NoToken, at |-> 0]

Init ==
  /\ clock = 0 /\ starts = 0 /\ cancelled = 0 /\ generations = 0
  /\ pending = None /\ connection = None /\ lock = None
  /\ grants = [l \in Leagues |-> NoGrant]
  /\ requests = [r \in Requests |-> Idle]
  /\ membership = Joined
  /\ heard = [l \in Leagues |-> [generation |-> 0, at |-> 0]]
  /\ opened = Nothing

-----------------------------------------------------------------------------
Connected == connection # None /\ connection.status = "connected"
Token == [generation |-> connection.generation, account |-> connection.account]
Free(r) == lock \in {None, r}
Quiet == opened' = Nothing

\* has_grant
Granted(l) ==
  /\ Connected
  /\ grants[l].generation = connection.generation
  /\ grants[l].until > clock

Goes(r, at) == requests' = [requests EXCEPT ![r].at = at]

Ends(r) ==
  /\ requests' = [requests EXCEPT ![r] = Idle]
  /\ lock' = IF lock = r THEN None ELSE lock

\* A league is read, added or imported from.
Opens(kind, l, token) == opened' = [kind |-> kind, league |-> l, token |-> token, at |-> clock]

-----------------------------------------------------------------------------
(* Consent.                                                                *)

\* start: an older tab is no longer good.
Start ==
  /\ starts < MaxStarts /\ lock = None
  /\ starts' = starts + 1
  /\ pending' = [state |-> starts + 1, consumed |-> FALSE]
  /\ UNCHANGED <<cancelled, connection, generations, grants, lock, requests, yahoo, heard>> /\ Quiet

\* complete: the consumption is committed before Yahoo is asked.
Consume(r, s, a) ==
  /\ requests[r] = Idle /\ pending # None
  /\ pending.state = s /\ ~pending.consumed
  /\ pending' = [pending EXCEPT !.consumed = TRUE]
  /\ requests' = [requests EXCEPT ![r] = [at |-> "consumed", state |-> s, account |-> a]]
  /\ UNCHANGED <<yahoo, starts, cancelled, connection, generations, grants, lock, heard>> /\ Quiet

\* complete: "Yahoo connection was replaced or cancelled"
Wanted(s) == pending # None /\ pending.state = s

\* complete, under the lock; Yahoo may refuse the code, or the process may die.
Exchange(r) ==
  /\ requests[r].at = "consumed" /\ lock = None
  /\ \/ /\ Wanted(requests[r].state)
        /\ connection' = [generation |-> generations + 1, state |-> requests[r].state,
                          account |-> requests[r].account, status |-> "connected",
                          expired |-> FALSE]
        /\ generations' = generations + 1
        /\ grants' = [l \in Leagues |-> NoGrant]
        /\ pending' = None
     \/ UNCHANGED <<connection, generations, grants, pending>>
  /\ Ends(r)
  /\ UNCHANGED <<yahoo, starts, cancelled, heard>> /\ Quiet

Disconnect ==
  /\ lock = None
  /\ pending' = None /\ connection' = None /\ grants' = [l \in Leagues |-> NoGrant]
  /\ cancelled' = starts
  /\ UNCHANGED <<yahoo, starts, generations, lock, requests, heard>> /\ Quiet

-----------------------------------------------------------------------------
(* What the user opens: "read" a league, "import" it, "add" it, or "list"  *)
(* the leagues there are.                                                  *)

Ask(r, kind, l) ==
  /\ requests[r] = Idle
  /\ requests' = [requests EXCEPT ![r] =
       [at |-> IF kind \in {"read", "import"} THEN "ensure" ELSE "token",
        kind |-> kind, league |-> l, verifies |-> TRUE, token |-> NoToken]]
  /\ UNCHANGED <<yahoo, consent, connection, grants, lock, heard>> /\ Quiet

\* ensure_grant returned: a member reads; an import goes on to its own token.
Passes(r) ==
  IF requests[r].kind = "import"
  THEN /\ requests' = [requests EXCEPT ![r].at = "token", ![r].verifies = FALSE]
       /\ Quiet
  ELSE /\ requests' = [requests EXCEPT ![r] = Idle]
       /\ Opens(requests[r].kind, requests[r].league, Token)

\* ensure_grant, before its lock
Look(r) ==
  /\ requests[r].at = "ensure"
  /\ IF Granted(requests[r].league) THEN Passes(r) ELSE Goes(r, "wait") /\ Quiet
  /\ UNCHANGED <<yahoo, consent, connection, grants, lock, heard>>

\* ensure_grant, under its lock
LookAgain(r) ==
  LET l == requests[r].league IN
  /\ requests[r].at = "wait" /\ lock = None
  /\ IF Granted(l)
     THEN Passes(r) /\ lock' = IF requests[r].kind = "import" THEN r ELSE None
     ELSE /\ IF Connected /\ grants[l] # NoGrant
                  /\ grants[l].generation = connection.generation
             THEN Goes(r, "token") /\ lock' = r
             ELSE Ends(r)
          /\ Quiet
  /\ UNCHANGED <<yahoo, consent, connection, grants, heard>>

Holds(r) ==
  /\ requests' = [requests EXCEPT ![r].at = "holds", ![r].token = Token]
  /\ lock' = r

\* access_token: the saved token is good, or is refused.
Take(r) ==
  /\ requests[r].at = "token" /\ Free(r)
  /\ IF ~Connected THEN Ends(r) ELSE ~connection.expired /\ Holds(r)
  /\ UNCHANGED <<yahoo, consent, connection, grants, heard>> /\ Quiet

\* access_token: it is renewed, and saved before anything else can fail.
Renew(r) ==
  /\ requests[r].at = "token" /\ Free(r) /\ Connected /\ connection.expired
  /\ \/ connection' = [connection EXCEPT !.expired = FALSE] /\ Goes(r, "renewed") /\ lock' = None
     \/ connection' = [connection EXCEPT !.status = "reconnect"] /\ Ends(r)
     \/ UNCHANGED connection /\ Ends(r)
  /\ UNCHANGED <<yahoo, consent, grants, heard>> /\ Quiet

\* access_token: whatever is connected by now
Reload(r) ==
  /\ requests[r].at = "renewed" /\ lock = None
  /\ IF Connected THEN Holds(r) ELSE Ends(r)
  /\ UNCHANGED <<yahoo, consent, connection, grants, heard>> /\ Quiet

\* discover, verify_league: also what is no longer listed is committed.
Discover(r) ==
  LET q == requests[r]
      listed == membership[q.token.account]
  IN
  /\ q.at = "holds" /\ q.verifies
  /\ grants' = [l \in Leagues |-> IF l \in listed
                  THEN [generation |-> connection.generation, until |-> clock + Lifetime]
                  ELSE NoGrant]
  /\ heard' = [l \in Leagues |-> IF l \in listed
                 THEN [generation |-> q.token.generation, at |-> clock]
                 ELSE [generation |-> 0, at |-> 0]]
  /\ lock' = None
  /\ IF q.kind = "list" \/ q.league \notin listed
     THEN requests' = [requests EXCEPT ![r] = Idle] /\ Quiet
     ELSE Passes(r)
  /\ UNCHANGED <<yahoo, consent, connection>>

\* discover: Yahoo refuses the account, or cannot answer.
DiscoverFails(r) ==
  /\ requests[r].at = "holds" /\ requests[r].verifies
  /\ \/ connection' = [connection EXCEPT !.status = "reconnect"]
     \/ UNCHANGED connection
  /\ Ends(r)
  /\ UNCHANGED <<yahoo, consent, grants, heard>> /\ Quiet

(* A fault: a disconnect and another consent while the token was renewed   *)
(* are not noticed.                                                        *)
FaultyStillGranted(l) == TRUE

\* connected_client: "Disconnect/reconnect may have won a race"
StillGranted(l) == Granted(l)

HandOver(r) ==
  LET q == requests[r] IN
  /\ q.at = "holds" /\ ~q.verifies
  /\ IF StillGranted(q.league) THEN Opens("import", q.league, q.token) ELSE Quiet
  /\ Ends(r)
  /\ UNCHANGED <<yahoo, consent, connection, grants, heard>>

-----------------------------------------------------------------------------
(* Yahoo, and time.                                                        *)

Expire ==
  /\ Connected /\ ~connection.expired /\ lock = None
  /\ connection' = [connection EXCEPT !.expired = TRUE]
  /\ UNCHANGED <<yahoo, consent, grants, lock, requests, heard>> /\ Quiet

Leave(a, l) ==
  /\ l \in membership[a]
  /\ membership' = [membership EXCEPT ![a] = @ \ {l}]
  /\ UNCHANGED <<clock, consent, connection, grants, lock, requests, heard>> /\ Quiet

Tick ==
  /\ clock < MaxTime /\ clock' = clock + 1
  /\ UNCHANGED <<membership, consent, connection, grants, lock, requests, heard>> /\ Quiet

RequestNext(r) ==
  \/ \E s \in 1 .. starts, a \in Accounts : Consume(r, s, a)
  \/ Exchange(r)
  \/ \E kind \in {"read", "import", "add", "list"}, l \in Leagues : Ask(r, kind, l)
  \/ Look(r) \/ LookAgain(r) \/ Take(r) \/ Renew(r) \/ Reload(r)
  \/ Discover(r) \/ DiscoverFails(r) \/ HandOver(r)

Next ==
  \/ Start \/ Disconnect \/ Expire \/ Tick
  \/ \E a \in Accounts, l \in Leagues : Leave(a, l)
  \/ \E r \in Requests : RequestNext(r)

Spec == Init /\ [][Next]_yahooVars

-----------------------------------------------------------------------------
Tokens == [generation : 0 .. MaxStarts, account : Accounts \cup {None}]
Consuming == [at : {"consumed"}, state : 1 .. MaxStarts, account : Accounts]
Asking == [at : {"ensure", "wait", "token", "renewed", "holds"},
           kind : {"read", "import", "add", "list"}, league : Leagues, verifies : BOOLEAN,
           token : Tokens]

TypeOK ==
  /\ clock \in 0 .. MaxTime /\ starts \in 0 .. MaxStarts
  /\ cancelled \in 0 .. starts /\ generations \in 0 .. starts
  /\ pending = None \/ pending \in [state : 1 .. starts, consumed : BOOLEAN]
  /\ connection = None \/
       connection \in [generation : 1 .. generations, state : 1 .. starts, account : Accounts,
                      status : {"connected", "reconnect"}, expired : BOOLEAN]
  /\ grants \in [Leagues -> [generation : 0 .. generations, until : 0 .. MaxTime + Lifetime]]
  /\ heard \in [Leagues -> [generation : 0 .. generations, at : 0 .. MaxTime]]
  /\ lock \in Requests \cup {None}
  /\ requests \in [Requests -> {Idle} \cup Consuming \cup Asking]
  /\ membership \in [Accounts -> SUBSET Leagues]
  /\ \/ opened = Nothing
     \/ opened \in [kind : {"read", "import", "add", "list"}, league : Leagues, token : Tokens,
                    at : 0 .. MaxTime]

\* A connection is made by the newest consent, once, and never by one that
\* was replaced or cancelled by a disconnect in the meantime.
MadeByConsent ==
  generations' # generations =>
    /\ connection'.state = starts /\ connection'.state > cancelled
    /\ connection # None => connection'.state > connection.state

\* What is opened was listed by Yahoo to the connection that is there now, a
\* grant's life ago at most; a client has the token of that connection.
OpenedOnProof ==
  opened' # Nothing =>
    /\ Connected' /\ opened'.token = Token'
    /\ heard'[opened'.league].generation = opened'.token.generation
    /\ heard'[opened'.league].at + Lifetime > clock'

FollowsConsent == MadeByConsent /\ OpenedOnProof

(* However consents, disconnects and renewals interleave with requests     *)
(* that talk to Yahoo, only the newest consent connects, and what is       *)
(* opened was listed to the account that is connected                      *)
(* (yahoo_connection.py complete, ensure_grant, connected_client).         *)
ConnectionFollowsConsent == [][FollowsConsent]_yahooVars

-----------------------------------------------------------------------------
(* The inductive invariant: what makes the two last.                       *)

(* start, complete, disconnect: a consent under way is the newest, later   *)
(* than the last disconnect and than the connection there is.              *)
PendingNewest ==
  pending # None =>
    /\ pending.state = starts /\ cancelled < starts /\ generations < starts
    /\ connection # None => connection.state < starts

(* access_token: a request with a token holds the row of the user, so that *)
(* the connection it is of stays.                                          *)
HolderCurrent ==
  \A r \in Requests : requests[r].at = "holds" =>
    lock = r /\ Connected /\ requests[r].token = Token

(* discover: a grant is what Yahoo listed, for a grant's life from then.   *)
GrantsHeard ==
  \A l \in Leagues : grants[l] # NoGrant =>
    /\ heard[l].generation = grants[l].generation
    /\ heard[l].at + Lifetime = grants[l].until

ConsentInvariant == TypeOK /\ PendingNewest /\ HolderCurrent /\ GrantsHeard
=============================================================================
