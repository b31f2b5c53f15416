------------------------- MODULE YahooConnectionProofs -------------------------
(***************************************************************************)
(* Proofs about YahooConnection: its types, and that the connection and    *)
(* what is opened on it follow the user's newest consent.                  *)
(***************************************************************************)
EXTENDS YahooConnection, TLAPS

Rows == {Idle} \cup Consuming \cup Asking
Openings == [kind : {"read", "import", "add", "list"}, league : Leagues, token : Tokens,
             at : 0 .. MaxTime]
Connections == [generation : 1 .. generations, state : 1 .. starts, account : Accounts,
                status : {"connected", "reconnect"}, expired : BOOLEAN]

-----------------------------------------------------------------------------
(* Requests.                                                               *)

(* A request is known by where it is.                                      *)
LEMMA RequestType ==
  ASSUME TypeOK, NEW r \in Requests
  PROVE  /\ requests[r].at = "consumed" => requests[r] \in Consuming
         /\ requests[r].at \in {"ensure", "wait", "token", "renewed", "holds"} => requests[r] \in Asking
         /\ requests[r] = Idle => requests[r].at = "idle"
<1>1. requests[r] \in Rows
  BY DEF TypeOK, Rows
<1> QED
  BY <1>1 DEF Rows, Idle, Consuming, Asking

(* A request goes to another place.                                        *)
LEMMA GoesType ==
  ASSUME TypeOK, NEW r \in Requests, requests[r] \in Asking,
         NEW at \in {"ensure", "wait", "token", "renewed", "holds"}, Goes(r, at)
  PROVE  requests' \in [Requests -> Rows] /\ requests'[r].at = at
<1>1. requests \in [Requests -> Rows]
  BY DEF TypeOK, Rows
<1>2. requests' = [requests EXCEPT ![r] = [requests[r] EXCEPT !.at = at]]
  BY <1>1 DEF Goes
<1>3. [requests[r] EXCEPT !.at = at] \in Asking /\ [requests[r] EXCEPT !.at = at].at = at
  BY DEF Asking
<1> QED
  BY <1>1, <1>2, <1>3 DEF Rows

(* A request ends, and gives up what it holds.                             *)
LEMMA EndsType ==
  ASSUME TypeOK, NEW r \in Requests, Ends(r)
  PROVE  /\ requests' \in [Requests -> Rows] /\ requests'[r].at = "idle"
         /\ lock' \in Requests \cup {None}
         /\ Free(r) => lock' = None
<1>1. requests \in [Requests -> Rows] /\ requests' = [requests EXCEPT ![r] = Idle]
  BY DEF TypeOK, Rows, Ends
<1>2. requests' \in [Requests -> Rows] /\ requests'[r] = Idle
  BY <1>1 DEF Rows
<1> QED
  BY <1>2 DEF Ends, TypeOK, Free, Idle

(* A connection has a token, and is of a generation that was made.         *)
LEMMA TokenType ==
  ASSUME YahooAssumption, TypeOK, Connected
  PROVE  /\ connection \in Connections /\ Token \in Tokens /\ Token.account \in Accounts
         /\ Token.generation = connection.generation /\ connection.generation \in 1 .. generations
<1>1. connection \in Connections
  BY DEF TypeOK, Connected, Connections
<1>2. generations \in 0 .. starts /\ starts \in 0 .. MaxStarts /\ MaxStarts \in Nat
  BY DEF TypeOK, YahooAssumption
<1> QED
  BY <1>1, <1>2 DEF Connections, Token, Tokens

(* A request takes the token, and the row of the user.                     *)
LEMMA HoldsType ==
  ASSUME YahooAssumption, TypeOK, Connected, NEW r \in Requests, requests[r] \in Asking, Holds(r)
  PROVE  /\ requests' \in [Requests -> Rows] /\ lock' = r
         /\ requests'[r].at = "holds" /\ requests'[r].token = Token
<1>1. requests \in [Requests -> Rows] /\ Token \in Tokens
  BY TokenType DEF TypeOK, Rows
<1> DEFINE held == [requests[r] EXCEPT !.at = "holds", !.token = Token]
<1>2. requests' = [requests EXCEPT ![r] = held] /\ lock' = r
  BY <1>1 DEF Holds
<1>3. held \in Asking /\ held.at = "holds" /\ held.token = Token
  BY <1>1 DEF Asking
<1>4. requests'[r] = held
  BY <1>1, <1>2
<1> QED
  BY <1>1, <1>2, <1>3, <1>4 DEF Rows

(* A granted league has a grant of the connection that is there.           *)
LEMMA GrantedIsHeard ==
  ASSUME YahooAssumption, ConsentInvariant, NEW l \in Leagues, Granted(l)
  PROVE  /\ Connected
         /\ heard[l].generation = connection.generation
         /\ heard[l].at + Lifetime > clock
<1>1. Connected /\ grants[l].generation = connection.generation /\ grants[l].until > clock
  BY DEF Granted
<1>2. connection.generation \in 1 .. generations
  BY <1>1, TokenType DEF ConsentInvariant
<1>3. grants[l] # NoGrant
  BY <1>1, <1>2 DEF NoGrant
<1> QED
  BY <1>1, <1>3 DEF ConsentInvariant, GrantsHeard

-----------------------------------------------------------------------------
(* What a step does.                                                       *)

(* Steps that pass a request on, by what they do to the request, the lock  *)
(* and what is opened: the member reads, an import asks for its token.     *)
LEMMA PassesType ==
  ASSUME YahooAssumption, TypeOK, NEW r \in Requests, requests[r] \in Asking,
         Connected, Passes(r)
  PROVE  /\ requests' \in [Requests -> Rows]
         /\ \A q \in Requests \ {r} : requests'[q] = requests[q]
         /\ requests'[r].at # "holds"
         /\ \/ opened' = Nothing
            \/ opened' \in Openings
         /\ opened' # Nothing => /\ opened'.token = Token /\ opened'.league = requests[r].league
<1>1. Token \in Tokens /\ clock \in 0 .. MaxTime /\ requests \in [Requests -> Rows]
  BY TokenType DEF TypeOK, Rows
<1>2. CASE requests[r].kind = "import"
  <2>1. requests' = [requests EXCEPT ![r].at = "token", ![r].verifies = FALSE] /\ opened' = Nothing
    BY <1>2 DEF Passes, Quiet
  <2> DEFINE next == [requests[r] EXCEPT !.at = "token", !.verifies = FALSE]
  <2>2. next \in Asking /\ next.at = "token"
    BY DEF Asking
  <2>3. requests' = [requests EXCEPT ![r] = next] /\ requests'[r] = next
    BY <1>1, <2>1
  <2> QED
    BY <1>1, <2>1, <2>2, <2>3 DEF Rows
<1>3. CASE requests[r].kind # "import"
  <2>1. requests[r].kind \in {"read", "add", "list"} /\ requests[r].league \in Leagues
    BY <1>3 DEF Asking
  <2>2. /\ requests' = [requests EXCEPT ![r] = Idle]
        /\ opened' = [kind |-> requests[r].kind, league |-> requests[r].league, token |-> Token,
                      at |-> clock]
    BY <1>3 DEF Passes, Opens
  <2> QED
    BY <1>1, <2>1, <2>2 DEF Idle, Openings, Rows
<1> QED
  BY <1>2, <1>3

(* Only one request has a token, and no other while the row is free.       *)
LEMMA OneHolder ==
  ASSUME YahooAssumption, HolderCurrent, NEW r \in Requests,
         Free(r) \/ requests[r].at = "holds",
         NEW q \in Requests, requests[q].at = "holds"
  PROVE  q = r
  BY DEF HolderCurrent, Free, YahooAssumption

-----------------------------------------------------------------------------
(* Types.                                                                  *)

(* Consents and what happens at Yahoo keep the types.                      *)
LEMMA ConsentTypes ==
  ASSUME YahooAssumption, ConsentInvariant,
         \/ Start \/ Disconnect \/ Expire \/ Tick
         \/ \E a \in Accounts, l \in Leagues : Leave(a, l)
         \/ \E r \in Requests : \/ \E s \in 1 .. starts, a \in Accounts : Consume(r, s, a)
                               \/ Exchange(r)
  PROVE  TypeOK'
<1> USE DEF consent, yahoo, Quiet
<1>0. /\ TypeOK /\ MaxStarts \in Nat /\ MaxTime \in Nat /\ Lifetime \in Nat
      /\ starts \in 0 .. MaxStarts /\ generations \in 0 .. starts
  BY DEF ConsentInvariant, TypeOK, YahooAssumption
<1>1. CASE Start
  <2>1. starts' = starts + 1 /\ starts' \in 0 .. MaxStarts /\ 1 .. starts \subseteq 1 .. starts'
    BY <1>0, <1>1 DEF Start
  <2>2. pending' \in [state : 1 .. starts', consumed : BOOLEAN]
    BY <1>0, <1>1, <2>1 DEF Start
  <2>3. UNCHANGED <<cancelled, connection, generations, grants, lock, requests, heard, membership, clock>>
    BY <1>1 DEF Start
  <2>4. cancelled' \in 0 .. starts' /\ generations' \in 0 .. starts'
    BY <1>0, <2>1, <2>3 DEF TypeOK
  <2>5. connection' = None \/
          connection' \in [generation : 1 .. generations', state : 1 .. starts', account : Accounts,
                          status : {"connected", "reconnect"}, expired : BOOLEAN]
    BY <1>0, <2>1, <2>3 DEF TypeOK
  <2> QED
    BY <1>0, <1>1, <2>1, <2>2, <2>3, <2>4, <2>5 DEF TypeOK, Start
<1>2. CASE Disconnect
  BY <1>0, <1>2 DEF Disconnect, TypeOK, NoGrant
<1>3. CASE Expire
  BY <1>0, <1>3 DEF Expire, TypeOK, Connected
<1>4. CASE Tick
  BY <1>0, <1>4 DEF Tick, TypeOK
<1>5. ASSUME NEW a \in Accounts, NEW l \in Leagues, Leave(a, l) PROVE TypeOK'
  BY <1>0, <1>5 DEF Leave, TypeOK
<1>6. ASSUME NEW r \in Requests, NEW s \in 1 .. starts, NEW a \in Accounts, Consume(r, s, a)
      PROVE  TypeOK'
  <2>1. [at |-> "consumed", state |-> s, account |-> a] \in Consuming
    BY <1>0 DEF Consuming
  <2>2. requests' \in [Requests -> {Idle} \cup Consuming \cup Asking]
    BY <1>0, <1>6, <2>1 DEF Consume, TypeOK
  <2>3. pending' \in [state : 1 .. starts, consumed : BOOLEAN]
    BY <1>0, <1>6 DEF Consume, TypeOK
  <2> QED
    BY <1>0, <1>6, <2>2, <2>3 DEF Consume, TypeOK
<1>7. ASSUME NEW r \in Requests, Exchange(r) PROVE TypeOK'
  <2>1. requests' \in [Requests -> Rows] /\ lock' = None
    BY <1>0, <1>7, EndsType DEF Exchange, Free
  <2>2. CASE generations' = generations + 1
    <3>1. /\ requests[r] \in Consuming /\ pending # None /\ pending.state = requests[r].state
          /\ connection' = [generation |-> generations + 1, state |-> requests[r].state,
                            account |-> requests[r].account, status |-> "connected", expired |-> FALSE]
          /\ grants' = [l \in Leagues |-> NoGrant] /\ pending' = None
      BY <1>0, <1>7, <2>2, RequestType DEF Exchange, Wanted
    <3>2. generations + 1 \in 1 .. starts /\ pending.state = starts /\ starts \in 1 .. starts
      BY <1>0, <3>1 DEF ConsentInvariant, PendingNewest
    <3>3. connection' \in [generation : 1 .. generations', state : 1 .. starts, account : Accounts,
                          status : {"connected", "reconnect"}, expired : BOOLEAN]
      BY <1>0, <2>2, <3>1, <3>2 DEF Consuming
    <3>4. /\ grants' \in [Leagues -> [generation : 0 .. generations', until : 0 .. MaxTime + Lifetime]]
          /\ heard' \in [Leagues -> [generation : 0 .. generations', at : 0 .. MaxTime]]
      <4>1. heard' = heard /\ 0 .. generations \subseteq 0 .. generations' /\ 0 \in 0 .. generations'
        BY <1>0, <1>7, <2>2, <3>2 DEF Exchange
      <4> QED
        BY <1>0, <3>1, <4>1 DEF TypeOK, NoGrant
    <3> QED
      BY <1>0, <1>7, <2>1, <2>2, <3>1, <3>2, <3>3, <3>4 DEF Exchange, TypeOK, Rows
  <2>3. CASE UNCHANGED <<connection, generations, grants, pending>>
    BY <1>0, <1>7, <2>1, <2>3 DEF Exchange, TypeOK, Rows
  <2> QED
    BY <1>7, <2>2, <2>3 DEF Exchange
<1> QED
  BY <1>1, <1>2, <1>3, <1>4, <1>5, <1>6, <1>7

(* What the request of a user does.                                        *)
AskNext(r) ==
  \/ \E kind \in {"read", "import", "add", "list"}, l \in Leagues : Ask(r, kind, l)
  \/ Look(r) \/ LookAgain(r) \/ Take(r) \/ Renew(r) \/ Reload(r)
  \/ Discover(r) \/ DiscoverFails(r) \/ HandOver(r)

(* Requests keep the types.                                                *)
LEMMA AskTypes ==
  ASSUME YahooAssumption, ConsentInvariant, NEW r \in Requests, AskNext(r)
  PROVE  TypeOK'
<1> USE DEF consent, yahoo
<1>0. /\ TypeOK /\ MaxStarts \in Nat /\ MaxTime \in Nat /\ Lifetime \in Nat
      /\ starts \in 0 .. MaxStarts /\ generations \in 0 .. starts
      /\ requests \in [Requests -> Rows]
  BY DEF ConsentInvariant, TypeOK, YahooAssumption, Rows
<1> DEFINE Passed ==
             /\ requests' \in [Requests -> Rows] /\ lock' \in Requests \cup {None}
             /\ opened' = Nothing \/ opened' \in Openings
<1>1. ASSUME UNCHANGED <<yahoo, consent, connection, grants, heard>>, Passed PROVE TypeOK'
  BY <1>0, <1>1 DEF TypeOK, Rows, Openings
<1>2. ASSUME NEW kind \in {"read", "import", "add", "list"}, NEW l \in Leagues, Ask(r, kind, l)
      PROVE  TypeOK'
  <2>1. NoToken \in Tokens
    BY <1>0 DEF NoToken, Tokens
  <2>2. [at |-> IF kind \in {"read", "import"} THEN "ensure" ELSE "token",
         kind |-> kind, league |-> l, verifies |-> TRUE, token |-> NoToken] \in Asking
    BY <2>1 DEF Asking
  <2> QED
    BY <1>0, <1>1, <1>2, <2>2 DEF Ask, Quiet, Rows, TypeOK
<1>3. CASE Look(r)
  <2>1. /\ requests[r] \in Asking /\ requests[r].league \in Leagues
        /\ UNCHANGED <<yahoo, consent, connection, grants, heard, lock>>
    BY <1>0, <1>3, RequestType DEF Look, Asking
  <2>2. CASE Granted(requests[r].league)
    <3>1. Passes(r) /\ Connected
      BY <1>3, <2>2 DEF Look, Granted
    <3> QED
      BY <1>0, <1>1, <2>1, <3>1, PassesType DEF TypeOK
  <2>3. CASE ~Granted(requests[r].league)
    BY <1>0, <1>1, <1>3, <2>1, <2>3, GoesType DEF Look, Quiet, TypeOK
  <2> QED
    BY <2>2, <2>3
<1>4. CASE LookAgain(r)
  <2>1. /\ requests[r] \in Asking /\ requests[r].league \in Leagues
        /\ UNCHANGED <<yahoo, consent, connection, grants, heard>>
    BY <1>0, <1>4, RequestType DEF LookAgain, Asking
  <2>2. CASE Granted(requests[r].league)
    <3>1. Passes(r) /\ Connected /\ lock' \in {r, None}
      BY <1>4, <2>2 DEF LookAgain, Granted
    <3> QED
      BY <1>0, <1>1, <2>1, <3>1, PassesType
  <2>3. CASE ~Granted(requests[r].league)
    BY <1>0, <1>1, <1>4, <2>1, <2>3, GoesType, EndsType DEF LookAgain, Quiet
  <2> QED
    BY <2>2, <2>3
<1>5. CASE Take(r)
  <2>1. requests[r] \in Asking /\ UNCHANGED <<yahoo, consent, connection, grants, heard>>
    BY <1>0, <1>5, RequestType DEF Take
  <2> QED
    BY <1>0, <1>1, <1>5, <2>1, HoldsType, EndsType DEF Take, Quiet
<1>6. CASE Renew(r)
  <2>1. /\ requests[r] \in Asking /\ connection \in Connections
        /\ UNCHANGED <<yahoo, consent, grants, heard>>
    BY <1>0, <1>6, RequestType, TokenType DEF Renew
  <2>2. connection' \in Connections
    BY <1>6, <2>1 DEF Renew, Connections
  <2>3. Passed
    BY <1>0, <1>6, <2>1, GoesType, EndsType DEF Renew, Quiet
  <2> QED
    BY <1>0, <2>1, <2>2, <2>3 DEF TypeOK, Rows, Openings, Connections
<1>7. CASE Reload(r)
  <2>1. requests[r] \in Asking /\ UNCHANGED <<yahoo, consent, connection, grants, heard>>
    BY <1>0, <1>7, RequestType DEF Reload
  <2> QED
    BY <1>0, <1>1, <1>7, <2>1, HoldsType, EndsType DEF Reload, Quiet
<1>8. CASE Discover(r)
  <2>1. /\ requests[r] \in Asking /\ Connected /\ requests[r].token = Token
        /\ UNCHANGED <<yahoo, consent, connection>> /\ lock' = None
    BY <1>0, <1>8, RequestType DEF Discover, ConsentInvariant, HolderCurrent
  <2>2. Token.generation = connection.generation /\ connection.generation \in 0 .. generations
    BY <1>0, <2>1, TokenType
  <2>3. /\ grants' \in [Leagues -> [generation : 0 .. generations, until : 0 .. MaxTime + Lifetime]]
        /\ heard' \in [Leagues -> [generation : 0 .. generations, at : 0 .. MaxTime]]
    BY <1>0, <1>8, <2>1, <2>2 DEF Discover, NoGrant, TypeOK
  <2>4. Passed
    BY <1>0, <1>8, <2>1, PassesType DEF Discover, Quiet, Rows
  <2> QED
    BY <1>0, <2>1, <2>3, <2>4 DEF TypeOK, Rows, Openings
<1>9. CASE DiscoverFails(r)
  <2>1. /\ Connected /\ UNCHANGED <<yahoo, consent, grants, heard>>
    BY <1>9 DEF DiscoverFails, ConsentInvariant, HolderCurrent
  <2>2. connection' \in Connections
    BY <1>0, <1>9, <2>1, TokenType DEF DiscoverFails, Connections
  <2>3. Passed
    BY <1>0, <1>9, EndsType DEF DiscoverFails, Quiet
  <2> QED
    BY <1>0, <2>1, <2>2, <2>3 DEF TypeOK, Rows, Openings, Connections
<1>10. CASE HandOver(r)
  <2>1. /\ requests[r] \in Asking /\ requests[r].league \in Leagues /\ requests[r].token \in Tokens
        /\ UNCHANGED <<yahoo, consent, connection, grants, heard>>
    BY <1>0, <1>10, RequestType DEF HandOver, Asking
  <2>2. opened' = Nothing \/ opened' \in Openings
    BY <1>0, <1>10, <2>1 DEF HandOver, Opens, Quiet, Openings, TypeOK
  <2> QED
    BY <1>0, <1>1, <1>10, <2>1, <2>2, EndsType DEF HandOver
<1> QED
  BY <1>2, <1>3, <1>4, <1>5, <1>6, <1>7, <1>8, <1>9, <1>10 DEF AskNext

-----------------------------------------------------------------------------
(* The invariant.                                                          *)

(* A consent under way stays the newest: it is started, consumed, replaced *)
(* or cancelled, and connects at most once.                                *)
LEMMA PendingStep ==
  ASSUME YahooAssumption, ConsentInvariant, [Next]_yahooVars
  PROVE  PendingNewest'
<1> USE DEF PendingNewest, consent, yahoo
<1>0. /\ PendingNewest /\ starts \in Nat /\ cancelled \in 0 .. starts /\ generations \in 0 .. starts
      /\ connection # None => connection \in Connections
      /\ pending # None => pending \in [state : 1 .. starts, consumed : BOOLEAN]
  BY DEF ConsentInvariant, TypeOK, YahooAssumption, Connections
<1>1. CASE Start
  BY <1>0, <1>1 DEF Start, Connections
<1>2. CASE Disconnect
  BY <1>2 DEF Disconnect
<1>3. ASSUME UNCHANGED <<starts, cancelled, generations>>,
             pending' = pending \/ (pending # None /\ pending' # None /\ pending'.state = pending.state),
             connection' = connection \/ (connection # None /\ connection'.state = connection.state)
      PROVE  PendingNewest'
  BY <1>0, <1>3
<1>4. ASSUME NEW r \in Requests, NEW s \in 1 .. starts, NEW a \in Accounts, Consume(r, s, a)
      PROVE  PendingNewest'
  BY <1>0, <1>4 DEF Consume
<1>5. ASSUME NEW r \in Requests, Exchange(r) PROVE PendingNewest'
  BY <1>0, <1>5 DEF Exchange
<1>6. ASSUME NEW r \in Requests, Renew(r) \/ DiscoverFails(r) PROVE PendingNewest'
  <2>1. connection # None
    BY <1>6 DEF Renew, DiscoverFails, ConsentInvariant, HolderCurrent, Connected
  <2> QED
    BY <1>0, <1>3, <1>6, <2>1 DEF Renew, DiscoverFails, Connections
<1>7. CASE Expire
  BY <1>0, <1>3, <1>7 DEF Expire, Connected, Connections
<1>8. ASSUME UNCHANGED <<consent, connection>> PROVE PendingNewest'
  BY <1>3, <1>8
<1>9. ASSUME NEW r \in Requests, RequestNext(r) PROVE PendingNewest'
  <2>1. \/ Renew(r) \/ DiscoverFails(r) \/ Exchange(r) \/ UNCHANGED <<consent, connection>>
        \/ \E s \in 1 .. starts, a \in Accounts : Consume(r, s, a)
    BY <1>9 DEF RequestNext, Ask, Look, LookAgain, Take, Reload, Discover, HandOver
  <2> QED
    BY <1>4, <1>5, <1>6, <1>8, <2>1
<1> QED
  BY <1>1, <1>2, <1>7, <1>8, <1>9 DEF Next, Tick, Leave, yahooVars

(* A token that is held stays that of the connection, as the connection    *)
(* changes under the row of the user only.                                 *)
LEMMA HolderStep ==
  ASSUME YahooAssumption, ConsentInvariant, [Next]_yahooVars
  PROVE  HolderCurrent'
<1> USE DEF consent, yahoo
<1>0. TypeOK /\ HolderCurrent /\ requests \in [Requests -> Rows]
  BY DEF ConsentInvariant, TypeOK, Rows
<1>1. ASSUME UNCHANGED <<requests, connection, lock>> PROVE HolderCurrent'
  BY <1>0, <1>1 DEF HolderCurrent, Connected, Token
<1>2. ASSUME NEW r \in Requests, UNCHANGED <<connection, lock>>, requests'[r].at # "holds",
             \A q \in Requests \ {r} : requests'[q] = requests[q]
      PROVE  HolderCurrent'
  BY <1>0, <1>2 DEF HolderCurrent, Connected, Token
<1>3. ASSUME NEW r \in Requests, Free(r) \/ requests[r].at = "holds",
             requests'[r].at = "holds" => lock' = r /\ Connected' /\ requests'[r].token = Token',
             \A q \in Requests \ {r} : requests'[q] = requests[q]
      PROVE  HolderCurrent'
  BY <1>0, <1>3, OneHolder DEF HolderCurrent
<1>4. ASSUME lock = None, requests' = requests PROVE HolderCurrent'
  BY <1>0, <1>4 DEF HolderCurrent, YahooAssumption
<1>5. ASSUME NEW r \in Requests, NEW at, Goes(r, at) PROVE \A q \in Requests \ {r} : requests'[q] = requests[q]
  BY <1>0, <1>5 DEF Goes
<1>6. ASSUME NEW r \in Requests, Ends(r) \/ Holds(r) PROVE \A q \in Requests \ {r} : requests'[q] = requests[q]
  BY <1>0, <1>6 DEF Ends, Holds
<1>7. ASSUME NEW r \in Requests, RequestNext(r) PROVE HolderCurrent'
  <2>1. ASSUME NEW s \in 1 .. starts, NEW a \in Accounts, Consume(r, s, a) PROVE HolderCurrent'
    BY <1>0, <1>2, <2>1 DEF Consume
  <2>2. CASE Exchange(r)
    BY <1>0, <1>3, <1>6, <2>2, EndsType DEF Exchange, Free
  <2>3. ASSUME NEW kind \in {"read", "import", "add", "list"}, NEW l \in Leagues, Ask(r, kind, l)
        PROVE  HolderCurrent'
    BY <1>0, <1>2, <2>3 DEF Ask
  <2>4. CASE Look(r)
    <3>1. requests[r] \in Asking /\ UNCHANGED <<connection, lock>>
      BY <1>0, <2>4, RequestType DEF Look
    <3>2. CASE Granted(requests[r].league)
      BY <1>0, <1>2, <2>4, <3>1, <3>2, PassesType DEF Look, Granted
    <3>3. CASE ~Granted(requests[r].league)
      BY <1>0, <1>2, <1>5, <2>4, <3>1, <3>3, GoesType DEF Look
    <3> QED
      BY <3>2, <3>3
  <2>5. CASE LookAgain(r)
    <3>1. requests[r] \in Asking /\ UNCHANGED connection /\ Free(r)
      BY <1>0, <2>5, RequestType DEF LookAgain, Free
    <3>2. CASE Granted(requests[r].league)
      BY <1>0, <1>3, <2>5, <3>1, <3>2, PassesType DEF LookAgain, Granted
    <3>3. CASE ~Granted(requests[r].league)
      BY <1>0, <1>3, <1>5, <1>6, <2>5, <3>1, <3>3, GoesType, EndsType DEF LookAgain
    <3> QED
      BY <3>2, <3>3
  <2>6. CASE Take(r) \/ Reload(r)
    <3>1. /\ requests[r] \in Asking /\ UNCHANGED connection /\ Free(r)
          /\ Ends(r) \/ (Connected /\ Holds(r))
      BY <1>0, <2>6, RequestType DEF Take, Reload, Free
    <3> QED
      BY <1>0, <1>3, <1>6, <3>1, EndsType, HoldsType DEF Connected, Token
  <2>7. CASE Renew(r)
    <3>1. requests[r] \in Asking /\ Free(r) /\ (Goes(r, "renewed") \/ Ends(r))
      BY <1>0, <2>7, RequestType DEF Renew
    <3> QED
      BY <1>0, <1>3, <1>5, <1>6, <3>1, GoesType, EndsType
  <2>8. CASE Discover(r)
    <3>1. requests[r] \in Asking /\ requests[r].at = "holds" /\ Connected
      BY <1>0, <2>8, RequestType DEF Discover, HolderCurrent
    <3>2. Passes(r) \/ requests' = [requests EXCEPT ![r] = Idle]
      BY <2>8 DEF Discover
    <3> QED
      BY <1>0, <1>3, <3>1, <3>2, PassesType DEF Idle
  <2>9. CASE DiscoverFails(r) \/ HandOver(r)
    <3>1. requests[r].at = "holds" /\ Ends(r)
      BY <2>9 DEF DiscoverFails, HandOver
    <3> QED
      BY <1>0, <1>3, <1>6, <3>1, EndsType
  <2> QED
    BY <1>7, <2>1, <2>2, <2>3, <2>4, <2>5, <2>6, <2>7, <2>8, <2>9 DEF RequestNext
<1> QED
  BY <1>1, <1>4, <1>7 DEF Next, Start, Disconnect, Expire, Tick, Leave, yahooVars

(* What is granted was listed: a new connection and a disconnect end all   *)
(* grants, and a listing replaces them.                                    *)
LEMMA GrantsStep ==
  ASSUME YahooAssumption, ConsentInvariant, [Next]_yahooVars
  PROVE  GrantsHeard'
<1> USE DEF consent, yahoo
<1>1. CASE UNCHANGED <<grants, heard>>
  BY <1>1 DEF ConsentInvariant, GrantsHeard
<1>2. CASE grants' = [l \in Leagues |-> NoGrant]
  BY <1>2 DEF GrantsHeard
<1>3. ASSUME NEW r \in Requests, Discover(r) PROVE GrantsHeard'
  <2>1. requests[r].token.generation = connection.generation
    BY <1>3 DEF Discover, ConsentInvariant, HolderCurrent, Token
  <2>2. ASSUME NEW l \in Leagues, grants'[l] # NoGrant
        PROVE  /\ heard'[l].generation = grants'[l].generation
               /\ heard'[l].at + Lifetime = grants'[l].until
    BY <1>3, <2>1, <2>2 DEF Discover
  <2> QED
    BY <2>2 DEF GrantsHeard
<1> QED
  BY <1>1, <1>2, <1>3 DEF Next, Start, Disconnect, Expire, Tick, Leave, RequestNext, Consume, Exchange,
     Ask, Look, LookAgain, Take, Renew, Reload, DiscoverFails, HandOver, yahooVars

(* Every step keeps the invariant.                                         *)
LEMMA ConsentStep ==
  ASSUME YahooAssumption, ConsentInvariant, [Next]_yahooVars
  PROVE  ConsentInvariant'
<1>1. TypeOK'
  <2>1. CASE UNCHANGED yahooVars
    BY <2>1 DEF yahooVars, ConsentInvariant, TypeOK
  <2>2. ASSUME NEW r \in Requests, RequestNext(r) PROVE TypeOK'
    <3>1. AskNext(r) \/ Exchange(r) \/ \E s \in 1 .. starts, a \in Accounts : Consume(r, s, a)
      BY <2>2 DEF RequestNext, AskNext
    <3> QED
      BY <3>1, AskTypes, ConsentTypes
  <2> QED
    BY <2>1, <2>2, ConsentTypes DEF Next
<1> QED
  BY <1>1, PendingStep, HolderStep, GrantsStep DEF ConsentInvariant

(* Nothing is connected at first.                                          *)
LEMMA ConsentInit ==
  ASSUME YahooAssumption, Init
  PROVE  ConsentInvariant
<1>1. TypeOK
  BY DEF YahooAssumption, Init, TypeOK, NoGrant
<1> QED
  BY <1>1 DEF Init, ConsentInvariant, PendingNewest, HolderCurrent, GrantsHeard, Idle

-----------------------------------------------------------------------------
(* Theorems.                                                               *)

(* The connection, its grants and the requests agree, for any requests,    *)
(* leagues and accounts and any lifetime of a grant.                       *)
THEOREM ConsentIsSound == YahooAssumption => (Spec => []ConsentInvariant)
<1> SUFFICES ASSUME YahooAssumption PROVE Spec => []ConsentInvariant
  OBVIOUS
<1>1. Init => ConsentInvariant
  BY ConsentInit
<1>2. ConsentInvariant /\ [Next]_yahooVars => ConsentInvariant'
  BY ConsentStep
<1> QED
  BY <1>1, <1>2, PTL DEF Spec

(* Every state is typed (yahoo_connection.py and its tables).              *)
THEOREM ConnectionTypes == YahooAssumption => (Spec => []TypeOK)
<1>1. ConsentInvariant => TypeOK
  BY DEF ConsentInvariant
<1> QED
  BY <1>1, ConsentIsSound, PTL

(* A connection is made by the newest consent.                             *)
LEMMA NewestConnects ==
  ASSUME YahooAssumption, ConsentInvariant, [Next]_yahooVars
  PROVE  MadeByConsent
<1>1. CASE UNCHANGED generations
  BY <1>1 DEF MadeByConsent
<1>2. ASSUME NEW r \in Requests, Exchange(r), generations' # generations PROVE MadeByConsent
  <2>1. /\ connection'.state = requests[r].state /\ pending # None
        /\ pending.state = requests[r].state /\ UNCHANGED <<starts, cancelled>>
    BY <1>2 DEF Exchange, Wanted
  <2>2. /\ pending.state = starts /\ cancelled < starts /\ starts \in Nat /\ cancelled \in Nat
        /\ connection # None => connection.state < starts /\ connection.state \in Nat
    BY <2>1 DEF ConsentInvariant, PendingNewest, TypeOK, YahooAssumption
  <2> QED
    BY <2>1, <2>2 DEF MadeByConsent
<1> QED
  BY <1>1, <1>2 DEF Next, Start, Disconnect, Expire, Tick, Leave, RequestNext, Consume, Ask, Look,
     LookAgain, Take, Renew, Reload, Discover, DiscoverFails, HandOver, consent, yahooVars

(* What is opened was listed to the connection there is.                   *)
LEMMA ProofIsFresh ==
  ASSUME YahooAssumption, ConsentInvariant, [Next]_yahooVars, ~UNCHANGED yahooVars
  PROVE  OpenedOnProof
<1> USE DEF consent, yahoo
<1>0. TypeOK
  BY DEF ConsentInvariant
<1>1. CASE opened' = Nothing
  BY <1>1 DEF OpenedOnProof
<1>2. ASSUME NEW l \in Leagues, Granted(l), UNCHANGED <<clock, connection, heard>>,
             opened'.league = l, opened'.token = Token
      PROVE  OpenedOnProof
  <2>1. Connected' /\ Token' = Token /\ Token.generation = connection.generation
    BY <1>2, GrantedIsHeard DEF Connected, Token
  <2> QED
    BY <1>2, <2>1, GrantedIsHeard DEF OpenedOnProof
<1>3. ASSUME NEW r \in Requests, Look(r) \/ LookAgain(r), opened' # Nothing PROVE OpenedOnProof
  <2>1. /\ requests[r] \in Asking /\ requests[r].league \in Leagues
        /\ Granted(requests[r].league) /\ Passes(r) /\ UNCHANGED <<clock, connection, heard>>
    BY <1>0, <1>3, RequestType DEF Look, LookAgain, Quiet, Asking
  <2> QED
    BY <1>0, <1>2, <1>3, <2>1, PassesType DEF Granted
<1>4. ASSUME NEW r \in Requests, HandOver(r), opened' # Nothing PROVE OpenedOnProof
  <2>1. /\ requests[r] \in Asking /\ requests[r].league \in Leagues /\ requests[r].token = Token
        /\ UNCHANGED <<clock, connection, heard>>
    BY <1>0, <1>4, RequestType DEF HandOver, Asking, ConsentInvariant, HolderCurrent
  <2>2. /\ Granted(requests[r].league)
        /\ opened' = [kind |-> "import", league |-> requests[r].league, token |-> Token, at |-> clock]
    BY <1>4, <2>1 DEF HandOver, StillGranted, Opens, Quiet
  <2> QED
    BY <1>2, <2>1, <2>2
<1>5. ASSUME NEW r \in Requests, Discover(r), opened' # Nothing PROVE OpenedOnProof
  <2>1. /\ requests[r] \in Asking /\ Connected /\ requests[r].token = Token
        /\ UNCHANGED <<clock, connection>>
    BY <1>0, <1>5, RequestType DEF Discover, ConsentInvariant, HolderCurrent
  <2>2. Passes(r) /\ requests[r].league \in membership[requests[r].token.account]
    BY <1>5 DEF Discover, Quiet
  <2>3. opened'.token = Token /\ opened'.league = requests[r].league
    BY <1>0, <1>5, <2>1, <2>2, PassesType
  <2>4. requests[r].league \in Leagues
    BY <2>1 DEF Asking
  <2>5. heard'[requests[r].league] = [generation |-> Token.generation, at |-> clock]
    BY <1>5, <2>1, <2>2, <2>4 DEF Discover
  <2>6. Connected' /\ Token' = Token
    BY <2>1 DEF Connected, Token
  <2>7. clock + Lifetime > clock
    BY <1>0 DEF TypeOK, YahooAssumption
  <2> QED
    BY <2>1, <2>3, <2>5, <2>6, <2>7 DEF OpenedOnProof
<1> QED
  BY <1>1, <1>3, <1>4, <1>5 DEF Next, Start, Disconnect, Expire, Tick, Leave, RequestNext, Consume,
     Exchange, Ask, Take, Renew, Reload, DiscoverFails, Quiet

(* No step connects or opens anything else.                                *)
LEMMA ConsentFollows ==
  ASSUME YahooAssumption, ConsentInvariant, [Next]_yahooVars
  PROVE  [FollowsConsent]_yahooVars
BY NewestConnects, ProofIsFresh DEF FollowsConsent

(* However consents, disconnects and renewals interleave with requests     *)
(* that talk to Yahoo, only the newest consent connects, and a league is   *)
(* opened on a fresh listing to the account that is connected              *)
(* (yahoo_connection.py complete, ensure_grant, connected_client).         *)
THEOREM ConsentIsFollowed == YahooAssumption => (Spec => ConnectionFollowsConsent)
<1> SUFFICES ASSUME YahooAssumption PROVE Spec => ConnectionFollowsConsent
  OBVIOUS
<1>1. ConsentInvariant /\ [Next]_yahooVars => [FollowsConsent]_yahooVars
  BY ConsentFollows
<1> QED
  BY <1>1, ConsentIsSound, PTL DEF Spec, ConnectionFollowsConsent
=============================================================================
