----------------------------- MODULE Publication -----------------------------
(***************************************************************************)
(* One edition of the weekly recap on its way to its readers: the article  *)
(* revisions of the ledger and the files they are projected to, the outbox *)
(* and its drain, the owner's reviews, the selection of a finished video,  *)
(* the members' sharing decisions and what a reader is served.             *)
(*                                                                         *)
(* Every action is one transaction under the control lock.  A file is      *)
(* written inside the transaction that acknowledges it, so a process that  *)
(* dies in between leaves the file alone behind.                           *)
(*                                                                         *)
(* Simplifications.  An article is its revision number; a finished video   *)
(* is the revision it narrates.  Facts never return to an earlier value.   *)
(* A token is the revision of the sharing decision that made it.  Which    *)
(* policy or control setting changed is left out: any change changes the   *)
(* digest a selection is bound to.  Editions imported from the file-only   *)
(* publisher, restores and standing qualification are not in this module.  *)
(***************************************************************************)
EXTENDS Integers, Sequences

CONSTANTS Audiences,     \* the audiences a selection is reviewed for
          Gates,         \* the positions of the serving gate
          MaxRevisions,  \* bound on article revisions
          MaxFacts,      \* bound on the competitive facts of the period
          MaxSource,     \* bound on observations of the period
          MaxSettings,   \* bound on policy and control revisions
          MaxShare,      \* bound on edition sharing decisions
          MaxFuture,     \* bound on future sharing decisions
          MaxApprovals,  \* bound on recorded reviews
          MaxRetries     \* bound on the owner's projection retries

ASSUME PublicationAssumption ==
  /\ Audiences \subseteq {"public", "members"}
  /\ TRUE \in Gates /\ Gates \subseteq BOOLEAN
  /\ {MaxFacts, MaxSource, MaxSettings} \subseteq Nat \ {0}
  /\ {MaxRevisions, MaxShare, MaxFuture, MaxApprovals, MaxRetries} \subseteq Nat

VARIABLES episode,    \* the period: facts, source revision, hold, published article
          artifacts,  \* article revisions of the ledger, oldest first
          head,       \* the revision the ledger holds current, 0 for none
          archive,    \* what the file of each revision holds
          outbox,     \* the projections to be done, oldest first
          pass,       \* the outbox items a running drain has still to visit
          film,       \* the revision narrated by the finished video, 0 for none
          approvals,  \* the recorded reviews
          edition,    \* the publication row of the edition
          pointer,    \* the projected pointer file
          share,      \* the edition's sharing decision
          future,     \* the league's permission for editions to come
          settings,   \* policy and control revision, and whether it pauses
          serving,    \* whether the serving gate is open
          history,    \* how the edition came to be shared; the articles whose video was
                      \* resumed, and whether one awaits it
          retries     \* projection retries so far

vars == <<episode, artifacts, head, archive, outbox, pass, film, approvals, edition,
          pointer, share, future, settings, serving, history, retries>>

Revisions == 1 .. MaxRevisions
Nothing == 0

-----------------------------------------------------------------------------
(* "source": the period is not, or no longer, completely observed;         *)
(* "unstable": its facts were not yet observed twice.                      *)
Holds == {"", "source", "unstable", "facts_changed"}
ItemStates == {"pending", "delivered", "held", "superseded"}
Items == [kind : {"article"}, revision : Revisions, state : ItemStates]
           \cup [kind : {"selection"}, authority : Nat, state : ItemStates]
Reviews == [authority : Nat, film : 0 .. MaxRevisions, article : Revisions, facts : Nat,
            source : Nat, settings : Nat, share : Nat, future : Nat,
            audience : Audiences, standing : BOOLEAN, consumed : BOOLEAN]
NoEdition == [exists |-> FALSE, article |-> 0, facts |-> 0, film |-> 0, approval |-> 0,
              settings |-> 0, share |-> 0, authority |-> 0, projected |-> 0,
              enabled |-> TRUE, withdrawn |-> FALSE]
NoPointer == [authority |-> 0, article |-> 0, film |-> 0]

Init ==
  /\ episode = [facts |-> 1, source |-> 1, hold |-> "", article |-> Nothing]
  /\ artifacts = <<>> /\ head = Nothing
  /\ archive = [r \in Revisions |-> "absent"]
  /\ outbox = <<>> /\ pass = {}
  /\ film = Nothing
  /\ approvals = <<>>
  /\ edition = NoEdition /\ pointer = NoPointer
  /\ share = [revision |-> 0, allowed |-> FALSE]
  /\ future = [revision |-> 0, allowed |-> FALSE]
  /\ settings = [revision |-> 1, paused |-> FALSE]
  /\ serving = TRUE
  /\ history = [consent |-> "unasked", suspended |-> FALSE, resumed |-> {}]
  /\ retries = 0

-----------------------------------------------------------------------------
(* What several handlers ask.                                              *)

ItemOf(r) == {i \in DOMAIN outbox : outbox[i].kind = "article" /\ outbox[i].revision = r}
Delivered(r) == \E i \in ItemOf(r) : outbox[i].state = "delivered"

\* The episode's article is the ledger's current one, projected, from these facts.
ArticlePublished ==
  /\ episode.article # Nothing
  /\ head = episode.article
  /\ Delivered(head)
  /\ artifacts[head].facts = episode.facts

\* The text of a revision may still be published: "", or why it may not.
FaultyTextHold(r) ==
  IF settings.paused THEN "held" ELSE IF episode.hold = "source" THEN "pending" ELSE ""
TextHold(r) ==
  IF settings.paused THEN "held"
  ELSE IF episode.hold = "source" THEN "pending"
  ELSE IF artifacts[r].facts = episode.facts THEN ""
  ELSE IF episode.hold = "unstable" THEN "pending" ELSE "held"

Unsettled == episode.hold \in {"source", "unstable"}

\* Media is admitted only on facts nothing has unsettled since.
MediaHold(facts) ==
  IF settings.paused THEN "held"
  ELSE IF Unsettled THEN "pending"
  ELSE IF episode.hold # "" \/ facts # episode.facts THEN "held"
  ELSE ""

FilmCurrent(f) == f # Nothing /\ f = episode.article /\ ArticlePublished /\ MediaHold(episode.facts) = ""

\* The edition still shows the article it was selected with.
ArticleCurrent ==
  /\ edition.facts = episode.facts
  /\ edition.article = episode.article
  /\ ArticlePublished

Withdrawn(e) == [e EXCEPT !.withdrawn = TRUE, !.authority = @ + 1]
NeedsWithdrawal == edition.exists /\ ~edition.withdrawn

-----------------------------------------------------------------------------
(* Article revisions.                                                      *)

FaultyNextRevision == Len(artifacts) + 2
NextRevision == Len(artifacts) + 1

SaveArticle ==
  /\ NextRevision \in Revisions
  /\ ~settings.paused
  /\ \/ episode.hold = ""
     \/ /\ episode.hold = "facts_changed"   \* an automatic correction of what was delivered
        /\ head # Nothing /\ head = episode.article /\ Delivered(head)
  /\ artifacts' = Append(artifacts, [facts |-> episode.facts, previous |-> head])
  /\ head' = NextRevision
  /\ outbox' = Append(outbox, [kind |-> "article", revision |-> NextRevision, state |-> "pending"])
  /\ UNCHANGED <<episode, archive, pass, film, approvals, edition, pointer, share, future,
                 settings, serving, history, retries>>

(***************************************************************************)
(* project_analyst: an immutable file per revision, written once after its *)
(* predecessor; a file another transaction left behind is never replaced.  *)
(***************************************************************************)
FaultyProjectionConflict(r, previous) ==
  archive[r] = "orphan" \/ \E s \in Revisions : s > r /\ archive[s] # "absent"
ProjectionConflict(r, previous) ==
  \/ archive[r] = "orphan"
  \/ /\ archive[r] = "absent"
     /\ \/ previous # Nothing /\ archive[previous] # "ledger"
        \/ \E s \in Revisions : s >= r /\ archive[s] # "absent"

(* revise: the operator's reviewed correction of a text, projected inside  *)
(* the transaction that records it.                                        *)
Revise(committed) ==
  /\ serving
  /\ episode.hold = "facts_changed"
  /\ ~edition.exists
  /\ film = Nothing
  /\ head # Nothing /\ head = episode.article /\ Delivered(head)
  /\ NextRevision \in Revisions
  /\ ~ProjectionConflict(NextRevision, head)
  /\ IF committed
       THEN /\ archive' = [archive EXCEPT ![NextRevision] = "ledger"]
            /\ artifacts' = Append(artifacts, [facts |-> episode.facts, previous |-> head])
            /\ head' = NextRevision
            /\ episode' = [episode EXCEPT !.article = NextRevision]
            /\ outbox' = Append(outbox, [kind |-> "article", revision |-> NextRevision,
                                         state |-> "delivered"])
       ELSE /\ archive' = [archive EXCEPT ![NextRevision] = "orphan"]
            /\ UNCHANGED <<artifacts, head, episode, outbox>>
  /\ UNCHANGED <<pass, film, approvals, edition, pointer, share, future, settings, serving,
                 history, retries>>

(* resume_video: a first video may be made from the corrected article, and *)
(* the audit keeps for which one.                                          *)
ResumeVideo ==
  /\ episode.hold = "facts_changed"
  /\ ArticlePublished
  /\ ~settings.paused
  /\ film = Nothing
  /\ edition.film = Nothing /\ ~edition.withdrawn
  /\ episode' = [episode EXCEPT !.hold = ""]
  /\ history' = [history EXCEPT !.suspended = FALSE, !.resumed = @ \cup {episode.article}]
  /\ UNCHANGED <<artifacts, head, archive, outbox, pass, film, approvals, edition, pointer,
                 share, future, settings, serving, retries>>

(* The media stages finish a video of the published article.               *)
FinishFilm ==
  /\ ArticlePublished
  /\ MediaHold(episode.facts) = ""
  /\ film # episode.article
  /\ film' = episode.article
  /\ UNCHANGED <<episode, artifacts, head, archive, outbox, pass, approvals, edition, pointer,
                 share, future, settings, serving, history, retries>>

-----------------------------------------------------------------------------
(* Observations of the period.                                             *)

Observed == [episode EXCEPT !.source = @ + 1]

ObserveSame ==
  /\ episode.source < MaxSource
  /\ episode' = [Observed EXCEPT !.hold = CASE @ = "source" -> "unstable"
                                            [] @ = "unstable" -> ""
                                            [] OTHER -> @]
  /\ UNCHANGED <<artifacts, head, archive, outbox, pass, film, approvals, edition, pointer,
                 share, future, settings, serving, history, retries>>

ObserveIncomplete ==
  /\ episode.source < MaxSource
  /\ episode' = [Observed EXCEPT !.hold = "source"]
  /\ UNCHANGED <<artifacts, head, archive, outbox, pass, film, approvals, edition, pointer,
                 share, future, settings, serving, history, retries>>

\* retire_unprojected: the head was never delivered and its facts are gone.
Retired ==
  {i \in DOMAIN outbox : /\ outbox[i].kind = "article" /\ outbox[i].revision = head
                         /\ outbox[i].state # "delivered"
                         /\ artifacts[head].previous # Nothing
                         /\ artifacts[head].previous = episode.article}

ObserveChange ==
  LET invalidated == edition.exists \/ episode.article # Nothing \/ film # Nothing IN
  /\ episode.source < MaxSource
  /\ episode.facts < MaxFacts
  /\ NeedsWithdrawal => serving
  /\ edition' = IF NeedsWithdrawal THEN Withdrawn(edition) ELSE edition
  /\ episode' = [Observed EXCEPT !.facts = @ + 1,
                                 !.hold = IF invalidated THEN "facts_changed" ELSE "unstable"]
  /\ history' = [history EXCEPT !.suspended = @ \/ invalidated]
  /\ outbox' = [i \in DOMAIN outbox |->
                  IF i \in Retired THEN [outbox[i] EXCEPT !.state = "superseded"]
                  ELSE outbox[i]]
  /\ head' = IF Retired # {} THEN artifacts[head].previous ELSE head
  /\ UNCHANGED <<artifacts, archive, pass, film, approvals, pointer, share, future, settings,
                 serving, retries>>

-----------------------------------------------------------------------------
(* Reviews and selections.                                                 *)

\* Sharing an edition publicly rests on its own decision, or on the league's.
MayBePublic ==
  /\ ~(share.revision > 0 /\ ~share.allowed)
  /\ share.allowed \/ future.allowed

\* current_scope: everything a review is bound to, as it is now.
Scope(audience, f) ==
  [authority |-> edition.authority, film |-> f, article |-> episode.article,
   facts |-> episode.facts, source |-> episode.source, settings |-> settings.revision,
   share |-> share.revision, future |-> future.revision, audience |-> audience]

ScopeHolds(audience, f) ==
  /\ serving
  /\ MediaHold(episode.facts) = ""
  /\ ArticlePublished
  /\ f # Nothing => FilmCurrent(f)
  /\ audience = "public" => MayBePublic

BoundTo(p) == [field \in DOMAIN p \ {"standing", "consumed"} |-> p[field]]

\* first_video_resume_authorized: a resume is for the article, and the facts, it was
\* given for. An article that ScopeHolds of was written from the facts of today.
Resumed == episode.article \in history.resumed

\* record_standing_approval: only a first video, of a first article or, for the
\* members, of a resumed one, never over anything a reader has already been shown.
FaultyStandingMay(audience, f) ==
  /\ f # Nothing
  /\ episode.article = 1 \/ (audience = "members" /\ history.resumed # {})
  /\ edition.exists => /\ ~edition.withdrawn /\ edition.film = Nothing
                       /\ edition.article = episode.article
StandingMay(audience, f) ==
  /\ f # Nothing
  /\ episode.article = 1 \/ (audience = "members" /\ Resumed)
  /\ edition.exists => /\ ~edition.withdrawn /\ edition.film = Nothing
                       /\ edition.article = episode.article

(***************************************************************************)
(* record_approval for the owner's review of a preview, and                *)
(* record_standing_approval for the API's own: the review is recorded in a *)
(* transaction of its own and selects nothing.                             *)
(***************************************************************************)
Approve(audience, f, standing) ==
  /\ Len(approvals) < MaxApprovals
  /\ f \in {Nothing, film}
  /\ ScopeHolds(audience, f)
  /\ standing => StandingMay(audience, f)
  /\ approvals' = Append(approvals, [authority |-> edition.authority, film |-> f,
                     article |-> episode.article, facts |-> episode.facts,
                     source |-> episode.source, settings |-> settings.revision,
                     share |-> share.revision, future |-> future.revision,
                     audience |-> audience, standing |-> standing, consumed |-> FALSE])
  /\ UNCHANGED <<episode, artifacts, head, archive, outbox, pass, film, edition, pointer, share,
                 future, settings, serving, history, retries>>

(***************************************************************************)
(* select_publication: in a later transaction, when nothing the review was *)
(* bound to has changed.  Nobody's decision yet: the league's permission   *)
(* makes the edition's first one.                                          *)
(***************************************************************************)
Select(i) ==
  LET p == approvals[i]
      first == share.revision = 0 /\ p.audience = "public"
      shared == IF first THEN [revision |-> 1, allowed |-> TRUE] ELSE share
  IN /\ ~p.consumed
     /\ p.film \in {Nothing, film}
     /\ ScopeHolds(p.audience, p.film)
     /\ BoundTo(p) = Scope(p.audience, p.film)
     /\ shared.revision <= MaxShare
     /\ approvals' = [approvals EXCEPT ![i].consumed = TRUE]
     /\ share' = shared
     /\ history' = IF first /\ future.allowed THEN [history EXCEPT !.consent = "granted"]
                   ELSE history
     /\ edition' = [exists |-> TRUE, article |-> p.article, facts |-> p.facts, film |-> p.film,
                    approval |-> i, settings |-> p.settings, share |-> shared.revision,
                    authority |-> edition.authority + 1, projected |-> 0,
                    enabled |-> shared.allowed, withdrawn |-> FALSE]
     /\ outbox' = Append(outbox, [kind |-> "selection", authority |-> edition.authority + 1,
                                  state |-> "pending"])
     /\ UNCHANGED <<episode, artifacts, head, archive, pass, film, pointer, future, settings,
                    serving, retries>>

-----------------------------------------------------------------------------
(* Members' decisions.                                                     *)

\* The edition follows a sharing decision under a new authority; what was
\* projected stays projected, and what was not is projected by no item any more.
Followed(e, revision) ==
  [e EXCEPT !.share = revision, !.authority = @ + 1,
            !.projected = IF @ = e.authority THEN e.authority + 1 ELSE @]

\* article_share_bootstrap: the published article becomes an edition of its own.
Bootstrap == [NoEdition EXCEPT !.exists = TRUE, !.article = episode.article,
                               !.facts = episode.facts, !.settings = settings.revision]

(***************************************************************************)
(* change_share.  A repeated enabling changes nothing; every other         *)
(* decision is a new revision with a new token, or none.                   *)
(***************************************************************************)
ChangeShare(enabled) ==
  LET bootstrapped == enabled /\ ~edition.exists
      repeated == enabled /\ share.allowed
      revision == IF repeated THEN share.revision ELSE share.revision + 1
      row == IF bootstrapped THEN Bootstrap ELSE edition
  IN /\ serving
     /\ bootstrapped => MediaHold(episode.facts) = "" /\ ArticlePublished
     /\ repeated => bootstrapped
     /\ revision <= MaxShare
     /\ share' = [revision |-> revision, allowed |-> enabled]
     /\ edition' = IF row.exists THEN Followed(row, revision) ELSE edition
     /\ history' = [history EXCEPT !.consent = IF enabled THEN "in" ELSE "out"]
     /\ UNCHANGED <<episode, artifacts, head, archive, outbox, pass, film, approvals, pointer,
                    future, settings, serving, retries>>

SetFuture(allowed) ==
  /\ serving
  /\ future.revision < MaxFuture
  /\ future' = [revision |-> future.revision + 1, allowed |-> allowed]
  /\ UNCHANGED <<episode, artifacts, head, archive, outbox, pass, film, approvals, edition,
                 pointer, share, settings, serving, history, retries>>

-----------------------------------------------------------------------------
(* The projector.                                                          *)

Pending == {i \in DOMAIN outbox : outbox[i].state = "pending"}
Marked(i, state) == [outbox EXCEPT ![i].state = state]

\* A drain visits its items oldest first.
Turn(i) == i \in pass /\ \A j \in pass : i <= j

StartDrain ==
  /\ pass = {} /\ Pending # {}
  /\ pass' = Pending
  /\ UNCHANGED <<episode, artifacts, head, archive, outbox, film, approvals, edition, pointer,
                 share, future, settings, serving, history, retries>>

(***************************************************************************)
(* An article item.  The edition of an older article is withdrawn first,   *)
(* and stays withdrawn when the projection is then held back; another      *)
(* process may hold the archive's lock.                                    *)
(***************************************************************************)
Supersedes(r) == episode.article \notin {Nothing, r}

ProjectArticle(i, busy) ==
  LET r == outbox[i].revision
      hold == TextHold(r)
      withdraws == Supersedes(r) /\ NeedsWithdrawal
      stopped == withdraws /\ ~serving
      conflict == ProjectionConflict(r, artifacts[r].previous)
      done == hold = "" /\ ~stopped /\ ~busy /\ ~conflict
  IN /\ Turn(i) /\ outbox[i].kind = "article"
     /\ busy => hold = "" /\ ~stopped
     /\ pass' = pass \ {i}
     /\ edition' = IF hold = "" /\ withdraws /\ serving THEN Withdrawn(edition) ELSE edition
     /\ archive' = IF done THEN [archive EXCEPT ![r] = "ledger"] ELSE archive
     /\ episode' = IF done THEN [episode EXCEPT !.article = r] ELSE episode
     /\ outbox' = CASE done -> Marked(i, "delivered")
                    [] hold = "held" \/ (hold = "" /\ ~stopped /\ ~busy /\ conflict)
                         -> Marked(i, "held")
                    [] OTHER -> outbox
     /\ UNCHANGED <<artifacts, head, film, approvals, pointer, share, future, settings, serving,
                    history, retries>>

\* project_publication: why the current selection may not be installed, "" if it may.
FaultySelectionHold(p) ==
  IF ~serving \/ settings.paused \/ settings.revision # edition.settings
     \/ episode.source # p.source THEN "pending"
  ELSE IF edition.withdrawn \/ ~ArticleCurrent \/ ~p.consumed \/ future.revision # p.future
  THEN "held"
  ELSE MediaHold(episode.facts)
SelectionHold(p) ==
  IF ~serving THEN "pending"
  ELSE IF edition.withdrawn
          \/ /\ p.audience # "members"
             /\ ~edition.enabled \/ ~share.allowed \/ share.revision # edition.share
       THEN "held"
  ELSE IF ~ArticleCurrent \/ ~p.consumed \/ future.revision # p.future THEN "held"
  ELSE IF settings.paused \/ settings.revision # edition.settings THEN "pending"
  ELSE IF episode.source # p.source THEN "held"
  ELSE IF MediaHold(episode.facts) # "" THEN MediaHold(episode.facts)
  ELSE IF edition.film # Nothing /\ film # edition.film THEN "held"
  ELSE ""

ProjectSelection(i) ==
  LET obsolete == outbox[i].authority # edition.authority
      hold == SelectionHold(approvals[edition.approval])
  IN /\ Turn(i) /\ outbox[i].kind = "selection"
     /\ pass' = pass \ {i}
     /\ IF obsolete \/ hold # ""
          THEN /\ outbox' = IF obsolete /\ serving THEN Marked(i, "delivered")
                            ELSE IF obsolete THEN outbox
                            ELSE Marked(i, hold)
               /\ UNCHANGED <<pointer, edition>>
          ELSE /\ outbox' = Marked(i, "delivered")
               /\ pointer' = [authority |-> edition.authority, article |-> edition.article,
                              film |-> edition.film]
               /\ edition' = [edition EXCEPT !.projected = edition.authority]
     /\ UNCHANGED <<episode, artifacts, head, archive, film, approvals, share, future, settings,
                    serving, history, retries>>

\* The process dies before it commits what it has just written, or between items.
DrainDies(i) ==
  LET r == outbox[i].revision
  IN /\ Turn(i)
     /\ pass' = {}
     /\ \/ UNCHANGED <<archive, pointer>>
        \/ /\ outbox[i].kind = "article"
           /\ TextHold(r) = ""
           /\ Supersedes(r) /\ NeedsWithdrawal => serving
           /\ ~ProjectionConflict(r, artifacts[r].previous)
           /\ archive' = [archive EXCEPT ![r] = "ledger"]
           /\ UNCHANGED pointer
        \/ /\ outbox[i].kind = "selection"
           /\ outbox[i].authority = edition.authority
           /\ SelectionHold(approvals[edition.approval]) = ""
           /\ pointer' = [authority |-> edition.authority, article |-> edition.article,
                          film |-> edition.film]
           /\ UNCHANGED archive
     /\ UNCHANGED <<episode, artifacts, head, outbox, film, approvals, edition, share, future,
                    settings, serving, history, retries>>

-----------------------------------------------------------------------------
(* The owner and the deployment.                                           *)

RetryProjection(i) ==
  /\ retries < MaxRetries
  /\ outbox[i].state \in {"held", "superseded"}
  /\ outbox' = Marked(i, "pending")
  /\ retries' = retries + 1
  /\ UNCHANGED <<episode, artifacts, head, archive, pass, film, approvals, edition, pointer,
                 share, future, settings, serving, history>>

ChangeSettings(paused) ==
  /\ settings.revision < MaxSettings
  /\ settings' = [revision |-> settings.revision + 1, paused |-> paused]
  /\ UNCHANGED <<episode, artifacts, head, archive, outbox, pass, film, approvals, edition,
                 pointer, share, future, serving, history, retries>>

SwitchServing ==
  /\ serving' \in Gates \ {serving}
  /\ UNCHANGED <<episode, artifacts, head, archive, outbox, pass, film, approvals, edition,
                 pointer, share, future, settings, history, retries>>

-----------------------------------------------------------------------------
Projector ==
  \/ StartDrain
  \/ \E i \in pass, busy \in BOOLEAN : ProjectArticle(i, busy)
  \/ \E i \in pass : ProjectSelection(i) \/ DrainDies(i)

Period == ObserveSame \/ ObserveIncomplete \/ ObserveChange \/ SaveArticle \/ FinishFilm
Owner ==
  \/ \E committed \in BOOLEAN : Revise(committed)
  \/ ResumeVideo
  \/ \E a \in Audiences, f \in 0 .. MaxRevisions, standing \in BOOLEAN : Approve(a, f, standing)
  \/ \E i \in DOMAIN approvals : Select(i)
  \/ \E i \in DOMAIN outbox : RetryProjection(i)
  \/ \E paused \in BOOLEAN : ChangeSettings(paused)
  \/ SwitchServing
Members == \E allowed \in BOOLEAN : ChangeShare(allowed) \/ SetFuture(allowed)

Next == Period \/ Owner \/ Members \/ Projector

Spec == Init /\ [][Next]_vars

(* The projector keeps ticking, and does not die before the same item, nor *)
(* find the archive locked, every time it comes to it.                     *)
MaxItems == MaxRevisions + MaxApprovals
Visit(i) == ProjectArticle(i, FALSE) \/ ProjectSelection(i)
Fairness == WF_vars(StartDrain) /\ \A i \in 1 .. MaxItems : SF_vars(Visit(i))
FairSpec == Spec /\ Fairness

-----------------------------------------------------------------------------
(* What readers are served.                                                *)

Unavailable == [article |-> Nothing, film |-> Nothing]

FaultyPublicView ==
  IF \/ ~serving \/ ~share.allowed \/ ~edition.exists \/ ~edition.enabled
     \/ edition.share # share.revision \/ edition.withdrawn \/ ~ArticleCurrent
  THEN Unavailable
  ELSE [article |-> edition.article,
        film |-> IF edition.projected = edition.authority THEN edition.film ELSE Nothing]
(* authorize_public_read, behind the token of the current decision.        *)
PublicView ==
  IF \/ ~serving \/ ~share.allowed \/ ~edition.exists \/ ~edition.enabled
     \/ edition.share # share.revision \/ edition.withdrawn \/ ~ArticleCurrent
  THEN Unavailable
  ELSE [article |-> edition.article,
        film |-> IF /\ edition.projected = edition.authority
                    /\ edition.approval # Nothing => approvals[edition.approval].audience # "members"
                 THEN edition.film ELSE Nothing]

(* authorize_member_read.                                                  *)
MemberView ==
  IF \/ ~serving \/ ~edition.exists \/ edition.withdrawn
     \/ edition.projected # edition.authority \/ ~ArticleCurrent
  THEN Unavailable
  ELSE [article |-> edition.article, film |-> edition.film]

-----------------------------------------------------------------------------
(* Properties.                                                             *)

TypeOK ==
  /\ episode \in [facts : 1 .. MaxFacts, source : 1 .. MaxSource, hold : Holds,
                  article : 0 .. MaxRevisions]
  /\ artifacts \in Seq([facts : 1 .. MaxFacts, previous : 0 .. MaxRevisions])
  /\ Len(artifacts) <= MaxRevisions
  /\ head \in 0 .. Len(artifacts)
  /\ archive \in [Revisions -> {"absent", "ledger", "orphan"}]
  /\ outbox \in Seq(Items)
  /\ pass \subseteq DOMAIN outbox
  /\ film \in 0 .. MaxRevisions
  /\ approvals \in Seq(Reviews) /\ Len(approvals) <= MaxApprovals
  /\ edition \in [exists : BOOLEAN, article : 0 .. MaxRevisions, facts : 0 .. MaxFacts,
                  film : 0 .. MaxRevisions, approval : 0 .. MaxApprovals,
                  settings : 0 .. MaxSettings, share : 0 .. MaxShare, authority : Nat,
                  projected : Nat, enabled : BOOLEAN, withdrawn : BOOLEAN]
  /\ pointer \in [authority : Nat, article : 0 .. MaxRevisions, film : 0 .. MaxRevisions]
  /\ share \in [revision : 0 .. MaxShare, allowed : BOOLEAN]
  /\ future \in [revision : 0 .. MaxFuture, allowed : BOOLEAN]
  /\ settings \in [revision : 1 .. MaxSettings, paused : BOOLEAN]
  /\ serving \in BOOLEAN
  /\ history \in [consent : {"unasked", "granted", "in", "out"}, suspended : BOOLEAN,
                  resumed : SUBSET Revisions]
  /\ retries \in 0 .. MaxRetries

(* The public sees an edition only on a permission that still stands: a    *)
(* member's own decision, or the league's while no member decided.         *)
Permitted == PublicView.article # Nothing => history.consent \in {"in", "granted"}

(* Every video a reader is served was reviewed for that audience or a      *)
(* wider one, with the article it is served with, and was selected once.   *)
Reviewed(view, audiences) ==
  view.film # Nothing =>
    LET p == approvals[edition.approval] IN
    /\ p.consumed /\ p.audience \in audiences
    /\ p.film = view.film /\ p.article = view.article /\ p.facts = episode.facts
    /\ view.film = view.article

(* What readers are served is the newest article the archive was given,    *)
(* written from the facts of today.                                        *)
Fresh(view) ==
  view.article # Nothing =>
    /\ archive[view.article] = "ledger"
    /\ artifacts[view.article].facts = episode.facts
    /\ \A r \in Revisions : Delivered(r) => r <= view.article

(* authorize_public_read, authorize_member_read: readers are served what   *)
(* was reviewed for them, permitted and current, through corrections,      *)
(* revocations, retries and dying projectors.                              *)
ReadersServed ==
  /\ Permitted
  /\ Reviewed(PublicView, {"public"}) /\ Reviewed(MemberView, {"public", "members"})
  /\ Fresh(PublicView) /\ Fresh(MemberView)

(* project_analyst, drain: an acknowledged article has its file, a file of *)
(* the ledger has its predecessor's file before it, and the published      *)
(* article was acknowledged.                                               *)
ArchiveSound ==
  /\ \A r \in Revisions : Delivered(r) => archive[r] = "ledger"
  /\ \A r \in 1 .. Len(artifacts) :
       archive[r] = "ledger" /\ artifacts[r].previous # Nothing
         => archive[artifacts[r].previous] = "ledger"
  /\ episode.article # Nothing => Delivered(episode.article)

Overtaken(i) ==
  /\ outbox[i].kind = "article" /\ outbox[i].state # "delivered"
  /\ artifacts[outbox[i].revision].facts # episode.facts

\* What readers were given stays projected under the decisions that follow it.
StaysProjected ==
  edition.exists /\ edition.projected = edition.authority
    => \/ edition'.projected = edition'.authority
       \/ edition'.withdrawn \/ edition'.approval # edition.approval

(* An article whose facts were overtaken before it was delivered is never  *)
(* delivered afterwards, by no running drain and no retry; a file once     *)
(* written stays what it is; a pointer only moves to a newer selection;    *)
(* and an edition once projected stays so, whatever members decide, until  *)
(* it is withdrawn or selected anew.                                       *)
ProjectionsOnlyAdvance ==
  [][/\ \A i \in DOMAIN outbox :
           outbox[i].state = "superseded" \/ Overtaken(i) => outbox'[i].state # "delivered"
     /\ \A r \in Revisions : archive[r] # "absent" => archive'[r] = archive[r]
     /\ pointer' # pointer => /\ pointer'.authority > pointer.authority
                             /\ pointer'.authority = edition.authority
     /\ StaysProjected]_vars

\* A withdrawn edition is shown again by an unused review of it, which is not the API's own.
ReopenedByReview ==
  edition.withdrawn /\ ~edition'.withdrawn =>
    LET p == approvals[edition'.approval] IN
    p.authority = edition.authority /\ ~p.standing /\ ~p.consumed

\* The API's own review, when it is used, adds a video to an edition without one, of
\* the article that is shown; a corrected article was resumed, and members see it.
StandingAddsFirst(p) ==
  /\ edition.film = Nothing /\ ~edition.withdrawn
  /\ edition.exists => edition.article = p.article
  /\ p.article # 1 => p.audience = "members" /\ p.article \in history.resumed

(* record_standing_approval, select_publication, resume_video: a withdrawn *)
(* edition is shown again only by the owner's review made since; the API's *)
(* own reviews only add a first video, after corrections only for the      *)
(* article that was resumed, whatever changes before they are used.        *)
OnlyReviewReopens ==
  [][/\ ReopenedByReview
     /\ \A i \in DOMAIN approvals :
          approvals[i].standing /\ ~approvals[i].consumed /\ approvals'[i].consumed
            => StandingAddsFirst(approvals[i])]_vars

(* After a correction a video is made again only once it was resumed.      *)
ResumeIsExplicit == [][film' # film => ~history.suspended]_vars

(* An item that nothing holds back for good is acknowledged or put before  *)
(* the owner: a drain that keeps running leaves only what waits for the    *)
(* settings, the source or the serving gate.                               *)
Waiting(i) ==
  \/ ~serving \/ settings.paused \/ Unsettled
  \/ outbox[i].kind = "selection" /\ settings.revision # edition.settings
ItemsSettle == \A i \in 1 .. MaxItems : []<>(i \in Pending => Waiting(i))
=============================================================================
