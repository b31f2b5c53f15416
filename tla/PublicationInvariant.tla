------------------------- MODULE PublicationInvariant -------------------------
(***************************************************************************)
(* The inductive invariant of Publication: what the transactions of the    *)
(* ledger, the drain and the members keep between them so that the archive *)
(* is sound and readers are served what was reviewed for them.             *)
(***************************************************************************)
EXTENDS Publication

Saved == 1 .. Len(artifacts)
IsArticle(i) == outbox[i].kind = "article"

-----------------------------------------------------------------------------
(* Articles, their files and their items.                                  *)

(* save_artifact, revise: an item is for a saved revision, and a revision  *)
(* has one item; nothing replaces it and a retry reuses it.                *)
OneItem ==
  /\ \A i \in DOMAIN outbox : IsArticle(i) => outbox[i].revision \in Saved
  /\ \A i, j \in DOMAIN outbox :
       IsArticle(i) /\ IsArticle(j) /\ outbox[i].revision = outbox[j].revision => i = j

(* drain: what a running drain has listed is delivered by nobody else.     *)
PassOpen == \A i \in pass : outbox[i].state # "delivered"

(* A revision follows an older one, and was written from facts of its day. *)
RevisionsInOrder ==
  \A r \in Saved : artifacts[r].previous < r /\ artifacts[r].facts <= episode.facts

(* project_analyst: the ledger's files are files of saved revisions.       *)
FilesSaved == \A r \in Revisions : archive[r] = "ledger" => r \in Saved

(* retire_unprojected: a revision the ledger went back from, or that a     *)
(* later one does not follow, was overtaken before it was delivered.       *)
Skipped(r) == r > head \/ \E s \in Saved : artifacts[s].previous < r /\ r < s
SkippedOvertaken ==
  \A r \in Saved : Skipped(r) => artifacts[r].facts < episode.facts /\ ~Delivered(r)
RetiredOvertaken ==
  \A i \in DOMAIN outbox :
    outbox[i].state = "superseded" =>
      IsArticle(i) /\ artifacts[outbox[i].revision].facts < episode.facts

-----------------------------------------------------------------------------
(* Reviews, selections and sharing decisions.                              *)

(* change_share, select_publication: an edition is shared by a member, or  *)
(* by the league's permission for it.                                      *)
ShareDecided ==
  share.allowed => share.revision > 0 /\ history.consent \in {"in", "granted"}

(* record_standing_approval: the API's own reviews are of first articles   *)
(* or of resumed ones, and of an edition that shows no video and that is   *)
(* not withdrawn.                                                          *)
StandingSound(p, shown, audit) ==
  /\ p.article # 1 => p.audience = "members" /\ p.article \in audit.resumed
  /\ p.authority = shown.authority =>
       /\ ~shown.withdrawn /\ shown.film = Nothing
       /\ shown.exists => shown.article = p.article

(* record_approval: a video is reviewed with the article it narrates, and  *)
(* a review is of an authority the edition has had.                        *)
ReviewsSound ==
  \A i \in DOMAIN approvals :
    LET p == approvals[i] IN
    /\ p.film \in {Nothing, p.article}
    /\ p.authority <= edition.authority
    /\ p.standing => StandingSound(p, edition, history)

(* select_publication, article_share_bootstrap: an edition shows what its  *)
(* review was of, and without a review it shows no video.                  *)
EditionReviewed ==
  /\ ~edition.exists => edition = NoEdition
  /\ edition.approval \in {0} \cup DOMAIN approvals
  /\ IF edition.approval = 0 THEN edition.film = Nothing
     ELSE LET p == approvals[edition.approval] IN
          /\ p.consumed
          /\ p.film = edition.film /\ p.article = edition.article /\ p.facts = edition.facts

(* project_publication: the pointer is of the edition's authority or older.*)
PointerBehind ==
  /\ pointer.authority <= edition.authority
  /\ pointer.authority = edition.authority =>
       pointer.article = edition.article /\ pointer.film = edition.film

-----------------------------------------------------------------------------
LedgerSound ==
  /\ OneItem /\ PassOpen /\ RevisionsInOrder /\ FilesSaved /\ SkippedOvertaken /\ RetiredOvertaken
  /\ ArchiveSound
SelectionsSound == ShareDecided /\ ReviewsSound /\ EditionReviewed /\ PointerBehind

PublicationInvariant == TypeOK /\ LedgerSound /\ SelectionsSound
=============================================================================
