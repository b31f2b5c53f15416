-------------------------- MODULE PublicationProofs --------------------------
(***************************************************************************)
(* Proofs about Publication.  PublicationInvariant is inductive: its types *)
(* (TypePeriod, TypeOwner, TypeProjector), the ledger's part and the       *)
(* selections' part are each kept by the transactions of the period, of    *)
(* the owner and the members, and of the projector.  A step that saves no  *)
(* revision and changes no facts is reasoned about once, in LedgerKept; a  *)
(* step that selects nothing once, in SelectionsKept.                      *)
(***************************************************************************)
EXTENDS PublicationInvariant, SequenceTheorems, TLAPS

-----------------------------------------------------------------------------
(* Sequences, records and what the transactions do to them.                *)

ArtifactRecord == [facts : 1 .. MaxFacts, previous : 0 .. MaxRevisions]
EpisodeRecord == [facts : 1 .. MaxFacts, source : 1 .. MaxSource, hold : Holds,
                  article : 0 .. MaxRevisions]
EditionRecord ==
    [exists : BOOLEAN, article : 0 .. MaxRevisions, facts : 0 .. MaxFacts,
     film : 0 .. MaxRevisions, approval : 0 .. MaxApprovals, settings : 0 .. MaxSettings,
     share : 0 .. MaxShare, authority : Nat, projected : Nat, enabled : BOOLEAN,
     withdrawn : BOOLEAN]
PointerRecord == [authority : Nat, article : 0 .. MaxRevisions, film : 0 .. MaxRevisions]

(* A sequence is a function on the positions up to its length.             *)
LEMMA SequenceIs ==
    ASSUME NEW S, NEW s \in Seq(S)
    PROVE  /\ Len(s) \in Nat /\ DOMAIN s = 1 .. Len(s)
           /\ \A i \in DOMAIN s : s[i] \in S
  BY LenProperties, ElementOfSeq

(* Appending adds one position behind the others.                          *)
LEMMA Appended ==
    ASSUME NEW S, NEW s \in Seq(S), NEW e \in S
    PROVE  /\ Append(s, e) \in Seq(S) /\ Len(Append(s, e)) = Len(s) + 1
           /\ DOMAIN Append(s, e) = DOMAIN s \cup {Len(s) + 1}
           /\ Len(s) + 1 \notin DOMAIN s
           /\ \A i \in DOMAIN s : Append(s, e)[i] = s[i]
           /\ Append(s, e)[Len(s) + 1] = e
<1>1. /\ Append(s, e) \in Seq(S) /\ Len(Append(s, e)) = Len(s) + 1
      /\ \A i \in 1 .. Len(s) : Append(s, e)[i] = s[i]
      /\ Append(s, e)[Len(s) + 1] = e
  BY AppendProperties
<1>2. Len(s) \in Nat /\ DOMAIN s = 1 .. Len(s) /\ DOMAIN Append(s, e) = 1 .. Len(s) + 1
  BY <1>1, SequenceIs
<1> QED
  BY <1>1, <1>2

(* A function on an initial segment of the naturals is a sequence.         *)
LEMMA SegmentIsSequence ==
    ASSUME NEW S, NEW n \in Nat, NEW f \in [1 .. n -> S]
    PROVE  f \in Seq(S)
  BY SeqDef

(* What the bounds are.                                                    *)
LEMMA Bounds ==
    /\ MaxFacts \in Nat \ {0} /\ MaxSource \in Nat \ {0} /\ MaxSettings \in Nat \ {0}
    /\ MaxRevisions \in Nat /\ MaxShare \in Nat /\ MaxFuture \in Nat /\ MaxApprovals \in Nat
    /\ MaxRetries \in Nat
    /\ Gates \subseteq BOOLEAN /\ TRUE \in Gates
  BY PublicationAssumption

(* The state of an item changes; what it is for does not.                  *)
LEMMA ItemFields ==
    ASSUME NEW m \in Items, NEW s \in ItemStates
    PROVE  /\ [m EXCEPT !.state = s] \in Items
           /\ [m EXCEPT !.state = s].state = s
           /\ [m EXCEPT !.state = s].kind = m.kind
           /\ m.kind = "article" => [m EXCEPT !.state = s].revision = m.revision
           /\ m.kind = "selection" => [m EXCEPT !.state = s].authority = m.authority
<1>1. CASE m \in [kind : {"article"}, revision : Revisions, state : ItemStates]
  BY <1>1 DEF Items
<1>2. CASE m \in [kind : {"selection"}, authority : Nat, state : ItemStates]
  BY <1>2 DEF Items
<1> QED
  BY <1>1, <1>2 DEF Items

(* What an item is.                                                        *)
LEMMA ItemIs ==
    ASSUME NEW m \in Items
    PROVE  /\ m.state \in ItemStates /\ m.kind \in {"article", "selection"}
           /\ m.kind = "article" => m.revision \in Revisions
           /\ m.kind = "selection" => m.authority \in Nat
  BY DEF Items

(* The items of the ledger.                                                *)
LEMMA NewItems ==
    /\ \A r \in Revisions, s \in ItemStates :
         [kind |-> "article", revision |-> r, state |-> s] \in Items
    /\ \A n \in Nat, s \in ItemStates :
         [kind |-> "selection", authority |-> n, state |-> s] \in Items
  BY DEF Items

(* Marking an item changes its state and no other item.                    *)
LEMMA MarkedIs ==
    ASSUME outbox \in Seq(Items), NEW i \in DOMAIN outbox, NEW s \in ItemStates
    PROVE  /\ Marked(i, s) \in Seq(Items)
           /\ DOMAIN Marked(i, s) = DOMAIN outbox
           /\ \A j \in DOMAIN outbox : /\ Marked(i, s)[j].kind = outbox[j].kind
                                       /\ IsArticle(j) => Marked(i, s)[j].revision = outbox[j].revision
                                       /\ j # i => Marked(i, s)[j] = outbox[j]
           /\ Marked(i, s)[i].state = s
<1>1. Len(outbox) \in Nat /\ DOMAIN outbox = 1 .. Len(outbox)
      /\ \A j \in DOMAIN outbox : outbox[j] \in Items
  BY SequenceIs
<1>2. /\ [outbox[i] EXCEPT !.state = s] \in Items
      /\ [outbox[i] EXCEPT !.state = s].state = s
      /\ [outbox[i] EXCEPT !.state = s].kind = outbox[i].kind
      /\ outbox[i].kind = "article" => [outbox[i] EXCEPT !.state = s].revision = outbox[i].revision
  BY <1>1, ItemFields
<1>3. Marked(i, s) = [outbox EXCEPT ![i] = [outbox[i] EXCEPT !.state = s]]
  BY DEF Marked
<1>4. Marked(i, s) \in Seq(Items) /\ DOMAIN Marked(i, s) = DOMAIN outbox
      /\ \A j \in DOMAIN outbox :
           Marked(i, s)[j] = IF j = i THEN [outbox[i] EXCEPT !.state = s] ELSE outbox[j]
  <2> HIDE DEF Items
  <2> QED
    BY <1>1, <1>2, <1>3, SegmentIsSequence
<1> QED
  BY <1>2, <1>4 DEF IsArticle

(* The types, by the names of the record sets.                             *)
LEMMA TypeIs ==
    TypeOK <=> /\ episode \in EpisodeRecord
               /\ artifacts \in Seq(ArtifactRecord) /\ Len(artifacts) <= MaxRevisions
               /\ head \in 0 .. Len(artifacts)
               /\ archive \in [Revisions -> {"absent", "ledger", "orphan"}]
               /\ outbox \in Seq(Items) /\ pass \subseteq DOMAIN outbox
               /\ film \in 0 .. MaxRevisions
               /\ approvals \in Seq(Reviews) /\ Len(approvals) <= MaxApprovals
               /\ edition \in EditionRecord /\ pointer \in PointerRecord
               /\ share \in [revision : 0 .. MaxShare, allowed : BOOLEAN]
               /\ future \in [revision : 0 .. MaxFuture, allowed : BOOLEAN]
               /\ settings \in [revision : 1 .. MaxSettings, paused : BOOLEAN]
               /\ serving \in BOOLEAN
               /\ history \in [consent : {"unasked", "granted", "in", "out"},
                               suspended : BOOLEAN, resumed : SUBSET Revisions]
               /\ retries \in 0 .. MaxRetries
  BY Zenon DEF TypeOK, EpisodeRecord, ArtifactRecord, EditionRecord, PointerRecord

(* The same of the next state.                                             *)
LEMMA TypeNext ==
    TypeOK' <=> /\ episode' \in EpisodeRecord
               /\ artifacts' \in Seq(ArtifactRecord) /\ Len(artifacts') <= MaxRevisions
               /\ head' \in 0 .. Len(artifacts')
               /\ archive' \in [Revisions -> {"absent", "ledger", "orphan"}]
               /\ outbox' \in Seq(Items) /\ pass' \subseteq DOMAIN outbox'
               /\ film' \in 0 .. MaxRevisions
               /\ approvals' \in Seq(Reviews) /\ Len(approvals') <= MaxApprovals
               /\ edition' \in EditionRecord /\ pointer' \in PointerRecord
               /\ share' \in [revision : 0 .. MaxShare, allowed : BOOLEAN]
               /\ future' \in [revision : 0 .. MaxFuture, allowed : BOOLEAN]
               /\ settings' \in [revision : 1 .. MaxSettings, paused : BOOLEAN]
               /\ serving' \in BOOLEAN
               /\ history' \in [consent : {"unasked", "granted", "in", "out"},
                               suspended : BOOLEAN, resumed : SUBSET Revisions]
               /\ retries' \in 0 .. MaxRetries
  BY Zenon DEF TypeOK, EpisodeRecord, ArtifactRecord, EditionRecord, PointerRecord

(* Updates of the period, the edition and their decisions keep their types.*)
LEMMA EpisodeFields ==
    ASSUME NEW e \in EpisodeRecord
    PROVE  /\ \A n \in 1 .. MaxSource : [e EXCEPT !.source = n] \in EpisodeRecord
           /\ \A h \in Holds : [e EXCEPT !.hold = h] \in EpisodeRecord
           /\ \A n \in 1 .. MaxFacts, h \in Holds :
                [e EXCEPT !.facts = n, !.hold = h] \in EpisodeRecord
           /\ \A r \in 0 .. MaxRevisions : [e EXCEPT !.article = r] \in EpisodeRecord
  BY Zenon DEF EpisodeRecord

(* The fields of a period.                                                 *)
LEMMA EpisodeIs ==
    ASSUME NEW e \in EpisodeRecord
    PROVE  /\ e.facts \in 1 .. MaxFacts /\ e.source \in 1 .. MaxSource /\ e.hold \in Holds
           /\ e.article \in 0 .. MaxRevisions
  BY DEF EpisodeRecord

(* The fields of an edition.                                               *)
LEMMA EditionIs ==
    ASSUME NEW e \in EditionRecord
    PROVE  /\ e.exists \in BOOLEAN /\ e.enabled \in BOOLEAN /\ e.withdrawn \in BOOLEAN
           /\ e.article \in 0 .. MaxRevisions /\ e.facts \in 0 .. MaxFacts
           /\ e.film \in 0 .. MaxRevisions /\ e.approval \in 0 .. MaxApprovals
           /\ e.settings \in 0 .. MaxSettings /\ e.share \in 0 .. MaxShare
           /\ e.authority \in Nat /\ e.projected \in Nat
  BY DEF EditionRecord

(* Updates of an edition keep its type.                                    *)
LEMMA EditionFields ==
    ASSUME NEW e \in EditionRecord
    PROVE  /\ \A n \in Nat, b \in BOOLEAN :
                [e EXCEPT !.withdrawn = b, !.authority = n] \in EditionRecord
           /\ \A n \in Nat : [e EXCEPT !.projected = n] \in EditionRecord
           /\ \A s \in 0 .. MaxShare, n \in Nat, p \in Nat :
                [e EXCEPT !.share = s, !.authority = n, !.projected = p] \in EditionRecord
           /\ \A r \in 0 .. MaxRevisions, f \in 0 .. MaxFacts, s \in 0 .. MaxSettings :
                [e EXCEPT !.exists = TRUE, !.article = r, !.facts = f, !.settings = s]
                  \in EditionRecord
  BY Zenon DEF EditionRecord

(* An edition nobody has asked for is typed.                               *)
LEMMA NoEditionType == NoEdition \in EditionRecord
  BY Bounds DEF NoEdition, EditionRecord

(* What the transactions do to an edition.                                 *)
LEMMA WithdrawnIs ==
    ASSUME NEW e \in EditionRecord
    PROVE  /\ Withdrawn(e) \in EditionRecord
           /\ Withdrawn(e).withdrawn /\ Withdrawn(e).authority = e.authority + 1
           /\ Withdrawn(e).exists = e.exists /\ Withdrawn(e).article = e.article
           /\ Withdrawn(e).facts = e.facts /\ Withdrawn(e).film = e.film
           /\ Withdrawn(e).approval = e.approval
<1>1. e.authority + 1 \in Nat
  BY EditionIs
<1>2. Withdrawn(e) \in EditionRecord
  BY <1>1, EditionFields DEF Withdrawn
<1> QED
  BY <1>2 DEF Withdrawn, EditionRecord

(* Following a sharing decision gives an edition a new authority and shows *)
(* the same.                                                               *)
LEMMA FollowedIs ==
    ASSUME NEW e \in EditionRecord, NEW n \in 0 .. MaxShare
    PROVE  /\ Followed(e, n) \in EditionRecord
           /\ Followed(e, n).authority = e.authority + 1 /\ Followed(e, n).share = n
           /\ Followed(e, n).withdrawn = e.withdrawn
           /\ Followed(e, n).exists = e.exists /\ Followed(e, n).article = e.article
           /\ Followed(e, n).facts = e.facts /\ Followed(e, n).film = e.film
           /\ Followed(e, n).approval = e.approval
<1> DEFINE p == IF e.projected = e.authority THEN e.authority + 1 ELSE e.projected
<1>1. e.authority + 1 \in Nat /\ p \in Nat
  BY EditionIs
<1>2. Followed(e, n) = [e EXCEPT !.share = n, !.authority = e.authority + 1, !.projected = p]
  BY Zenon DEF Followed
<1> HIDE DEF p
<1>3. Followed(e, n) \in EditionRecord
  <2>1. [e EXCEPT !.share = n, !.authority = e.authority + 1, !.projected = p] \in EditionRecord
    BY <1>1, EditionFields, Zenon
  <2> QED
    BY <1>2, <2>1
<1> QED
  BY <1>2, <1>3 DEF EditionRecord

(* An article shared without a review is an edition without a video.       *)
LEMMA BootstrapIs ==
    ASSUME TypeOK
    PROVE  /\ Bootstrap \in EditionRecord
           /\ Bootstrap.exists /\ Bootstrap.authority = 0 /\ ~Bootstrap.withdrawn
           /\ Bootstrap.approval = 0 /\ Bootstrap.film = Nothing
           /\ Bootstrap.article = episode.article /\ Bootstrap.facts = episode.facts
<1>1. /\ episode.article \in 0 .. MaxRevisions /\ episode.facts \in 0 .. MaxFacts
      /\ settings.revision \in 0 .. MaxSettings
  <2>1. settings.revision \in 1 .. MaxSettings
    BY TypeIs
  <2> QED
    BY <2>1, TypeIs, EpisodeIs, Bounds
<1>2. Bootstrap \in EditionRecord
  BY <1>1, NoEditionType, EditionFields DEF Bootstrap
<1>3. NoEdition.authority = 0 /\ ~NoEdition.withdrawn /\ NoEdition.approval = 0
      /\ NoEdition.film = Nothing
  BY DEF NoEdition, Nothing
<1> QED
  BY <1>2, <1>3, NoEditionType DEF Bootstrap, EditionRecord

(* What a review is bound to.                                              *)
LEMMA ReviewIs ==
    ASSUME NEW p \in Reviews
    PROVE  /\ p.authority \in Nat /\ p.film \in 0 .. MaxRevisions /\ p.article \in Revisions
           /\ p.facts \in Nat /\ p.audience \in Audiences /\ p.audience \in {"public", "members"}
           /\ p.standing \in BOOLEAN /\ p.consumed \in BOOLEAN /\ p.settings \in Nat
  BY PublicationAssumption DEF Reviews

(* A review that holds is of the edition, the article and the facts as     *)
(* they are.                                                               *)
LEMMA BoundIs ==
    ASSUME NEW p \in Reviews, NEW a, NEW f, BoundTo(p) = Scope(a, f)
    PROVE  /\ p.authority = edition.authority /\ p.article = episode.article
           /\ p.facts = episode.facts /\ p.settings = settings.revision
<1>1. DOMAIN p = {"authority", "film", "article", "facts", "source", "settings", "share",
                  "future", "audience", "standing", "consumed"}
  BY DEF Reviews
<1>2. ASSUME NEW x \in DOMAIN p \ {"standing", "consumed"}
      PROVE  BoundTo(p)[x] = p[x]
  BY DEF BoundTo
<1>3. /\ BoundTo(p)["authority"] = p["authority"] /\ BoundTo(p)["article"] = p["article"]
      /\ BoundTo(p)["facts"] = p["facts"] /\ BoundTo(p)["settings"] = p["settings"]
  BY <1>1, <1>2
<1>4. /\ Scope(a, f)["authority"] = edition.authority /\ Scope(a, f)["article"] = episode.article
      /\ Scope(a, f)["facts"] = episode.facts /\ Scope(a, f)["settings"] = settings.revision
  BY DEF Scope
<1> QED
  BY <1>3, <1>4

(* A used review is the same but for being used.                           *)
LEMMA ConsumedIs ==
    ASSUME NEW p \in Reviews
    PROVE  /\ [p EXCEPT !.consumed = TRUE] \in Reviews
           /\ [p EXCEPT !.consumed = TRUE].consumed
           /\ [p EXCEPT !.consumed = TRUE].authority = p.authority
           /\ [p EXCEPT !.consumed = TRUE].film = p.film
           /\ [p EXCEPT !.consumed = TRUE].article = p.article
           /\ [p EXCEPT !.consumed = TRUE].facts = p.facts
           /\ [p EXCEPT !.consumed = TRUE].standing = p.standing
           /\ [p EXCEPT !.consumed = TRUE].audience = p.audience
<1>1. [p EXCEPT !.consumed = TRUE] \in Reviews
  BY Zenon DEF Reviews
<1> QED
  BY <1>1 DEF Reviews

(* A review may be used, and the others stay as they were.                 *)
LEMMA UsedIs ==
    ASSUME approvals \in Seq(Reviews), NEW i \in DOMAIN approvals
    PROVE  /\ [approvals EXCEPT ![i].consumed = TRUE] \in Seq(Reviews)
           /\ DOMAIN [approvals EXCEPT ![i].consumed = TRUE] = DOMAIN approvals
           /\ Len([approvals EXCEPT ![i].consumed = TRUE]) = Len(approvals)
           /\ \A j \in DOMAIN approvals :
                [approvals EXCEPT ![i].consumed = TRUE][j] =
                   IF j = i THEN [approvals[i] EXCEPT !.consumed = TRUE] ELSE approvals[j]
<1> DEFINE used == [approvals EXCEPT ![i].consumed = TRUE]
<1>1. Len(approvals) \in Nat /\ DOMAIN approvals = 1 .. Len(approvals)
      /\ \A j \in DOMAIN approvals : approvals[j] \in Reviews
  BY SequenceIs
<1>2. [approvals[i] EXCEPT !.consumed = TRUE] \in Reviews
  BY <1>1, ConsumedIs
<1>3. used = [approvals EXCEPT ![i] = [approvals[i] EXCEPT !.consumed = TRUE]]
  OBVIOUS
<1> HIDE DEF used
<1>4. approvals \in [1 .. Len(approvals) -> Reviews]
  BY LenProperties
<1>5. used \in [1 .. Len(approvals) -> Reviews]
      /\ \A j \in DOMAIN approvals :
           used[j] = IF j = i THEN [approvals[i] EXCEPT !.consumed = TRUE] ELSE approvals[j]
  <2> HIDE DEF Reviews
  <2> QED
    BY <1>1, <1>2, <1>3, <1>4
<1>6. used \in Seq(Reviews) /\ DOMAIN used = 1 .. Len(approvals)
  BY <1>1, <1>5, SegmentIsSequence
<1>7. Len(used) = Len(approvals)
  <2>1. Len(used) \in Nat /\ DOMAIN used = 1 .. Len(used)
    BY <1>6, SequenceIs
  <2> QED
    BY <1>1, <1>6, <2>1
<1> QED
  BY <1>1, <1>5, <1>6, <1>7 DEF used

(* What a change of the facts leaves of the items.                         *)
LEMMA RetiredItems ==
    ASSUME outbox \in Seq(Items),
           outbox' = [i \in DOMAIN outbox |->
                        IF i \in Retired THEN [outbox[i] EXCEPT !.state = "superseded"]
                        ELSE outbox[i]]
    PROVE  /\ outbox' \in Seq(Items) /\ DOMAIN outbox' = DOMAIN outbox
           /\ \A i \in DOMAIN outbox : /\ outbox'[i].kind = outbox[i].kind
                                       /\ IsArticle(i) => outbox'[i].revision = outbox[i].revision
           /\ \A i \in DOMAIN outbox : IF i \in Retired THEN outbox'[i].state = "superseded"
                                       ELSE outbox'[i] = outbox[i]
<1>1. Len(outbox) \in Nat /\ DOMAIN outbox = 1 .. Len(outbox)
      /\ \A i \in DOMAIN outbox : outbox[i] \in Items
  BY SequenceIs
<1>2. ASSUME NEW i \in DOMAIN outbox
      PROVE  /\ outbox'[i] \in Items
             /\ outbox'[i].kind = outbox[i].kind
             /\ IsArticle(i) => outbox'[i].revision = outbox[i].revision
             /\ IF i \in Retired THEN outbox'[i].state = "superseded"
                ELSE outbox'[i] = outbox[i]
  <2>1. /\ [outbox[i] EXCEPT !.state = "superseded"] \in Items
        /\ [outbox[i] EXCEPT !.state = "superseded"].state = "superseded"
        /\ [outbox[i] EXCEPT !.state = "superseded"].kind = outbox[i].kind
        /\ outbox[i].kind = "article" =>
             [outbox[i] EXCEPT !.state = "superseded"].revision = outbox[i].revision
    <3>1. outbox[i] \in Items /\ "superseded" \in ItemStates
      BY <1>1 DEF ItemStates
    <3> QED
      BY <3>1, ItemFields
  <2>2. outbox'[i] = IF i \in Retired THEN [outbox[i] EXCEPT !.state = "superseded"]
                     ELSE outbox[i]
    OBVIOUS
  <2> HIDE DEF Items
  <2> QED
    BY <1>1, <2>1, <2>2 DEF IsArticle
<1>3. DOMAIN outbox' = DOMAIN outbox
  OBVIOUS
<1>4. outbox' \in [1 .. Len(outbox) -> Items]
  BY <1>1, <1>2
<1> QED
  BY <1>1, <1>2, <1>3, <1>4, SegmentIsSequence

(* What a saved revision is.                                               *)
LEMMA RevisionIs ==
    ASSUME TypeOK
    PROVE  /\ Len(artifacts) \in Nat /\ DOMAIN artifacts = Saved
           /\ Len(artifacts) <= MaxRevisions /\ Saved \subseteq Revisions
           /\ \A r \in Saved : /\ artifacts[r] \in ArtifactRecord
                              /\ artifacts[r].facts \in 1 .. MaxFacts
                              /\ artifacts[r].previous \in 0 .. MaxRevisions
<1>1. /\ Len(artifacts) \in Nat /\ DOMAIN artifacts = Saved
      /\ Len(artifacts) <= MaxRevisions
      /\ \A r \in Saved : artifacts[r] \in ArtifactRecord
  BY TypeIs, SequenceIs DEF Saved
<1>2. ASSUME NEW r \in Saved
      PROVE  artifacts[r].facts \in 1 .. MaxFacts /\ artifacts[r].previous \in 0 .. MaxRevisions
  BY <1>1 DEF ArtifactRecord
<1>3. Saved \subseteq Revisions
  BY <1>1, Bounds DEF Saved, Revisions
<1> QED
  BY <1>1, <1>2, <1>3

-----------------------------------------------------------------------------
(* Types.                                                                  *)

(* The period's transactions keep the types.                               *)
LEMMA TypePeriod ==
    ASSUME TypeOK, RevisionsInOrder, Period
    PROVE  TypeOK'
<1>0. /\ episode.facts \in 1 .. MaxFacts /\ episode.source \in 1 .. MaxSource
      /\ episode.hold \in Holds /\ episode.article \in 0 .. MaxRevisions
      /\ Len(artifacts) \in Nat
  BY TypeIs, EpisodeIs, SequenceIs
<1>1. ASSUME episode.source < MaxSource
      PROVE  Observed \in EpisodeRecord /\ Observed.hold = episode.hold
             /\ Observed.facts = episode.facts
  <2>1. episode.source + 1 \in 1 .. MaxSource
    BY <1>0, <1>1, Bounds
  <2> QED
    BY <2>1, TypeIs, EpisodeFields DEF Observed, EpisodeRecord
<1>2. CASE ObserveSame
  <2> DEFINE h == CASE episode.hold = "source" -> "unstable"
                    [] episode.hold = "unstable" -> ""
                    [] OTHER -> episode.hold
  <2>1. h \in Holds
    BY <1>0 DEF Holds
  <2>2. episode' = [Observed EXCEPT !.hold = h] /\ Observed \in EpisodeRecord
    BY <1>1, <1>2 DEF ObserveSame
  <2> HIDE DEF h
  <2>3. episode' \in EpisodeRecord
    BY <2>1, <2>2, EpisodeFields
  <2> QED
    BY <1>2, <2>3, TypeIs, TypeNext DEF ObserveSame
<1>3. CASE ObserveIncomplete
  <2>1. episode' \in EpisodeRecord
    BY <1>1, <1>3, EpisodeFields DEF ObserveIncomplete, Holds
  <2> QED
    BY <1>3, <2>1, TypeIs, TypeNext DEF ObserveIncomplete
<1>4. CASE ObserveChange
  <2> DEFINE h == IF edition.exists \/ episode.article # Nothing \/ film # Nothing
                  THEN "facts_changed" ELSE "unstable"
             b == history.suspended \/ edition.exists \/ episode.article # Nothing \/ film # Nothing
  <2>1. h \in Holds /\ Observed \in EpisodeRecord /\ Observed.facts = episode.facts
    BY <1>1, <1>4 DEF Holds, ObserveChange
  <2>2. episode' = [Observed EXCEPT !.facts = episode.facts + 1, !.hold = h]
    BY <1>4, <2>1 DEF ObserveChange
  <2>3. history' = [history EXCEPT !.suspended = b]
    BY <1>4, Zenon DEF ObserveChange
  <2>4. episode.facts + 1 \in 1 .. MaxFacts
    BY <1>0, <1>4, Bounds DEF ObserveChange
  <2>5. b \in BOOLEAN
    BY TypeIs, EditionIs
  <2> HIDE DEF h, b
  <2>6. episode' \in EpisodeRecord
    BY <2>1, <2>2, <2>4, EpisodeFields
  <2>7. history' \in [consent : {"unasked", "granted", "in", "out"}, suspended : BOOLEAN,
                      resumed : SUBSET Revisions]
    BY <2>3, <2>5, TypeIs
  <2>8. edition' \in EditionRecord
    BY <1>4, TypeIs, WithdrawnIs DEF ObserveChange
  <2>9. outbox' \in Seq(Items) /\ DOMAIN outbox' = DOMAIN outbox
    BY <1>4, TypeIs, RetiredItems DEF ObserveChange
  <2>10. head' \in 0 .. Len(artifacts)
    <3>1. CASE Retired # {}
      <4>1. head' = artifacts[head].previous /\ artifacts[head].previous # Nothing
        BY <1>4, <3>1 DEF ObserveChange, Retired
      <4>2. PICK i \in DOMAIN outbox : IsArticle(i) /\ outbox[i].revision = head
        BY <3>1 DEF Retired, IsArticle
      <4>3. head # 0 /\ head \in 0 .. Len(artifacts)
        BY <4>2, TypeIs, SequenceIs, ItemIs DEF IsArticle, Revisions
      <4>4. head \in Saved
        BY <1>0, <4>3 DEF Saved
      <4>5. artifacts[head].previous < head /\ artifacts[head].previous \in 0 .. MaxRevisions
        BY <4>4, RevisionIs DEF RevisionsInOrder
      <4> QED
        BY <1>0, <4>1, <4>3, <4>5, Bounds
    <3>2. CASE Retired = {}
      BY <1>4, <3>2, TypeIs DEF ObserveChange
    <3> QED
      BY <3>1, <3>2
  <2> QED
    BY <1>4, <2>6, <2>7, <2>8, <2>9, <2>10, TypeIs, TypeNext DEF ObserveChange
<1>5. CASE SaveArticle
  <2> DEFINE a == [facts |-> episode.facts, previous |-> head]
             m == [kind |-> "article", revision |-> NextRevision, state |-> "pending"]
  <2>1. a \in ArtifactRecord
    BY <1>0, TypeIs, Bounds DEF ArtifactRecord
  <2>2. m \in Items /\ NextRevision \in Revisions /\ NextRevision = Len(artifacts) + 1
    BY <1>5, NewItems DEF SaveArticle, ItemStates, NextRevision
  <2>3. artifacts' = Append(artifacts, a) /\ outbox' = Append(outbox, m) /\ head' = NextRevision
    BY <1>5 DEF SaveArticle
  <2> HIDE DEF a, m
  <2>4. artifacts' \in Seq(ArtifactRecord) /\ Len(artifacts') = Len(artifacts) + 1
    BY <2>1, <2>3, TypeIs, Appended
  <2>5. outbox' \in Seq(Items) /\ DOMAIN outbox \subseteq DOMAIN outbox'
    BY <2>2, <2>3, TypeIs, Appended
  <2>6. Len(artifacts') <= MaxRevisions /\ head' \in 0 .. Len(artifacts')
    BY <1>0, <2>2, <2>3, <2>4, Bounds DEF Revisions
  <2> QED
    BY <1>5, <2>4, <2>5, <2>6, TypeIs, TypeNext DEF SaveArticle
<1>6. CASE FinishFilm
  BY <1>0, <1>6, TypeIs, TypeNext DEF FinishFilm
<1> QED
  BY <1>2, <1>3, <1>4, <1>5, <1>6 DEF Period

(* The transactions of the owner and the members keep the types.           *)
LEMMA TypeOwner ==
    ASSUME TypeOK, Owner \/ Members
    PROVE  TypeOK'
<1>0. /\ episode \in EpisodeRecord /\ edition \in EditionRecord
      /\ episode.facts \in 1 .. MaxFacts /\ episode.source \in 1 .. MaxSource
      /\ episode.hold \in Holds /\ episode.article \in 0 .. MaxRevisions
      /\ edition.authority \in Nat
      /\ share.revision \in 0 .. MaxShare /\ share.allowed \in BOOLEAN
      /\ future.revision \in 0 .. MaxFuture /\ future.allowed \in BOOLEAN
      /\ settings.revision \in 1 .. MaxSettings
      /\ Len(artifacts) \in Nat /\ Len(approvals) \in Nat
      /\ DOMAIN approvals = 1 .. Len(approvals)
      /\ \A i \in DOMAIN approvals : approvals[i] \in Reviews
      /\ DOMAIN outbox = 1 .. Len(outbox)
  BY TypeIs, EpisodeIs, EditionIs, SequenceIs
<1>a. /\ episode.facts \in Nat /\ episode.source \in Nat /\ settings.revision \in Nat
      /\ share.revision \in Nat /\ future.revision \in Nat
      /\ episode.facts \in 0 .. MaxFacts /\ settings.revision \in 0 .. MaxSettings
      /\ episode.article # 0 => episode.article \in Revisions
  <2>1. episode.facts \in Nat /\ episode.facts \in 0 .. MaxFacts
    BY <1>0, Bounds
  <2>2. episode.source \in Nat
    BY <1>0, Bounds
  <2>3. settings.revision \in Nat /\ settings.revision \in 0 .. MaxSettings
    BY <1>0, Bounds
  <2>4. share.revision \in Nat
    BY <1>0, Bounds
  <2>5. future.revision \in Nat
    BY <1>0, Bounds
  <2>6. episode.article # 0 => episode.article \in Revisions
    BY <1>0, Bounds DEF Revisions
  <2> QED
    BY <2>1, <2>2, <2>3, <2>4, <2>5, <2>6
<1>1. ASSUME NEW committed \in BOOLEAN, Revise(committed) PROVE TypeOK'
  <2> DEFINE a == [facts |-> episode.facts, previous |-> head]
             m == [kind |-> "article", revision |-> NextRevision, state |-> "delivered"]
  <2>1. a \in ArtifactRecord
    BY <1>0, TypeIs, Bounds DEF ArtifactRecord
  <2>2. m \in Items /\ NextRevision \in Revisions /\ NextRevision = Len(artifacts) + 1
    BY <1>1, NewItems DEF Revise, ItemStates, NextRevision
  <2>3. archive' \in [Revisions -> {"absent", "ledger", "orphan"}]
    BY <1>1, <2>2, TypeIs DEF Revise
  <2>4. CASE committed
    <3>1. artifacts' = Append(artifacts, a) /\ outbox' = Append(outbox, m) /\ head' = NextRevision
          /\ episode' = [episode EXCEPT !.article = NextRevision]
      BY <1>1, <2>4 DEF Revise
    <3> HIDE DEF a, m
    <3>2. artifacts' \in Seq(ArtifactRecord) /\ Len(artifacts') = Len(artifacts) + 1
      BY <2>1, <3>1, TypeIs, Appended
    <3>3. outbox' \in Seq(Items) /\ DOMAIN outbox \subseteq DOMAIN outbox'
      BY <2>2, <3>1, TypeIs, Appended
    <3>4. Len(artifacts') <= MaxRevisions /\ head' \in 0 .. Len(artifacts')
          /\ NextRevision \in 0 .. MaxRevisions
      BY <1>0, <2>2, <3>1, <3>2, Bounds DEF Revisions
    <3>5. episode' \in EpisodeRecord
      BY <1>0, <3>1, <3>4, EpisodeFields
    <3> QED
      BY <1>1, <2>3, <3>2, <3>3, <3>4, <3>5, TypeIs, TypeNext DEF Revise
  <2>5. CASE ~committed
    BY <1>1, <2>3, <2>5, TypeIs, TypeNext DEF Revise
  <2> QED
    BY <2>4, <2>5
<1>2. CASE ResumeVideo
  <2>1. episode' \in EpisodeRecord
    BY <1>0, <1>2, EpisodeFields DEF ResumeVideo, Holds
  <2>2. history' \in [consent : {"unasked", "granted", "in", "out"}, suspended : BOOLEAN,
                      resumed : SUBSET Revisions]
    <3>1. episode.article # 0
      BY <1>2 DEF ResumeVideo, ArticlePublished, Nothing
    <3>2. episode.article \in Revisions
      BY <1>a, <3>1
    <3>3. history' = [history EXCEPT !.suspended = FALSE,
                                     !.resumed = history.resumed \cup {episode.article}]
      BY <1>2 DEF ResumeVideo
    <3> QED
      BY <3>2, <3>3, TypeIs
  <2> QED
    BY <1>2, <2>1, <2>2, TypeIs, TypeNext DEF ResumeVideo
<1>3. ASSUME NEW a \in Audiences, NEW f \in 0 .. MaxRevisions, NEW standing \in BOOLEAN,
             Approve(a, f, standing)
      PROVE  TypeOK'
  <2> DEFINE p == [authority |-> edition.authority, film |-> f, article |-> episode.article,
                   facts |-> episode.facts, source |-> episode.source,
                   settings |-> settings.revision, share |-> share.revision,
                   future |-> future.revision, audience |-> a, standing |-> standing,
                   consumed |-> FALSE]
  <2>1. episode.article # 0
    BY <1>3 DEF Approve, ScopeHolds, ArticlePublished, Nothing
  <2>2. episode.article \in Revisions
    BY <1>a, <2>1
  <2>3. p \in Reviews
    BY <1>0, <1>a, <2>2 DEF Reviews
  <2>4. approvals' = Append(approvals, p) /\ Len(approvals) < MaxApprovals
    BY <1>3 DEF Approve
  <2> HIDE DEF p
  <2>5. approvals' \in Seq(Reviews) /\ Len(approvals') = Len(approvals) + 1
    BY <2>3, <2>4, TypeIs, Appended
  <2>6. Len(approvals') <= MaxApprovals
    BY <1>0, <2>4, <2>5, Bounds
  <2> QED
    BY <1>3, <2>5, <2>6, TypeIs, TypeNext DEF Approve
<1>4. ASSUME NEW i \in DOMAIN approvals, Select(i) PROVE TypeOK'
  <2> DEFINE p == approvals[i]
             first == share.revision = 0 /\ p.audience = "public"
             shared == IF first THEN [revision |-> 1, allowed |-> TRUE] ELSE share
             e == [exists |-> TRUE, article |-> p.article, facts |-> p.facts, film |-> p.film,
                   approval |-> i, settings |-> p.settings, share |-> shared.revision,
                   authority |-> edition.authority + 1, projected |-> 0,
                   enabled |-> shared.allowed, withdrawn |-> FALSE]
             m == [kind |-> "selection", authority |-> edition.authority + 1,
                   state |-> "pending"]
  <2>1. /\ approvals' = [approvals EXCEPT ![i].consumed = TRUE]
        /\ share' = shared /\ edition' = e /\ outbox' = Append(outbox, m)
        /\ shared.revision <= MaxShare
        /\ BoundTo(p) = Scope(p.audience, p.film)
        /\ history' = IF first /\ future.allowed THEN [history EXCEPT !.consent = "granted"]
                      ELSE history
    BY <1>4, Zenon DEF Select
  <2>2. p \in Reviews /\ p.film \in 0 .. MaxRevisions /\ p.article = episode.article
        /\ p.facts = episode.facts /\ p.settings = settings.revision
    BY <1>0, <2>1, ReviewIs, BoundIs
  <2>3. shared \in [revision : 0 .. MaxShare, allowed : BOOLEAN]
    BY <2>1, <1>0, TypeIs, Bounds
  <2>4. shared.revision \in 0 .. MaxShare /\ shared.allowed \in BOOLEAN
    BY <2>3
  <2>5. /\ p.article \in 0 .. MaxRevisions /\ p.facts \in 0 .. MaxFacts
        /\ i \in 0 .. MaxApprovals /\ p.settings \in 0 .. MaxSettings
        /\ edition.authority + 1 \in Nat /\ 0 \in Nat
    <3>1. Len(approvals) <= MaxApprovals
      BY TypeIs
    <3>2. edition.authority + 1 \in Nat
      BY <1>0
    <3>3. i \in 1 .. Len(approvals) /\ Len(approvals) \in Nat
      BY <1>0
    <3>4. i \in 0 .. MaxApprovals
      BY <3>1, <3>3, Bounds
    <3> QED
      BY <1>0, <1>a, <2>2, <3>2, <3>4
  <2> HIDE DEF p, shared, first
  <2>6. e \in EditionRecord
    BY <2>2, <2>4, <2>5 DEF EditionRecord
  <2>7. m \in Items
    BY <2>5, NewItems DEF ItemStates
  <2> HIDE DEF e, m
  <2>8. outbox' \in Seq(Items) /\ DOMAIN outbox \subseteq DOMAIN outbox'
    BY <2>1, <2>7, TypeIs, Appended
  <2>9. approvals' \in Seq(Reviews) /\ Len(approvals') <= MaxApprovals
    BY <2>1, TypeIs, UsedIs
  <2>10. history' \in [consent : {"unasked", "granted", "in", "out"}, suspended : BOOLEAN,
                       resumed : SUBSET Revisions]
    BY <2>1, TypeIs
  <2> QED
    BY <1>4, <2>1, <2>3, <2>6, <2>8, <2>9, <2>10, TypeIs, TypeNext DEF Select
<1>5. ASSUME NEW i \in DOMAIN outbox, RetryProjection(i) PROVE TypeOK'
  <2>1. outbox' \in Seq(Items) /\ DOMAIN outbox' = DOMAIN outbox
    BY <1>5, TypeIs, MarkedIs DEF RetryProjection, ItemStates
  <2>2. retries' \in 0 .. MaxRetries
    BY <1>5, TypeIs, Bounds DEF RetryProjection
  <2>3. UNCHANGED <<episode, artifacts, head, archive, pass, film, approvals, edition, pointer,
                    share, future, settings, serving, history>>
    BY <1>5 DEF RetryProjection
  <2> QED
    BY <2>1, <2>2, <2>3, TypeIs, TypeNext, SMTT(60)
<1>6. ASSUME NEW paused \in BOOLEAN, ChangeSettings(paused) PROVE TypeOK'
  <2>1. settings' \in [revision : 1 .. MaxSettings, paused : BOOLEAN]
    <3>1. settings.revision + 1 \in 1 .. MaxSettings
      <4>1. settings.revision < MaxSettings
        BY <1>6 DEF ChangeSettings
      <4> QED
        BY <1>a, <4>1, Bounds
    <3> QED
      BY <1>6, <3>1 DEF ChangeSettings
  <2> QED
    BY <1>6, <2>1, TypeIs, TypeNext DEF ChangeSettings
<1>7. CASE SwitchServing
  BY <1>7, Bounds, TypeIs, TypeNext DEF SwitchServing
<1>8. ASSUME NEW enabled \in BOOLEAN, ChangeShare(enabled) PROVE TypeOK'
  <2> DEFINE revision == IF enabled /\ share.allowed THEN share.revision ELSE share.revision + 1
             row == IF enabled /\ ~edition.exists THEN Bootstrap ELSE edition
  <2>1. /\ revision <= MaxShare /\ share' = [revision |-> revision, allowed |-> enabled]
        /\ edition' = IF row.exists THEN Followed(row, revision) ELSE edition
        /\ history' = [history EXCEPT !.consent = IF enabled THEN "in" ELSE "out"]
    BY <1>8, Zenon DEF ChangeShare
  <2>2. revision \in 0 .. MaxShare /\ row \in EditionRecord
    <3>1. revision \in Nat
      BY <1>a
    <3>2. row \in EditionRecord
      BY <1>0, BootstrapIs
    <3> QED
      BY <2>1, <3>1, <3>2, Bounds
  <2> HIDE DEF revision, row
  <2>3. edition' \in EditionRecord
    BY <1>0, <2>1, <2>2, FollowedIs
  <2>4. share' \in [revision : 0 .. MaxShare, allowed : BOOLEAN]
    BY <2>1, <2>2
  <2>5. history' \in [consent : {"unasked", "granted", "in", "out"}, suspended : BOOLEAN,
                      resumed : SUBSET Revisions]
    BY <2>1, TypeIs
  <2>6. UNCHANGED <<episode, artifacts, head, archive, outbox, pass, film, approvals, pointer,
                    future, settings, serving, retries>>
    BY <1>8 DEF ChangeShare
  <2> QED
    BY <2>3, <2>4, <2>5, <2>6, TypeIs, TypeNext, SMTT(60)
<1>9. ASSUME NEW allowed \in BOOLEAN, SetFuture(allowed) PROVE TypeOK'
  <2>1. future' \in [revision : 0 .. MaxFuture, allowed : BOOLEAN]
    <3>1. future.revision + 1 \in 0 .. MaxFuture
      <4>1. future.revision < MaxFuture
        BY <1>9 DEF SetFuture
      <4> QED
        BY <1>a, <4>1, Bounds
    <3> QED
      BY <1>9, <3>1 DEF SetFuture
  <2> QED
    BY <1>9, <2>1, TypeIs, TypeNext DEF SetFuture
<1> QED
  BY <1>1, <1>2, <1>3, <1>4, <1>5, <1>6, <1>7, <1>8, <1>9 DEF Owner, Members

(* The projector's transactions keep the types.                            *)
LEMMA TypeProjector ==
    ASSUME TypeOK, EditionReviewed, Projector
    PROVE  TypeOK'
<1>0. /\ episode \in EpisodeRecord /\ edition \in EditionRecord
      /\ outbox \in Seq(Items) /\ pass \subseteq DOMAIN outbox
      /\ \A i \in DOMAIN outbox : outbox[i] \in Items
      /\ archive \in [Revisions -> {"absent", "ledger", "orphan"}]
  BY TypeIs, SequenceIs
<1>1. CASE StartDrain
  BY <1>1, TypeIs, TypeNext DEF StartDrain, Pending
<1>2. [authority |-> edition.authority, article |-> edition.article, film |-> edition.film]
        \in PointerRecord
  BY <1>0, EditionIs DEF PointerRecord
<1>3. ASSUME NEW i \in pass, IsArticle(i)
      PROVE  /\ outbox[i].revision \in Revisions /\ outbox[i].revision \in 0 .. MaxRevisions
             /\ [archive EXCEPT ![outbox[i].revision] = "ledger"]
                  \in [Revisions -> {"absent", "ledger", "orphan"}]
             /\ [episode EXCEPT !.article = outbox[i].revision] \in EpisodeRecord
  <2>1. outbox[i].revision \in Revisions
    BY <1>0, <1>3, ItemIs DEF IsArticle
  <2>2. outbox[i].revision \in 0 .. MaxRevisions
    BY <2>1, Bounds DEF Revisions
  <2>3. [episode EXCEPT !.article = outbox[i].revision] \in EpisodeRecord
    BY <1>0, <2>2, EpisodeFields
  <2> QED
    BY <1>0, <2>1, <2>2, <2>3
<1>4. ASSUME NEW i \in pass, NEW s \in ItemStates
      PROVE  Marked(i, s) \in Seq(Items) /\ DOMAIN Marked(i, s) = DOMAIN outbox
  BY <1>0, MarkedIs
<1>5. ASSUME NEW i \in pass, NEW busy \in BOOLEAN, ProjectArticle(i, busy) PROVE TypeOK'
  <2>1. IsArticle(i) /\ pass' = pass \ {i}
    BY <1>5 DEF ProjectArticle, IsArticle
  <2>2. outbox' = outbox \/ outbox' = Marked(i, "delivered") \/ outbox' = Marked(i, "held")
    BY <1>5, Zenon DEF ProjectArticle
  <2>3. outbox' \in Seq(Items) /\ DOMAIN outbox' = DOMAIN outbox
    BY <1>0, <1>4, <2>2 DEF ItemStates
  <2>4. archive' = archive \/ archive' = [archive EXCEPT ![outbox[i].revision] = "ledger"]
    BY <1>5, Zenon DEF ProjectArticle
  <2>5. episode' = episode \/ episode' = [episode EXCEPT !.article = outbox[i].revision]
    BY <1>5, Zenon DEF ProjectArticle
  <2>6. edition' = edition \/ edition' = Withdrawn(edition)
    BY <1>5, Zenon DEF ProjectArticle
  <2>7. edition' \in EditionRecord
    BY <1>0, <2>6, WithdrawnIs
  <2>8. episode' \in EpisodeRecord /\ archive' \in [Revisions -> {"absent", "ledger", "orphan"}]
    BY <1>0, <1>3, <2>1, <2>4, <2>5
  <2>9. UNCHANGED <<artifacts, head, film, approvals, pointer, share, future, settings, serving,
                    history, retries>>
    BY <1>5 DEF ProjectArticle
  <2> QED
    BY <2>1, <2>3, <2>7, <2>8, <2>9, TypeIs, TypeNext
<1>6. ASSUME NEW i \in pass, ProjectSelection(i) PROVE TypeOK'
  <2>1. pass' = pass \ {i}
    BY <1>6 DEF ProjectSelection
  <2> DEFINE hold == SelectionHold(approvals[edition.approval])
  <2>2. \/ outbox' = outbox \/ outbox' = Marked(i, "delivered")
        \/ outbox' = Marked(i, hold) /\ hold # ""
    BY <1>6, Zenon DEF ProjectSelection
  <2>3. hold \in {"", "held", "pending"}
    BY DEF SelectionHold, MediaHold
  <2> HIDE DEF hold
  <2>4. outbox' \in Seq(Items) /\ DOMAIN outbox' = DOMAIN outbox
    BY <1>0, <1>4, <2>2, <2>3 DEF ItemStates
  <2>5. pointer' = pointer \/ pointer' = [authority |-> edition.authority,
                                          article |-> edition.article, film |-> edition.film]
    BY <1>6, Zenon DEF ProjectSelection
  <2>6. edition' = edition \/ edition' = [edition EXCEPT !.projected = edition.authority]
    BY <1>6, Zenon DEF ProjectSelection
  <2>7. edition' \in EditionRecord
    BY <1>0, <2>6, EditionIs, EditionFields
  <2>8. pointer' \in PointerRecord
    BY <1>2, <2>5, TypeIs
  <2>9. UNCHANGED <<episode, artifacts, head, archive, film, approvals, share, future, settings,
                    serving, history, retries>>
    BY <1>6 DEF ProjectSelection
  <2> QED
    BY <2>1, <2>4, <2>7, <2>8, <2>9, TypeIs, TypeNext
<1>7. ASSUME NEW i \in pass, DrainDies(i) PROVE TypeOK'
  <2>1. /\ pass' = {}
        /\ \/ archive' = archive
           \/ archive' = [archive EXCEPT ![outbox[i].revision] = "ledger"] /\ IsArticle(i)
        /\ pointer' = pointer \/ pointer' = [authority |-> edition.authority,
                                             article |-> edition.article, film |-> edition.film]
    BY <1>7 DEF DrainDies, IsArticle
  <2>2. archive' \in [Revisions -> {"absent", "ledger", "orphan"}] /\ pointer' \in PointerRecord
    BY <1>0, <1>2, <1>3, <2>1, TypeIs
  <2> QED
    BY <1>7, <2>1, <2>2, TypeIs, TypeNext DEF DrainDies
<1> QED
  BY <1>1, <1>5, <1>6, <1>7 DEF Projector

(* The initial state is typed.                                             *)
LEMMA TypeInit ==
    ASSUME Init
    PROVE  TypeOK
<1>0. /\ 1 \in 1 .. MaxFacts /\ 1 \in 1 .. MaxSource /\ 1 \in 1 .. MaxSettings
      /\ 0 \in 0 .. MaxRevisions /\ 0 \in 0 .. MaxShare /\ 0 \in 0 .. MaxFuture
  BY Bounds
<1>1. episode \in EpisodeRecord /\ edition \in EditionRecord /\ pointer \in PointerRecord
  <2>1. episode \in EpisodeRecord
    BY <1>0 DEF Init, EpisodeRecord, Holds, Nothing
  <2>2. pointer \in PointerRecord
    BY <1>0 DEF Init, PointerRecord, NoPointer
  <2> QED
    BY <2>1, <2>2, NoEditionType DEF Init
<1>2. /\ artifacts \in Seq(ArtifactRecord) /\ Len(artifacts) = 0
      /\ outbox \in Seq(Items) /\ approvals \in Seq(Reviews) /\ Len(approvals) = 0
  BY EmptySeq DEF Init
<1>3. archive \in [Revisions -> {"absent", "ledger", "orphan"}]
  BY DEF Init
<1>4. /\ share \in [revision : 0 .. MaxShare, allowed : BOOLEAN]
      /\ future \in [revision : 0 .. MaxFuture, allowed : BOOLEAN]
      /\ settings \in [revision : 1 .. MaxSettings, paused : BOOLEAN]
      /\ history \in [consent : {"unasked", "granted", "in", "out"}, suspended : BOOLEAN,
                      resumed : SUBSET Revisions]
  <2>1. share \in [revision : 0 .. MaxShare, allowed : BOOLEAN]
    BY <1>0 DEF Init
  <2>2. future \in [revision : 0 .. MaxFuture, allowed : BOOLEAN]
    BY <1>0 DEF Init
  <2>3. settings \in [revision : 1 .. MaxSettings, paused : BOOLEAN]
    BY <1>0 DEF Init
  <2>4. history \in [consent : {"unasked", "granted", "in", "out"}, suspended : BOOLEAN,
                     resumed : SUBSET Revisions]
    BY DEF Init
  <2> QED
    BY <2>1, <2>2, <2>3, <2>4
<1>5. 0 \in 0 .. MaxRevisions /\ 0 \in 0 .. MaxRetries /\ 0 <= MaxRevisions /\ 0 <= MaxApprovals
  BY Bounds
<1>6. /\ head \in 0 .. Len(artifacts) /\ pass \subseteq DOMAIN outbox /\ film \in 0 .. MaxRevisions
      /\ serving \in BOOLEAN /\ retries \in 0 .. MaxRetries
  <2>1. head = 0 /\ pass = {} /\ film = 0 /\ serving = TRUE /\ retries = 0
    BY DEF Init, Nothing
  <2> QED
    BY <1>2, <1>5, <2>1
<1> QED
  BY <1>1, <1>2, <1>3, <1>4, <1>5, <1>6, TypeIs

-----------------------------------------------------------------------------
(* The ledger's part: items, files and the current revision.               *)

(* The facts of the period are numbered.                                   *)
LEMMA FactsAreNumbers ==
    ASSUME TypeOK
    PROVE  episode.facts \in Nat
  BY TypeIs, EpisodeIs, Bounds

(* A revision is delivered when its item is.                               *)
LEMMA DeliveredIs ==
    \A r : Delivered(r) <=> \E i \in DOMAIN outbox : /\ IsArticle(i) /\ outbox[i].revision = r
                                                     /\ outbox[i].state = "delivered"
  BY DEF Delivered, ItemOf, IsArticle

(* The same of the next state.                                             *)
LEMMA DeliveredNext ==
    \A r : Delivered(r)' <=> \E i \in DOMAIN outbox' : /\ outbox'[i].kind = "article"
                                                       /\ outbox'[i].revision = r
                                                       /\ outbox'[i].state = "delivered"
  BY DEF Delivered, ItemOf

(* What the ledger's part of the invariant says, of this and the next      *)
(* state.                                                                  *)
LEMMA LedgerIs ==
    LedgerSound <=>
        /\ \A i \in DOMAIN outbox : IsArticle(i) => outbox[i].revision \in Saved
        /\ \A i, j \in DOMAIN outbox :
             IsArticle(i) /\ IsArticle(j) /\ outbox[i].revision = outbox[j].revision => i = j
        /\ \A i \in pass : outbox[i].state # "delivered"
        /\ \A r \in Saved : artifacts[r].previous < r /\ artifacts[r].facts <= episode.facts
        /\ \A r \in Revisions : archive[r] = "ledger" => r \in Saved
        /\ \A r \in Saved : r > head => artifacts[r].facts < episode.facts /\ ~Delivered(r)
        /\ \A r, s \in Saved : artifacts[s].previous < r /\ r < s =>
             artifacts[r].facts < episode.facts /\ ~Delivered(r)
        /\ \A i \in DOMAIN outbox :
             outbox[i].state = "superseded" =>
               IsArticle(i) /\ artifacts[outbox[i].revision].facts < episode.facts
        /\ \A r \in Revisions : Delivered(r) => archive[r] = "ledger"
        /\ \A r \in Saved : archive[r] = "ledger" /\ artifacts[r].previous # Nothing =>
             archive[artifacts[r].previous] = "ledger"
        /\ episode.article # Nothing => Delivered(episode.article)
  BY DEF LedgerSound, OneItem, PassOpen, RevisionsInOrder, FilesSaved, SkippedOvertaken, Skipped,
         RetiredOvertaken, ArchiveSound, Saved

(* The same of the next state.                                             *)
LEMMA LedgerNext ==
    LedgerSound' <=>
        /\ \A i \in DOMAIN outbox' : outbox'[i].kind = "article" => outbox'[i].revision \in Saved'
        /\ \A i, j \in DOMAIN outbox' :
             outbox'[i].kind = "article" /\ outbox'[j].kind = "article"
             /\ outbox'[i].revision = outbox'[j].revision => i = j
        /\ \A i \in pass' : outbox'[i].state # "delivered"
        /\ \A r \in Saved' : artifacts'[r].previous < r /\ artifacts'[r].facts <= episode'.facts
        /\ \A r \in Revisions : archive'[r] = "ledger" => r \in Saved'
        /\ \A r \in Saved' : r > head' => artifacts'[r].facts < episode'.facts /\ ~Delivered(r)'
        /\ \A r, s \in Saved' : artifacts'[s].previous < r /\ r < s =>
             artifacts'[r].facts < episode'.facts /\ ~Delivered(r)'
        /\ \A i \in DOMAIN outbox' :
             outbox'[i].state = "superseded" =>
               outbox'[i].kind = "article"
               /\ artifacts'[outbox'[i].revision].facts < episode'.facts
        /\ \A r \in Revisions : Delivered(r)' => archive'[r] = "ledger"
        /\ \A r \in Saved' : archive'[r] = "ledger" /\ artifacts'[r].previous # Nothing =>
             archive'[artifacts'[r].previous] = "ledger"
        /\ episode'.article # Nothing =>
             \E i \in DOMAIN outbox' : /\ outbox'[i].kind = "article"
                                       /\ outbox'[i].revision = episode'.article
                                       /\ outbox'[i].state = "delivered"
  BY DeliveredNext DEF LedgerSound, OneItem, PassOpen, RevisionsInOrder, FilesSaved,
         SkippedOvertaken, Skipped, RetiredOvertaken, ArchiveSound, Saved, IsArticle, Revisions,
         Delivered, ItemOf

(***************************************************************************)
(* A step that saves no revision and changes no facts keeps the ledger     *)
(* sound if it delivers only what has its file and the facts of today,     *)
(* writes files in order and takes back nothing.                           *)
(***************************************************************************)
ItemsKept ==
  /\ \A i \in DOMAIN outbox :
       /\ i \in DOMAIN outbox' /\ outbox'[i].kind = outbox[i].kind
       /\ IsArticle(i) => outbox'[i].revision = outbox[i].revision
       /\ outbox[i].state = "delivered" => outbox'[i].state = "delivered"
       /\ outbox'[i].state = "superseded" => outbox[i].state = "superseded"
  /\ \A i \in DOMAIN outbox' \ DOMAIN outbox :
       outbox'[i].kind # "article" /\ outbox'[i].state = "pending"
DeliversSoundly ==
  \A i \in DOMAIN outbox :
    IsArticle(i) /\ outbox[i].state # "delivered" /\ outbox'[i].state = "delivered" =>
      /\ archive'[outbox[i].revision] = "ledger"
      /\ artifacts[outbox[i].revision].facts = episode.facts
WritesInOrder ==
  \A r \in Revisions :
    /\ archive[r] = "ledger" => archive'[r] = "ledger"
    /\ archive'[r] = "ledger" /\ archive[r] # "ledger" =>
         /\ r \in Saved
         /\ artifacts[r].previous # Nothing => archive[artifacts[r].previous] = "ledger"

(* The ledger stays sound through such a step.                             *)
LEMMA LedgerKept ==
    ASSUME TypeOK, LedgerSound, ItemsKept, DeliversSoundly, WritesInOrder,
           UNCHANGED <<artifacts, head>>, episode'.facts = episode.facts,
           \A i \in pass' : i \in DOMAIN outbox' /\ outbox'[i].state # "delivered",
           \/ episode'.article = episode.article
           \/ \E i \in DOMAIN outbox : /\ IsArticle(i) /\ outbox[i].revision = episode'.article
                                       /\ outbox'[i].state = "delivered"
    PROVE  LedgerSound'
<1>0. /\ Saved' = Saved /\ Saved \subseteq Revisions
      /\ \A r \in Saved : artifacts[r].facts \in Nat /\ artifacts[r].previous \in 0 .. MaxRevisions
      /\ \A r \in Saved : r \in Nat
      /\ episode.facts \in Nat
  <2>1. Saved' = Saved /\ Saved \subseteq Revisions /\ \A r \in Saved : r \in Nat
    BY RevisionIs DEF Saved
  <2>2. \A r \in Saved : artifacts[r].facts \in Nat /\ artifacts[r].previous \in 0 .. MaxRevisions
    BY RevisionIs, Bounds
  <2>3. episode.facts \in Nat
    BY FactsAreNumbers
  <2> QED
    BY <2>1, <2>2, <2>3
<1>1. ASSUME NEW r, Delivered(r)'
      PROVE  Delivered(r) \/ (r \in Saved /\ archive'[r] = "ledger"
                              /\ artifacts[r].facts = episode.facts)
  <2>1. PICK i \in DOMAIN outbox' : outbox'[i].kind = "article" /\ outbox'[i].revision = r
                                    /\ outbox'[i].state = "delivered"
    BY <1>1, DeliveredNext
  <2>2. i \in DOMAIN outbox /\ IsArticle(i) /\ outbox[i].revision = r
    BY <2>1 DEF ItemsKept, IsArticle
  <2> QED
    BY <2>1, <2>2, LedgerIs, DeliveredIs DEF DeliversSoundly
<1>2. ASSUME NEW r, Delivered(r)
      PROVE  Delivered(r)'
  BY <1>2, DeliveredIs, DeliveredNext DEF ItemsKept, IsArticle
<1>3. \A i \in DOMAIN outbox' : outbox'[i].kind = "article" =>
        /\ i \in DOMAIN outbox /\ IsArticle(i) /\ outbox'[i].revision = outbox[i].revision
  BY DEF ItemsKept, IsArticle
<1>4. /\ \A i \in DOMAIN outbox' : outbox'[i].kind = "article" => outbox'[i].revision \in Saved'
      /\ \A i, j \in DOMAIN outbox' :
           outbox'[i].kind = "article" /\ outbox'[j].kind = "article"
           /\ outbox'[i].revision = outbox'[j].revision => i = j
  BY <1>0, <1>3, LedgerIs
<1>5. ASSUME NEW r \in Saved, artifacts[r].facts < episode.facts, ~Delivered(r)
      PROVE  ~Delivered(r)'
  BY <1>0, <1>1, <1>5
<1>6. ASSUME NEW i \in DOMAIN outbox', outbox'[i].state = "superseded"
      PROVE  outbox'[i].kind = "article"
             /\ artifacts'[outbox'[i].revision].facts < episode'.facts
  <2>1. i \in DOMAIN outbox /\ outbox[i].state = "superseded"
    BY <1>6 DEF ItemsKept
  <2> QED
    BY <2>1, LedgerIs DEF ItemsKept, IsArticle
<1>7. ASSUME NEW r \in Revisions
      PROVE  /\ Delivered(r)' => archive'[r] = "ledger"
             /\ archive'[r] = "ledger" => r \in Saved'
  BY <1>0, <1>1, LedgerIs DEF WritesInOrder
<1>8. ASSUME NEW r \in Saved, archive'[r] = "ledger", artifacts[r].previous # Nothing
      PROVE  archive'[artifacts[r].previous] = "ledger"
  <2>1. archive[artifacts[r].previous] = "ledger"
    BY <1>0, <1>8, LedgerIs DEF WritesInOrder
  <2>2. artifacts[r].previous \in Revisions
    BY <1>0, <1>8, Bounds DEF Revisions, Nothing
  <2> QED
    BY <2>1, <2>2 DEF WritesInOrder
<1>9. episode'.article # Nothing =>
        \E i \in DOMAIN outbox' : /\ outbox'[i].kind = "article"
                                  /\ outbox'[i].revision = episode'.article
                                  /\ outbox'[i].state = "delivered"
  <2>1. CASE episode'.article = episode.article
    BY <1>2, <2>1, LedgerIs, DeliveredNext
  <2>2. CASE \E i \in DOMAIN outbox : /\ IsArticle(i) /\ outbox[i].revision = episode'.article
                                      /\ outbox'[i].state = "delivered"
    BY <2>2 DEF ItemsKept, IsArticle
  <2> QED
    BY <2>1, <2>2
<1>10. /\ \A r \in Saved : r > head => artifacts[r].facts < episode.facts /\ ~Delivered(r)'
       /\ \A r, s \in Saved : artifacts[s].previous < r /\ r < s =>
            artifacts[r].facts < episode.facts /\ ~Delivered(r)'
       /\ \A r \in Saved : artifacts[r].previous < r /\ artifacts[r].facts <= episode.facts
  BY <1>5, LedgerIs
<1> QED
  BY <1>0, <1>4, <1>6, <1>7, <1>8, <1>9, <1>10, LedgerNext

(***************************************************************************)
(* A saved revision follows the current one, and is the current one.       *)
(***************************************************************************)
Saves(state) ==
  /\ artifacts' = Append(artifacts, [facts |-> episode.facts, previous |-> head])
  /\ head' = NextRevision /\ NextRevision \in Revisions
  /\ outbox' = Append(outbox, [kind |-> "article", revision |-> NextRevision, state |-> state])
  /\ episode'.facts = episode.facts
  /\ pass' = pass

(* What saving a revision adds.                                            *)
LEMMA SavesIs ==
    ASSUME TypeOK, NEW state \in ItemStates, Saves(state)
    PROVE  /\ NextRevision \notin Saved /\ Saved' = Saved \cup {NextRevision}
           /\ \A r \in Saved : artifacts'[r] = artifacts[r] /\ r < NextRevision
           /\ artifacts'[NextRevision].facts = episode.facts
           /\ artifacts'[NextRevision].previous = head /\ head < NextRevision
           /\ \E n \in DOMAIN outbox' :
                /\ n \notin DOMAIN outbox /\ DOMAIN outbox' = DOMAIN outbox \cup {n}
                /\ outbox'[n].kind = "article" /\ outbox'[n].revision = NextRevision
                /\ outbox'[n].state = state
           /\ \A i \in DOMAIN outbox : outbox'[i] = outbox[i]
<1> DEFINE a == [facts |-> episode.facts, previous |-> head]
           m == [kind |-> "article", revision |-> NextRevision, state |-> state]
<1>1. a \in ArtifactRecord /\ m \in Items
  <2>1. Len(artifacts) \in Nat /\ head \in 0 .. MaxRevisions
    BY TypeIs, RevisionIs, Bounds
  <2>2. a \in ArtifactRecord
    BY <2>1, TypeIs, EpisodeIs DEF ArtifactRecord
  <2> QED
    BY <2>2, NewItems DEF Saves
<1>2. artifacts \in Seq(ArtifactRecord) /\ outbox \in Seq(Items) /\ head \in 0 .. Len(artifacts)
      /\ Len(artifacts) \in Nat /\ Saved = DOMAIN artifacts
  BY TypeIs, RevisionIs
<1>3. artifacts' = Append(artifacts, a) /\ outbox' = Append(outbox, m)
      /\ a.facts = episode.facts /\ a.previous = head
      /\ m.kind = "article" /\ m.revision = NextRevision /\ m.state = state
  BY DEF Saves
<1> HIDE DEF a, m
<1>4. /\ Len(artifacts') = Len(artifacts) + 1
      /\ \A i \in DOMAIN artifacts : artifacts'[i] = artifacts[i]
      /\ artifacts'[Len(artifacts) + 1] = a
  BY <1>1, <1>2, <1>3, Appended
<1>5. /\ DOMAIN outbox' = DOMAIN outbox \cup {Len(outbox) + 1}
      /\ Len(outbox) + 1 \notin DOMAIN outbox
      /\ \A i \in DOMAIN outbox : outbox'[i] = outbox[i]
      /\ outbox'[Len(outbox) + 1] = m
  BY <1>1, <1>2, <1>3, Appended
<1>6. NextRevision \notin Saved /\ Saved' = Saved \cup {NextRevision} /\ head < NextRevision
      /\ \A r \in Saved : r < NextRevision
  BY <1>2, <1>4 DEF Saved, NextRevision
<1> QED
  BY <1>2, <1>3, <1>4, <1>5, <1>6 DEF NextRevision

(* A saved revision, projected later or in the same transaction, keeps the *)
(* ledger sound.                                                           *)
LEMMA LedgerSaved ==
    ASSUME TypeOK, LedgerSound, NEW state \in ItemStates, Saves(state),
           \/ state = "pending" /\ archive' = archive /\ episode'.article = episode.article
           \/ /\ state = "delivered" /\ episode'.article = NextRevision
              /\ archive' = [archive EXCEPT ![NextRevision] = "ledger"]
              /\ head \in Revisions /\ archive[head] = "ledger"
    PROVE  LedgerSound'
<1>0. /\ NextRevision \notin Saved /\ Saved' = Saved \cup {NextRevision}
      /\ \A r \in Saved : artifacts'[r] = artifacts[r] /\ r < NextRevision
      /\ artifacts'[NextRevision].facts = episode.facts
      /\ artifacts'[NextRevision].previous = head /\ head < NextRevision
      /\ \A i \in DOMAIN outbox : outbox'[i] = outbox[i]
  BY SavesIs
<1>1. PICK n \in DOMAIN outbox' :
        /\ n \notin DOMAIN outbox /\ DOMAIN outbox' = DOMAIN outbox \cup {n}
        /\ outbox'[n].kind = "article" /\ outbox'[n].revision = NextRevision
        /\ outbox'[n].state = state
  BY SavesIs
<1>2. /\ head' = NextRevision /\ NextRevision \in Revisions /\ episode'.facts = episode.facts
      /\ pass' = pass /\ pass \subseteq DOMAIN outbox
      /\ archive \in [Revisions -> {"absent", "ledger", "orphan"}]
      /\ Saved \subseteq Revisions /\ \A r \in Revisions : r \in Nat
      /\ \A r \in Saved : artifacts[r].facts \in Nat /\ artifacts[r].previous \in 0 .. MaxRevisions
      /\ episode.facts \in Nat /\ head \in 0 .. Len(artifacts)
  <2>1. \A r \in Saved : artifacts[r].facts \in Nat /\ artifacts[r].previous \in 0 .. MaxRevisions
    BY RevisionIs, Bounds
  <2>2. episode.facts \in Nat
    BY FactsAreNumbers
  <2>3. \A r \in Revisions : r \in Nat
    BY DEF Revisions
  <2> QED
    BY <2>1, <2>2, <2>3, TypeIs, RevisionIs DEF Saves
<1>3. ASSUME NEW r, r # NextRevision
      PROVE  Delivered(r)' <=> Delivered(r)
  BY <1>0, <1>1, <1>3, DeliveredIs, DeliveredNext DEF IsArticle
<1>4. ASSUME NEW r, r = NextRevision, Delivered(r)'
      PROVE  state = "delivered"
  <2>1. PICK i \in DOMAIN outbox' : /\ outbox'[i].kind = "article"
                                    /\ outbox'[i].revision = r
                                    /\ outbox'[i].state = "delivered"
    BY <1>4, DeliveredNext
  <2>2. i = n
    BY <1>0, <1>1, <1>4, <2>1, LedgerIs DEF IsArticle
  <2> QED
    BY <1>1, <2>1, <2>2
<1>5. /\ \A i \in DOMAIN outbox' : outbox'[i].kind = "article" => outbox'[i].revision \in Saved'
      /\ \A i, j \in DOMAIN outbox' :
           outbox'[i].kind = "article" /\ outbox'[j].kind = "article"
           /\ outbox'[i].revision = outbox'[j].revision => i = j
  BY <1>0, <1>1, LedgerIs DEF IsArticle
<1>6. \A i \in pass' : outbox'[i].state # "delivered"
  BY <1>0, <1>2, LedgerIs
<1>7. \A r \in Saved' : artifacts'[r].previous < r /\ artifacts'[r].facts <= episode'.facts
  BY <1>0, <1>2, LedgerIs
<1>8. \A r \in Revisions : archive'[r] = "ledger" => r \in Saved'
  BY <1>0, <1>2, LedgerIs
<1>9. \A r \in Saved' : r > head' => artifacts'[r].facts < episode'.facts /\ ~Delivered(r)'
  <2>1. \A r \in Saved' : ~(r > head')
    BY <1>0, <1>2
  <2> QED
    BY <2>1
<1>10. ASSUME NEW r \in Saved', NEW s \in Saved', artifacts'[s].previous < r, r < s
       PROVE  artifacts'[r].facts < episode'.facts /\ ~Delivered(r)'
  <2>1. r \in Saved /\ r # NextRevision
    BY <1>0, <1>2, <1>10
  <2>2. artifacts[r].facts < episode.facts /\ ~Delivered(r)
    <3>1. CASE s = NextRevision
      BY <1>0, <1>2, <1>10, <2>1, <3>1, LedgerIs
    <3>2. CASE s # NextRevision
      BY <1>0, <1>10, <2>1, <3>2, LedgerIs
    <3> QED
      BY <3>1, <3>2
  <2> QED
    BY <1>0, <1>2, <1>3, <2>1, <2>2
<1>11. ASSUME NEW i \in DOMAIN outbox', outbox'[i].state = "superseded"
       PROVE  outbox'[i].kind = "article"
              /\ artifacts'[outbox'[i].revision].facts < episode'.facts
  BY <1>0, <1>1, <1>2, <1>11, LedgerIs DEF IsArticle
<1>12. ASSUME NEW r \in Revisions, Delivered(r)'
       PROVE  archive'[r] = "ledger"
  <2>1. CASE r = NextRevision
    BY <1>2, <1>4, <1>12, <2>1
  <2>2. CASE r # NextRevision
    <3>1. archive[r] = "ledger"
      BY <1>3, <1>12, <2>2, LedgerIs
    <3> QED
      BY <1>2, <2>2, <3>1
  <2> QED
    BY <2>1, <2>2
<1>13. ASSUME NEW r \in Saved', archive'[r] = "ledger", artifacts'[r].previous # Nothing
       PROVE  archive'[artifacts'[r].previous] = "ledger"
  <2>1. CASE r = NextRevision
    <3>1. archive[NextRevision] # "ledger"
      BY <1>0, <1>2, LedgerIs
    <3> QED
      BY <1>0, <1>2, <1>13, <2>1, <3>1
  <2>2. CASE r # NextRevision
    <3>0. r \in Saved /\ r \in Revisions /\ archive[r] = "ledger"
          /\ artifacts[r].previous # Nothing
      BY <1>0, <1>2, <1>13, <2>2
    <3>1. archive[artifacts[r].previous] = "ledger"
      BY <3>0, LedgerIs
    <3>2. artifacts[r].previous \in Revisions
      BY <1>2, <3>0, Bounds DEF Revisions, Nothing
    <3> QED
      BY <1>0, <1>2, <3>0, <3>1, <3>2
  <2> QED
    BY <2>1, <2>2
<1>14. episode'.article # Nothing =>
         \E i \in DOMAIN outbox' : /\ outbox'[i].kind = "article"
                                   /\ outbox'[i].revision = episode'.article
                                   /\ outbox'[i].state = "delivered"
  <2>1. CASE episode'.article = episode.article
    BY <1>0, <1>1, <2>1, LedgerIs, DeliveredIs DEF IsArticle
  <2>2. CASE state = "delivered" /\ episode'.article = NextRevision
    BY <1>1, <2>2
  <2> QED
    BY <2>1, <2>2
<1> QED
  BY <1>5, <1>6, <1>7, <1>8, <1>9, <1>10, <1>11, <1>12, <1>13, <1>14, LedgerNext

(***************************************************************************)
(* A change of the facts overtakes every saved revision; the current one   *)
(* is given up for the one before it when it was not delivered.            *)
(***************************************************************************)
LEMMA LedgerChanged ==
    ASSUME TypeOK, LedgerSound, ObserveChange
    PROVE  LedgerSound'
<1>0. /\ outbox \in Seq(Items) /\ episode \in EpisodeRecord /\ episode.facts \in Nat
      /\ episode.source \in 1 .. MaxSource /\ episode.source < MaxSource
  BY TypeIs, FactsAreNumbers, EpisodeIs DEF ObserveChange
<1>1. episode'.facts = episode.facts + 1 /\ episode'.article = episode.article
  BY <1>0 DEF ObserveChange, Observed, EpisodeRecord
<1>2. /\ DOMAIN outbox' = DOMAIN outbox
      /\ \A i \in DOMAIN outbox : /\ outbox'[i].kind = outbox[i].kind
                                  /\ IsArticle(i) => outbox'[i].revision = outbox[i].revision
                                  /\ IF i \in Retired THEN outbox'[i].state = "superseded"
                                     ELSE outbox'[i] = outbox[i]
  BY <1>0, RetiredItems DEF ObserveChange
<1>3. UNCHANGED <<artifacts, archive, pass>> /\ Saved' = Saved /\ pass \subseteq DOMAIN outbox
  BY TypeIs DEF ObserveChange, Saved
<1>4. /\ \A r \in Saved : artifacts[r].facts \in Nat /\ r \in Nat
                          /\ artifacts[r].previous \in 0 .. MaxRevisions
      /\ Saved \subseteq Revisions /\ head \in 0 .. Len(artifacts) /\ Len(artifacts) \in Nat
  <2>1. \A r \in Saved : artifacts[r].facts \in Nat /\ artifacts[r].previous \in 0 .. MaxRevisions
    BY RevisionIs, Bounds
  <2>2. \A r \in Saved : r \in Nat
    BY DEF Saved
  <2> QED
    BY <2>1, <2>2, RevisionIs, TypeIs
<1>5. \A i \in Retired : /\ i \in DOMAIN outbox /\ IsArticle(i) /\ outbox[i].revision = head
                         /\ outbox[i].state # "delivered"
                         /\ artifacts[head].previous # Nothing
  BY DEF Retired, IsArticle
<1>6. ASSUME NEW r
      PROVE  Delivered(r)' <=> Delivered(r)
  BY <1>2, <1>5, DeliveredIs, DeliveredNext DEF IsArticle
<1>7. \A r \in Saved : artifacts[r].facts < episode'.facts
  BY <1>0, <1>1, <1>4, LedgerIs
<1>8. ASSUME NEW r \in Saved, r > head'
      PROVE  ~Delivered(r)
  <2>1. CASE Retired = {}
    BY <1>8, <2>1, LedgerIs DEF ObserveChange
  <2>2. CASE Retired # {}
    <3>1. PICK i \in Retired : TRUE
      BY <2>2
    <3>2. head \in Saved /\ head' = artifacts[head].previous
      BY <1>5, <2>2, <3>1, LedgerIs DEF ObserveChange
    <3>3. ~Delivered(head)
      BY <1>5, <3>1, DeliveredIs, LedgerIs
    <3>4. CASE r = head
      BY <3>3, <3>4
    <3>5. CASE r > head
      BY <3>5, LedgerIs
    <3>6. CASE r < head
      BY <1>8, <3>2, <3>6, LedgerIs
    <3> QED
      BY <1>4, <3>4, <3>5, <3>6
  <2> QED
    BY <2>1, <2>2
<1>9. /\ \A i \in DOMAIN outbox' : outbox'[i].kind = "article" => outbox'[i].revision \in Saved'
      /\ \A i, j \in DOMAIN outbox' :
           outbox'[i].kind = "article" /\ outbox'[j].kind = "article"
           /\ outbox'[i].revision = outbox'[j].revision => i = j
  BY <1>2, <1>3, LedgerIs DEF IsArticle
<1>10. \A i \in pass' : outbox'[i].state # "delivered"
  BY <1>2, <1>3, LedgerIs
<1>11. ASSUME NEW i \in DOMAIN outbox', outbox'[i].state = "superseded"
       PROVE  outbox'[i].kind = "article"
              /\ artifacts'[outbox'[i].revision].facts < episode'.facts
  <2>1. IsArticle(i) /\ i \in DOMAIN outbox
    BY <1>2, <1>5, <1>11, LedgerIs
  <2>2. outbox'[i].kind = "article" /\ outbox'[i].revision = outbox[i].revision
        /\ outbox[i].revision \in Saved
    BY <1>2, <2>1, LedgerIs DEF IsArticle
  <2> QED
    BY <1>3, <1>7, <2>2
<1>12. /\ \A r \in Revisions : Delivered(r)' => archive'[r] = "ledger"
       /\ \A r \in Revisions : archive'[r] = "ledger" => r \in Saved'
       /\ \A r \in Saved' : archive'[r] = "ledger" /\ artifacts'[r].previous # Nothing =>
            archive'[artifacts'[r].previous] = "ledger"
  BY <1>3, <1>6, LedgerIs
<1>13. \A r \in Saved' : artifacts'[r].previous < r /\ artifacts'[r].facts <= episode'.facts
  BY <1>0, <1>1, <1>3, <1>4, LedgerIs
<1>14. /\ \A r \in Saved' : r > head' => artifacts'[r].facts < episode'.facts /\ ~Delivered(r)'
       /\ \A r, s \in Saved' : artifacts'[s].previous < r /\ r < s =>
            artifacts'[r].facts < episode'.facts /\ ~Delivered(r)'
  BY <1>3, <1>6, <1>7, <1>8, LedgerIs
<1>15. episode'.article # Nothing =>
         \E i \in DOMAIN outbox' : /\ outbox'[i].kind = "article"
                                   /\ outbox'[i].revision = episode'.article
                                   /\ outbox'[i].state = "delivered"
  BY <1>1, <1>6, LedgerIs, DeliveredNext
<1> QED
  BY <1>9, <1>10, <1>11, <1>12, <1>13, <1>14, <1>15, LedgerNext

(* A step that leaves the items, the files and the article alone keeps the *)
(* ledger sound.                                                           *)
LEMMA LedgerQuiet ==
    ASSUME TypeOK, LedgerSound, UNCHANGED <<artifacts, head, archive, outbox>>,
           pass' \subseteq DOMAIN outbox, \A i \in pass' : outbox[i].state # "delivered",
           episode'.facts = episode.facts, episode'.article = episode.article
    PROVE  LedgerSound'
<1>1. ItemsKept /\ DeliversSoundly /\ WritesInOrder
  BY DEF ItemsKept, DeliversSoundly, WritesInOrder, IsArticle
<1> QED
  BY <1>1, LedgerKept

(* Marking an item that is not delivered leaves the others as they were.   *)
LEMMA MarkingKeeps ==
    ASSUME TypeOK, NEW i \in DOMAIN outbox, NEW s \in {"pending", "held", "delivered"},
           outbox[i].state # "delivered", outbox' = Marked(i, s)
    PROVE  /\ ItemsKept /\ DOMAIN outbox' = DOMAIN outbox
           /\ outbox'[i].state = s
           /\ \A j \in DOMAIN outbox : j # i => outbox'[j] = outbox[j]
<1>1. outbox \in Seq(Items) /\ s \in ItemStates
  BY TypeIs DEF ItemStates
<1>2. /\ DOMAIN outbox' = DOMAIN outbox
      /\ \A j \in DOMAIN outbox : /\ outbox'[j].kind = outbox[j].kind
                                  /\ IsArticle(j) => outbox'[j].revision = outbox[j].revision
                                  /\ j # i => outbox'[j] = outbox[j]
      /\ outbox'[i].state = s
  BY <1>1, MarkedIs
<1> QED
  BY <1>2 DEF ItemsKept, IsArticle

(* The period's transactions keep the ledger sound.                        *)
LEMMA LedgerPeriod ==
    ASSUME TypeOK, LedgerSound, Period
    PROVE  LedgerSound'
<1>0. episode \in EpisodeRecord /\ episode.source \in 1 .. MaxSource
      /\ pass \subseteq DOMAIN outbox /\ \A i \in pass : outbox[i].state # "delivered"
  BY TypeIs, EpisodeIs, LedgerIs
<1>1. CASE ObserveSame
  <2>1. episode'.facts = episode.facts /\ episode'.article = episode.article
    BY <1>0, <1>1 DEF ObserveSame, Observed, EpisodeRecord
  <2> QED
    BY <1>0, <1>1, <2>1, LedgerQuiet DEF ObserveSame
<1>2. CASE ObserveIncomplete
  <2>1. episode'.facts = episode.facts /\ episode'.article = episode.article
    BY <1>0, <1>2 DEF ObserveIncomplete, Observed, EpisodeRecord
  <2> QED
    BY <1>0, <1>2, <2>1, LedgerQuiet DEF ObserveIncomplete
<1>3. CASE ObserveChange
  BY <1>3, LedgerChanged
<1>4. CASE SaveArticle
  BY <1>4, LedgerSaved DEF SaveArticle, Saves, ItemStates
<1>5. CASE FinishFilm
  BY <1>0, <1>5, LedgerQuiet DEF FinishFilm
<1> QED
  BY <1>1, <1>2, <1>3, <1>4, <1>5 DEF Period

(* A revision that is not saved yet has no file of the ledger, and one is  *)
(* only written behind the file of its predecessor.                        *)
LEMMA NextIsNew ==
    ASSUME TypeOK, LedgerSound, NextRevision \in Revisions
    PROVE  archive[NextRevision] # "ledger"
<1>1. NextRevision \notin Saved
  BY RevisionIs DEF NextRevision, Saved
<1> QED
  BY <1>1, LedgerIs

(* The transactions of the owner and the members keep the ledger sound.    *)
LEMMA LedgerOwner ==
    ASSUME TypeOK, LedgerSound, Owner \/ Members
    PROVE  LedgerSound'
<1>0. episode \in EpisodeRecord /\ archive \in [Revisions -> {"absent", "ledger", "orphan"}]
      /\ pass \subseteq DOMAIN outbox /\ \A i \in pass : outbox[i].state # "delivered"
  BY TypeIs, LedgerIs
<1>1. ASSUME NEW committed \in BOOLEAN, Revise(committed) PROVE LedgerSound'
  <2>1. /\ head # Nothing /\ Delivered(head) /\ NextRevision \in Revisions
        /\ archive[NextRevision] # "ledger" /\ ~ProjectionConflict(NextRevision, head)
    BY <1>1, NextIsNew DEF Revise
  <2>2. archive[NextRevision] = "absent"
    BY <1>0, <2>1 DEF ProjectionConflict
  <2>3. archive[head] = "ledger" /\ head \in Revisions
    <3>1. head \in Revisions
      BY <2>1, TypeIs, RevisionIs, Bounds DEF Nothing, Revisions
    <3> QED
      BY <2>1, <3>1, LedgerIs
  <2>4. CASE committed
    <3>1. episode' = [episode EXCEPT !.article = NextRevision]
          /\ archive' = [archive EXCEPT ![NextRevision] = "ledger"]
      BY <1>1, <2>4 DEF Revise
    <3>2. episode'.facts = episode.facts /\ episode'.article = NextRevision
      BY <1>0, <3>1 DEF EpisodeRecord
    <3>3. Saves("delivered") /\ "delivered" \in ItemStates
      BY <1>1, <2>1, <2>4, <3>2 DEF Revise, Saves, ItemStates
    <3> QED
      BY <2>3, <3>1, <3>2, <3>3, LedgerSaved
  <2>5. CASE ~committed
    <3>1. archive' = [archive EXCEPT ![NextRevision] = "orphan"]
          /\ UNCHANGED <<artifacts, head, episode, outbox, pass>>
      BY <1>1, <2>5 DEF Revise
    <3>2. WritesInOrder
      BY <1>0, <2>1, <3>1 DEF WritesInOrder
    <3>3. ItemsKept /\ DeliversSoundly
      BY <3>1 DEF ItemsKept, DeliversSoundly, IsArticle
    <3> QED
      BY <1>0, <3>1, <3>2, <3>3, LedgerKept
  <2> QED
    BY <2>4, <2>5
<1>2. CASE ResumeVideo
  <2>1. episode'.facts = episode.facts /\ episode'.article = episode.article
    BY <1>0, <1>2 DEF ResumeVideo, EpisodeRecord
  <2> QED
    BY <1>0, <1>2, <2>1, LedgerQuiet DEF ResumeVideo
<1>3. ASSUME NEW a \in Audiences, NEW f \in 0 .. MaxRevisions, NEW standing \in BOOLEAN,
             Approve(a, f, standing)
      PROVE  LedgerSound'
  BY <1>0, <1>3, LedgerQuiet DEF Approve
<1>4. ASSUME NEW i \in DOMAIN approvals, Select(i) PROVE LedgerSound'
  <2> DEFINE m == [kind |-> "selection", authority |-> edition.authority + 1,
                   state |-> "pending"]
  <2>1. outbox' = Append(outbox, m) /\ UNCHANGED <<artifacts, head, archive, episode, pass>>
    BY <1>4 DEF Select
  <2>2. m \in Items /\ m.kind # "article" /\ m.state = "pending"
    <3>1. edition.authority + 1 \in Nat /\ "pending" \in ItemStates
      BY TypeIs, EditionIs DEF ItemStates
    <3> QED
      BY <3>1, NewItems
  <2> HIDE DEF m
  <2>3. /\ DOMAIN outbox' = DOMAIN outbox \cup {Len(outbox) + 1}
        /\ \A j \in DOMAIN outbox : outbox'[j] = outbox[j]
        /\ outbox'[Len(outbox) + 1] = m
    BY <2>1, <2>2, TypeIs, Appended
  <2>4. ItemsKept
    BY <2>2, <2>3 DEF ItemsKept, IsArticle
  <2>5. DeliversSoundly /\ WritesInOrder
    BY <2>1, <2>3 DEF DeliversSoundly, WritesInOrder
  <2> QED
    BY <1>0, <2>1, <2>3, <2>4, <2>5, LedgerKept
<1>5. ASSUME NEW i \in DOMAIN outbox, RetryProjection(i) PROVE LedgerSound'
  <2>1. outbox' = Marked(i, "pending") /\ outbox[i].state # "delivered"
        /\ UNCHANGED <<artifacts, head, archive, episode, pass>>
    BY <1>5 DEF RetryProjection
  <2>2. /\ ItemsKept /\ DOMAIN outbox' = DOMAIN outbox /\ outbox'[i].state = "pending"
        /\ \A j \in DOMAIN outbox : j # i => outbox'[j] = outbox[j]
    BY <2>1, MarkingKeeps
  <2>3. DeliversSoundly /\ WritesInOrder
    BY <2>1, <2>2 DEF DeliversSoundly, WritesInOrder
  <2> QED
    BY <1>0, <2>1, <2>2, <2>3, LedgerKept
<1>6. ASSUME NEW paused \in BOOLEAN, ChangeSettings(paused) PROVE LedgerSound'
  BY <1>0, <1>6, LedgerQuiet DEF ChangeSettings
<1>7. CASE SwitchServing
  BY <1>0, <1>7, LedgerQuiet DEF SwitchServing
<1>8. ASSUME NEW enabled \in BOOLEAN, ChangeShare(enabled) PROVE LedgerSound'
  BY <1>0, <1>8, LedgerQuiet DEF ChangeShare
<1>9. ASSUME NEW allowed \in BOOLEAN, SetFuture(allowed) PROVE LedgerSound'
  BY <1>0, <1>9, LedgerQuiet DEF SetFuture
<1> QED
  BY <1>1, <1>2, <1>3, <1>4, <1>5, <1>6, <1>7, <1>8, <1>9 DEF Owner, Members

(* A text is published from the facts of today, behind its predecessor.    *)
LEMMA MayProject ==
    ASSUME TypeOK, LedgerSound, NEW r \in Saved
    PROVE  /\ TextHold(r) = "" => artifacts[r].facts = episode.facts
           /\ ~ProjectionConflict(r, artifacts[r].previous) =>
                /\ archive[r] \in {"absent", "ledger"}
                /\ archive[r] = "absent" /\ artifacts[r].previous # Nothing =>
                     archive[artifacts[r].previous] = "ledger"
<1>1. TextHold(r) = "" => artifacts[r].facts = episode.facts
  BY DEF TextHold
<1>2. r \in Revisions /\ archive \in [Revisions -> {"absent", "ledger", "orphan"}]
  BY RevisionIs, TypeIs
<1>3. ASSUME ~ProjectionConflict(r, artifacts[r].previous)
      PROVE  /\ archive[r] # "orphan"
             /\ archive[r] = "absent" /\ artifacts[r].previous # Nothing =>
                  archive[artifacts[r].previous] = "ledger"
  BY <1>3, Zenon DEF ProjectionConflict
<1>4. archive[r] # "orphan" => archive[r] \in {"absent", "ledger"}
  BY <1>2
<1> QED
  BY <1>1, <1>3, <1>4

(* The file of a text that may be published is written in order.           *)
LEMMA FileWritten ==
    ASSUME TypeOK, LedgerSound, NEW r \in Saved,
           ~ProjectionConflict(r, artifacts[r].previous),
           archive' = [archive EXCEPT ![r] = "ledger"]
    PROVE  WritesInOrder /\ archive'[r] = "ledger"
<1>1. r \in Revisions /\ archive \in [Revisions -> {"absent", "ledger", "orphan"}]
  BY RevisionIs, TypeIs
<1>2. archive[r] # "ledger" /\ artifacts[r].previous # Nothing =>
        archive[artifacts[r].previous] = "ledger"
  BY MayProject
<1> QED
  BY <1>1, <1>2 DEF WritesInOrder

(* The projector's transactions keep the ledger sound.                     *)
LEMMA LedgerProjector ==
    ASSUME TypeOK, LedgerSound, Projector
    PROVE  LedgerSound'
<1>0. episode \in EpisodeRecord /\ pass \subseteq DOMAIN outbox
      /\ \A i \in pass : outbox[i].state # "delivered"
  BY TypeIs, LedgerIs
<1>1. CASE StartDrain
  BY <1>1, LedgerQuiet DEF StartDrain, Pending
<1>2. ASSUME NEW i \in pass, NEW busy \in BOOLEAN, ProjectArticle(i, busy) PROVE LedgerSound'
  <2> DEFINE r == outbox[i].revision
             done == /\ TextHold(r) = "" /\ ~ProjectionConflict(r, artifacts[r].previous)
                     /\ outbox' = Marked(i, "delivered")
                     /\ archive' = [archive EXCEPT ![r] = "ledger"]
                     /\ episode' = [episode EXCEPT !.article = r]
  <2>1. /\ IsArticle(i) /\ pass' = pass \ {i} /\ UNCHANGED <<artifacts, head>>
        /\ \/ done
           \/ UNCHANGED <<archive, episode>>
              /\ (outbox' = outbox \/ outbox' = Marked(i, "held"))
    BY <1>2, Zenon DEF ProjectArticle, IsArticle
  <2>2. r \in Saved
    BY <1>0, <2>1, LedgerIs
  <2> HIDE DEF r
  <2>3. CASE done
    <3>1. episode'.facts = episode.facts /\ episode'.article = r
      BY <1>0, <2>3 DEF EpisodeRecord
    <3>2. /\ ItemsKept /\ DOMAIN outbox' = DOMAIN outbox /\ outbox'[i].state = "delivered"
          /\ \A j \in DOMAIN outbox : j # i => outbox'[j] = outbox[j]
      BY <1>0, <2>3, MarkingKeeps
    <3>3. WritesInOrder /\ archive'[r] = "ledger" /\ artifacts[r].facts = episode.facts
      BY <2>2, <2>3, FileWritten, MayProject
    <3>4. DeliversSoundly
      BY <3>2, <3>3 DEF DeliversSoundly, r
    <3>5. \A j \in pass' : j \in DOMAIN outbox' /\ outbox'[j].state # "delivered"
      BY <1>0, <2>1, <3>2
    <3>6. i \in DOMAIN outbox /\ outbox[i].revision = episode'.article
      BY <1>0, <3>1 DEF r
    <3> QED
      BY <2>1, <3>1, <3>2, <3>3, <3>4, <3>5, <3>6, LedgerKept
  <2>4. CASE UNCHANGED <<archive, episode, outbox>>
    BY <1>0, <2>1, <2>4, LedgerQuiet
  <2>5. CASE UNCHANGED <<archive, episode>> /\ outbox' = Marked(i, "held")
    <3>1. /\ ItemsKept /\ DOMAIN outbox' = DOMAIN outbox /\ outbox'[i].state = "held"
          /\ \A j \in DOMAIN outbox : j # i => outbox'[j] = outbox[j]
      BY <1>0, <2>5, MarkingKeeps
    <3>2. DeliversSoundly /\ WritesInOrder
      BY <2>5, <3>1 DEF DeliversSoundly, WritesInOrder
    <3> QED
      BY <1>0, <2>1, <2>5, <3>1, <3>2, LedgerKept
  <2> QED
    BY <2>1, <2>3, <2>4, <2>5
<1>3. ASSUME NEW i \in pass, ProjectSelection(i) PROVE LedgerSound'
  <2> DEFINE hold == SelectionHold(approvals[edition.approval])
  <2>1. /\ ~IsArticle(i) /\ pass' = pass \ {i} /\ UNCHANGED <<artifacts, head, archive, episode>>
        /\ \/ outbox' = outbox \/ outbox' = Marked(i, "delivered")
           \/ outbox' = Marked(i, hold) /\ hold # ""
    BY <1>3, Zenon DEF ProjectSelection, IsArticle
  <2>2. hold \in {"", "held", "pending"}
    BY DEF SelectionHold, MediaHold
  <2> HIDE DEF hold
  <2>3. CASE outbox' = outbox
    BY <1>0, <2>1, <2>3, LedgerQuiet
  <2>4. ASSUME NEW s \in {"pending", "held", "delivered"}, outbox' = Marked(i, s)
        PROVE  LedgerSound'
    <3>1. /\ ItemsKept /\ DOMAIN outbox' = DOMAIN outbox
          /\ \A j \in DOMAIN outbox : j # i => outbox'[j] = outbox[j]
      BY <1>0, <2>4, MarkingKeeps
    <3>2. DeliversSoundly /\ WritesInOrder
      BY <2>1, <3>1 DEF DeliversSoundly, WritesInOrder
    <3> QED
      BY <1>0, <2>1, <3>1, <3>2, LedgerKept
  <2> QED
    BY <2>1, <2>2, <2>3, <2>4
<1>4. ASSUME NEW i \in pass, DrainDies(i) PROVE LedgerSound'
  <2> DEFINE r == outbox[i].revision
  <2>1. /\ pass' = {} /\ UNCHANGED <<artifacts, head, outbox, episode>>
        /\ \/ archive' = archive
           \/ /\ IsArticle(i) /\ ~ProjectionConflict(r, artifacts[r].previous)
              /\ archive' = [archive EXCEPT ![r] = "ledger"]
    BY <1>4 DEF DrainDies, IsArticle
  <2> HIDE DEF r
  <2>2. CASE archive' = archive
    BY <2>1, <2>2, LedgerQuiet
  <2>3. CASE /\ IsArticle(i) /\ ~ProjectionConflict(r, artifacts[r].previous)
             /\ archive' = [archive EXCEPT ![r] = "ledger"]
    <3>1. r \in Saved
      BY <1>0, <2>3, LedgerIs DEF r
    <3>2. WritesInOrder
      BY <2>3, <3>1, FileWritten
    <3>3. ItemsKept /\ DeliversSoundly
      BY <2>1 DEF ItemsKept, DeliversSoundly, IsArticle
    <3> QED
      BY <2>1, <3>2, <3>3, LedgerKept
  <2> QED
    BY <2>1, <2>2, <2>3
<1> QED
  BY <1>1, <1>2, <1>3, <1>4 DEF Projector

-----------------------------------------------------------------------------
(* The selections' part: reviews, the edition, sharing decisions.          *)

(* What the selections' part of the invariant says, of this and the next   *)
(* state.                                                                  *)
LEMMA SelectionsIs ==
    SelectionsSound <=>
        /\ share.allowed => share.revision > 0 /\ history.consent \in {"in", "granted"}
        /\ \A i \in DOMAIN approvals :
             /\ approvals[i].film \in {Nothing, approvals[i].article}
             /\ approvals[i].authority <= edition.authority
             /\ approvals[i].standing => StandingSound(approvals[i], edition, history)
        /\ ~edition.exists => edition = NoEdition
        /\ edition.approval \in {0} \cup DOMAIN approvals
        /\ edition.approval = 0 => edition.film = Nothing
        /\ edition.approval # 0 => /\ approvals[edition.approval].consumed
                                   /\ approvals[edition.approval].film = edition.film
                                   /\ approvals[edition.approval].article = edition.article
                                   /\ approvals[edition.approval].facts = edition.facts
        /\ pointer.authority <= edition.authority
        /\ pointer.authority = edition.authority =>
             pointer.article = edition.article /\ pointer.film = edition.film
  BY DEF SelectionsSound, ShareDecided, ReviewsSound, EditionReviewed, PointerBehind

(* The same of the next state.                                             *)
LEMMA SelectionsNext ==
    SelectionsSound' <=>
        /\ share'.allowed => share'.revision > 0 /\ history'.consent \in {"in", "granted"}
        /\ \A i \in DOMAIN approvals' :
             /\ approvals'[i].film \in {Nothing, approvals'[i].article}
             /\ approvals'[i].authority <= edition'.authority
             /\ approvals'[i].standing => StandingSound(approvals'[i], edition', history')
        /\ ~edition'.exists => edition' = NoEdition
        /\ edition'.approval \in {0} \cup DOMAIN approvals'
        /\ edition'.approval = 0 => edition'.film = Nothing
        /\ edition'.approval # 0 => /\ approvals'[edition'.approval].consumed
                                    /\ approvals'[edition'.approval].film = edition'.film
                                    /\ approvals'[edition'.approval].article = edition'.article
                                    /\ approvals'[edition'.approval].facts = edition'.facts
        /\ pointer'.authority <= edition'.authority
        /\ pointer'.authority = edition'.authority =>
             pointer'.article = edition'.article /\ pointer'.film = edition'.film
  BY DEF SelectionsSound, ShareDecided, ReviewsSound, EditionReviewed, PointerBehind, NoEdition,
         Nothing

(***************************************************************************)
(* An edition that keeps what it shows under the same authority, or that   *)
(* takes a new one, keeps the selections sound.                            *)
(***************************************************************************)
Shows(new) ==
  /\ new.exists = edition.exists /\ new.approval = edition.approval /\ new.film = edition.film
  /\ new.article = edition.article /\ new.facts = edition.facts

(* The selections stay sound through such a step.                          *)
LEMMA SelectionsKept ==
    ASSUME TypeOK, SelectionsSound, UNCHANGED approvals, history.resumed \subseteq history'.resumed,
           share'.allowed => share'.revision > 0 /\ history'.consent \in {"in", "granted"},
           edition' \in EditionRecord, Shows(edition'),
           edition.exists \/ edition' = edition,
           \/ edition'.authority = edition.authority /\ edition'.withdrawn = edition.withdrawn
           \/ edition'.authority > edition.authority,
           \/ pointer' = pointer
           \/ /\ pointer'.authority = edition'.authority
              /\ pointer'.article = edition'.article /\ pointer'.film = edition'.film
    PROVE  SelectionsSound'
<1>0. /\ edition.authority \in Nat /\ edition'.authority \in Nat /\ pointer.authority \in Nat
      /\ \A i \in DOMAIN approvals : approvals[i].authority \in Nat
  <2>1. \A i \in DOMAIN approvals : approvals[i] \in Reviews
    BY TypeIs, SequenceIs
  <2>2. pointer.authority \in Nat
    BY TypeIs DEF PointerRecord
  <2> QED
    BY <2>1, <2>2, TypeIs, EditionIs, ReviewIs
<1>1. ~edition'.exists => edition' = NoEdition
  BY SelectionsIs DEF Shows
<1>2. ASSUME NEW i \in DOMAIN approvals'
      PROVE  /\ approvals'[i].film \in {Nothing, approvals'[i].article}
             /\ approvals'[i].authority <= edition'.authority
             /\ approvals'[i].standing => StandingSound(approvals'[i], edition', history')
  <2>1. /\ approvals'[i] = approvals[i] /\ approvals[i].authority <= edition.authority
        /\ approvals[i].film \in {Nothing, approvals[i].article}
        /\ approvals[i].standing => StandingSound(approvals[i], edition, history)
    BY SelectionsIs
  <2>2. approvals[i].authority <= edition'.authority
    BY <1>0, <2>1
  <2>3. approvals[i].standing => StandingSound(approvals[i], edition', history')
    BY <1>0, <2>1 DEF StandingSound, Shows
  <2> QED
    BY <2>1, <2>2, <2>3
<1>3. /\ edition'.approval \in {0} \cup DOMAIN approvals'
      /\ edition'.approval = 0 => edition'.film = Nothing
      /\ edition'.approval # 0 => /\ approvals'[edition'.approval].consumed
                                  /\ approvals'[edition'.approval].film = edition'.film
                                  /\ approvals'[edition'.approval].article = edition'.article
                                  /\ approvals'[edition'.approval].facts = edition'.facts
  BY SelectionsIs DEF Shows
<1>4. /\ pointer'.authority <= edition'.authority
      /\ pointer'.authority = edition'.authority =>
           pointer'.article = edition'.article /\ pointer'.film = edition'.film
  BY <1>0, SelectionsIs DEF Shows
<1> QED
  BY <1>1, <1>2, <1>3, <1>4, SelectionsNext

(* A step that leaves reviews, edition and sharing alone keeps the         *)
(* selections sound.                                                       *)
LEMMA SelectionsQuiet ==
    ASSUME TypeOK, SelectionsSound, UNCHANGED <<approvals, edition, pointer, share>>,
           history'.consent = history.consent, history.resumed \subseteq history'.resumed
    PROVE  SelectionsSound'
  BY TypeIs, SelectionsIs, SelectionsKept DEF Shows

(* Withdrawing an edition keeps the selections sound.                      *)
LEMMA SelectionsWithdrawn ==
    ASSUME TypeOK, SelectionsSound, UNCHANGED <<approvals, pointer, share>>,
           history'.consent = history.consent, history.resumed \subseteq history'.resumed,
           edition' = Withdrawn(edition), edition.exists
    PROVE  SelectionsSound'
<1>1. edition \in EditionRecord /\ edition.authority \in Nat
  BY TypeIs, EditionIs
<1>2. /\ edition' \in EditionRecord /\ Shows(edition') /\ edition'.authority = edition.authority + 1
  BY <1>1, WithdrawnIs DEF Shows
<1>3. edition'.authority > edition.authority
  BY <1>1, <1>2
<1> QED
  BY <1>2, <1>3, SelectionsIs, SelectionsKept

(* The period's transactions keep the selections sound.                    *)
LEMMA SelectionsPeriod ==
    ASSUME TypeOK, SelectionsSound, Period
    PROVE  SelectionsSound'
<1>1. CASE ObserveSame
  BY <1>1, SelectionsQuiet DEF ObserveSame
<1>2. CASE ObserveIncomplete
  BY <1>2, SelectionsQuiet DEF ObserveIncomplete
<1>3. CASE ObserveChange
  <2> DEFINE b == history.suspended \/ edition.exists \/ episode.article # Nothing \/ film # Nothing
  <2>1. history' = [history EXCEPT !.suspended = b]
    BY <1>3, Zenon DEF ObserveChange
  <2> HIDE DEF b
  <2>2. history'.consent = history.consent /\ history'.resumed = history.resumed
    BY <2>1, TypeIs
  <2>3. CASE NeedsWithdrawal
    BY <1>3, <2>2, <2>3, SelectionsWithdrawn DEF ObserveChange, NeedsWithdrawal
  <2>4. CASE ~NeedsWithdrawal
    BY <1>3, <2>2, <2>4, SelectionsQuiet DEF ObserveChange
  <2> QED
    BY <2>3, <2>4
<1>4. CASE SaveArticle
  BY <1>4, SelectionsQuiet DEF SaveArticle
<1>5. CASE FinishFilm
  BY <1>5, SelectionsQuiet DEF FinishFilm
<1> QED
  BY <1>1, <1>2, <1>3, <1>4, <1>5 DEF Period

(* A recorded review is of the edition as it is.                           *)
LEMMA SelectionsApprove ==
    ASSUME TypeOK, SelectionsSound, NEW a \in Audiences, NEW f \in 0 .. MaxRevisions,
           NEW standing \in BOOLEAN, Approve(a, f, standing), TypeOK'
    PROVE  SelectionsSound'
<1>0. /\ approvals \in Seq(Reviews) /\ Len(approvals) \in Nat
      /\ DOMAIN approvals = 1 .. Len(approvals)
      /\ UNCHANGED <<edition, pointer, share, history>>
      /\ edition.authority \in Nat
  BY TypeIs, SequenceIs, EditionIs DEF Approve
<1> DEFINE p == [authority |-> edition.authority, film |-> f, article |-> episode.article,
                 facts |-> episode.facts, source |-> episode.source,
                 settings |-> settings.revision, share |-> share.revision,
                 future |-> future.revision, audience |-> a, standing |-> standing,
                 consumed |-> FALSE]
<1>1. approvals' = Append(approvals, p)
  BY DEF Approve
<1>2. p.authority = edition.authority /\ p.film \in {Nothing, p.article}
  BY DEF Approve, ScopeHolds, FilmCurrent
<1>3. p.standing => StandingSound(p, edition, history)
  <2>1. standing => StandingMay(a, f)
    BY DEF Approve
  <2>2. ~edition.exists => ~edition.withdrawn /\ edition.film = Nothing
    BY SelectionsIs DEF NoEdition, Nothing
  <2> QED
    BY <2>1, <2>2 DEF StandingMay, Resumed, StandingSound
<1> HIDE DEF p
<1>4. /\ DOMAIN approvals' = DOMAIN approvals \cup {Len(approvals) + 1}
      /\ \A i \in DOMAIN approvals : approvals'[i] = approvals[i]
      /\ approvals'[Len(approvals) + 1] = p
  <2>1. approvals' \in Seq(Reviews)
    BY TypeNext
  <2>2. /\ Len(Append(approvals, p)) = Len(approvals) + 1
        /\ \A i \in 1 .. Len(approvals) : Append(approvals, p)[i] = approvals[i]
        /\ Append(approvals, p)[Len(approvals) + 1] = p
    BY <1>0
  <2>3. DOMAIN approvals' = 1 .. Len(approvals')
    BY <2>1, SequenceIs
  <2> QED
    BY <1>0, <1>1, <2>2, <2>3
<1>5. ASSUME NEW i \in DOMAIN approvals'
      PROVE  /\ approvals'[i].film \in {Nothing, approvals'[i].article}
             /\ approvals'[i].authority <= edition'.authority
             /\ approvals'[i].standing => StandingSound(approvals'[i], edition', history')
  <2>1. CASE i \in DOMAIN approvals
    BY <1>0, <1>4, <2>1, SelectionsIs
  <2>2. CASE i = Len(approvals) + 1
    BY <1>0, <1>2, <1>3, <1>4, <2>2
  <2> QED
    BY <1>4, <2>1, <2>2
<1>6. /\ edition'.approval \in {0} \cup DOMAIN approvals'
      /\ edition'.approval # 0 => /\ approvals'[edition'.approval].consumed
                                  /\ approvals'[edition'.approval].film = edition'.film
                                  /\ approvals'[edition'.approval].article = edition'.article
                                  /\ approvals'[edition'.approval].facts = edition'.facts
  BY <1>0, <1>4, SelectionsIs
<1> QED
  BY <1>0, <1>5, <1>6, SelectionsIs, SelectionsNext

(* A selection shows what its review was of, under a new authority.        *)
LEMMA SelectionsSelect ==
    ASSUME TypeOK, SelectionsSound, NEW i \in DOMAIN approvals, Select(i)
    PROVE  SelectionsSound'
<1> DEFINE p == approvals[i]
           first == share.revision = 0 /\ p.audience = "public"
           shared == IF first THEN [revision |-> 1, allowed |-> TRUE] ELSE share
<1>0. /\ approvals \in Seq(Reviews) /\ edition.authority \in Nat /\ pointer.authority \in Nat
      /\ \A j \in DOMAIN approvals : approvals[j] \in Reviews /\ approvals[j].authority \in Nat
      /\ DOMAIN approvals = 1 .. Len(approvals)
  <2>1. \A j \in DOMAIN approvals : approvals[j] \in Reviews
    BY TypeIs, SequenceIs
  <2>2. pointer.authority \in Nat
    BY TypeIs DEF PointerRecord
  <2> QED
    BY <2>1, <2>2, TypeIs, EditionIs, SequenceIs, ReviewIs
<1>1. /\ approvals' = [approvals EXCEPT ![i].consumed = TRUE]
      /\ share' = shared /\ UNCHANGED pointer
      /\ history' = IF first /\ future.allowed THEN [history EXCEPT !.consent = "granted"]
                    ELSE history
      /\ p.audience = "public" => MayBePublic
  BY Zenon DEF Select, ScopeHolds
<1>2. /\ edition'.exists /\ edition'.article = p.article /\ edition'.facts = p.facts
      /\ edition'.film = p.film /\ edition'.approval = i
      /\ edition'.authority = edition.authority + 1 /\ ~edition'.withdrawn
  BY DEF Select
<1>3. share'.allowed => share'.revision > 0 /\ history'.consent \in {"in", "granted"}
  <2>1. CASE first
    <3>1. ~share.allowed
      BY <2>1, SelectionsIs
    <3>2. future.allowed
      BY <1>1, <2>1, <3>1 DEF MayBePublic
    <3> QED
      BY <1>1, <2>1, <3>2, TypeIs
  <2>2. CASE ~first
    BY <1>1, <2>2, SelectionsIs
  <2> QED
    BY <2>1, <2>2
<1>8. history'.resumed = history.resumed
  BY <1>1, TypeIs
<1> HIDE DEF p, first, shared
<1>4. /\ DOMAIN approvals' = DOMAIN approvals
      /\ \A j \in DOMAIN approvals : /\ approvals'[j].authority = approvals[j].authority
                                     /\ approvals'[j].film = approvals[j].film
                                     /\ approvals'[j].article = approvals[j].article
                                     /\ approvals'[j].facts = approvals[j].facts
                                     /\ approvals'[j].standing = approvals[j].standing
                                     /\ approvals'[j].audience = approvals[j].audience
      /\ approvals'[i].consumed
  BY <1>0, <1>1, UsedIs, ConsumedIs
<1>5. ASSUME NEW j \in DOMAIN approvals'
      PROVE  /\ approvals'[j].film \in {Nothing, approvals'[j].article}
             /\ approvals'[j].authority <= edition'.authority
             /\ approvals'[j].standing => StandingSound(approvals'[j], edition', history')
  <2>1. /\ approvals[j].authority <= edition.authority
        /\ approvals[j].film \in {Nothing, approvals[j].article}
        /\ approvals[j].standing => StandingSound(approvals[j], edition, history)
    BY <1>4, SelectionsIs
  <2>2. approvals[j].authority < edition'.authority
    BY <1>0, <1>2, <1>4, <2>1
  <2>3. ASSUME approvals'[j].standing
        PROVE  StandingSound(approvals'[j], edition', history')
    <3>1. StandingSound(approvals[j], edition, history)
      BY <1>4, <2>1, <2>3
    <3>2. approvals'[j].authority # edition'.authority
      BY <1>0, <1>2, <1>4, <2>2
    <3> QED
      BY <1>4, <1>8, <3>1, <3>2, Zenon DEF StandingSound
  <2> QED
    BY <1>0, <1>2, <1>4, <2>1, <2>2, <2>3
<1>6. /\ edition'.approval \in {0} \cup DOMAIN approvals' /\ edition'.approval # 0
      /\ approvals'[edition'.approval].consumed
      /\ approvals'[edition'.approval].film = edition'.film
      /\ approvals'[edition'.approval].article = edition'.article
      /\ approvals'[edition'.approval].facts = edition'.facts
  BY <1>0, <1>2, <1>4 DEF p
<1>7. pointer'.authority <= edition'.authority /\ pointer'.authority # edition'.authority
  BY <1>0, <1>1, <1>2, SelectionsIs
<1> QED
  BY <1>2, <1>3, <1>5, <1>6, <1>7, SelectionsNext

(* A sharing decision makes the edition follow it under a new authority.   *)
LEMMA SelectionsShare ==
    ASSUME TypeOK, SelectionsSound, NEW enabled \in BOOLEAN, ChangeShare(enabled)
    PROVE  SelectionsSound'
<1> DEFINE revision == IF enabled /\ share.allowed THEN share.revision ELSE share.revision + 1
           row == IF enabled /\ ~edition.exists THEN Bootstrap ELSE edition
<1>0. /\ edition \in EditionRecord /\ edition.authority \in Nat /\ pointer.authority \in Nat
      /\ share.revision \in Nat /\ share.allowed \in BOOLEAN
      /\ \A j \in DOMAIN approvals : approvals[j].authority \in Nat
  <2>1. \A j \in DOMAIN approvals : approvals[j] \in Reviews
    BY TypeIs, SequenceIs
  <2>2. pointer.authority \in Nat
    BY TypeIs DEF PointerRecord
  <2>3. share.revision \in Nat /\ share.allowed \in BOOLEAN
    BY TypeIs, Bounds
  <2> QED
    BY <2>1, <2>2, <2>3, TypeIs, EditionIs, ReviewIs
<1>1. /\ revision <= MaxShare /\ share' = [revision |-> revision, allowed |-> enabled]
      /\ edition' = IF row.exists THEN Followed(row, revision) ELSE edition
      /\ history' = [history EXCEPT !.consent = IF enabled THEN "in" ELSE "out"]
      /\ UNCHANGED <<approvals, pointer>>
  BY Zenon DEF ChangeShare
<1>2. share'.allowed => share'.revision > 0 /\ history'.consent \in {"in", "granted"}
  <2>1. CASE enabled
    <3>1. revision > 0
      BY <1>0, SelectionsIs
    <3> QED
      BY <1>1, <2>1, <3>1, TypeIs
  <2>2. CASE ~enabled
    BY <1>1, <2>2
  <2> QED
    BY <2>1, <2>2
<1>3. revision \in 0 .. MaxShare
  BY <1>0, <1>1, Bounds
<1>7. history'.resumed = history.resumed
  BY <1>1, TypeIs
<1> HIDE DEF revision
<1>4. CASE edition.exists
  <2>1. edition' = Followed(edition, revision)
    BY <1>1, <1>4
  <2>2. edition' \in EditionRecord /\ Shows(edition') /\ edition'.authority = edition.authority + 1
    BY <1>0, <1>3, <2>1, FollowedIs DEF Shows
  <2> QED
    BY <1>0, <1>1, <1>2, <1>4, <1>7, <2>2, SelectionsKept
<1>5. CASE ~edition.exists /\ ~enabled
  <2>1. edition' = edition
    BY <1>1, <1>5
  <2> QED
    BY <1>0, <1>1, <1>2, <1>7, <2>1, SelectionsKept DEF Shows
<1>6. CASE ~edition.exists /\ enabled
  <2>1. /\ Bootstrap \in EditionRecord /\ Bootstrap.exists /\ Bootstrap.authority = 0
        /\ ~Bootstrap.withdrawn /\ Bootstrap.approval = 0 /\ Bootstrap.film = Nothing
    BY BootstrapIs
  <2>2. edition' = Followed(Bootstrap, revision)
    BY <1>1, <1>6, <2>1
  <2>3. /\ edition'.exists /\ edition'.authority = 1 /\ ~edition'.withdrawn
        /\ edition'.approval = 0 /\ edition'.film = Nothing
    BY <1>3, <2>1, <2>2, FollowedIs
  <2>4. edition.authority = 0
    BY <1>6, SelectionsIs DEF NoEdition
  <2>5. /\ \A i \in DOMAIN approvals' :
             /\ approvals'[i].film \in {Nothing, approvals'[i].article}
             /\ approvals'[i].authority <= edition'.authority
             /\ approvals'[i].standing => StandingSound(approvals'[i], edition', history')
    <3>1. ASSUME NEW i \in DOMAIN approvals
          PROVE  /\ approvals[i].film \in {Nothing, approvals[i].article}
                 /\ approvals[i].authority < edition'.authority
                 /\ approvals[i].standing => StandingSound(approvals[i], edition, history)
      BY <1>0, <2>3, <2>4, SelectionsIs
    <3>2. ASSUME NEW i \in DOMAIN approvals, approvals[i].standing
          PROVE  StandingSound(approvals[i], edition', history')
      BY <1>0, <1>7, <2>3, <3>1, <3>2 DEF StandingSound
    <3> QED
      BY <1>0, <1>1, <2>3, <3>1, <3>2
  <2>6. pointer'.authority <= edition'.authority /\ pointer'.authority # edition'.authority
    BY <1>0, <1>1, <2>3, <2>4, SelectionsIs
  <2> QED
    BY <1>2, <2>3, <2>5, <2>6, SelectionsNext
<1> QED
  BY <1>4, <1>5, <1>6

(* The transactions of the owner and the members keep the selections sound.*)
LEMMA SelectionsOwner ==
    ASSUME TypeOK, SelectionsSound, Owner \/ Members, TypeOK'
    PROVE  SelectionsSound'
<1>1. ASSUME NEW committed \in BOOLEAN, Revise(committed) PROVE SelectionsSound'
  BY <1>1, SelectionsQuiet DEF Revise
<1>2. CASE ResumeVideo
  <2>1. history'.consent = history.consent /\ history.resumed \subseteq history'.resumed
    BY <1>2, TypeIs DEF ResumeVideo
  <2> QED
    BY <1>2, <2>1, SelectionsQuiet DEF ResumeVideo
<1>3. ASSUME NEW i \in DOMAIN outbox, RetryProjection(i) PROVE SelectionsSound'
  BY <1>3, SelectionsQuiet DEF RetryProjection
<1>4. ASSUME NEW paused \in BOOLEAN, ChangeSettings(paused) PROVE SelectionsSound'
  BY <1>4, SelectionsQuiet DEF ChangeSettings
<1>5. CASE SwitchServing
  BY <1>5, SelectionsQuiet DEF SwitchServing
<1>6. ASSUME NEW allowed \in BOOLEAN, SetFuture(allowed) PROVE SelectionsSound'
  BY <1>6, SelectionsQuiet DEF SetFuture
<1> QED
  BY <1>1, <1>2, <1>3, <1>4, <1>5, <1>6, SelectionsApprove, SelectionsSelect, SelectionsShare
     DEF Owner, Members

(* The projector's transactions keep the selections sound.                 *)
LEMMA SelectionsProjector ==
    ASSUME TypeOK, SelectionsSound, Projector
    PROVE  SelectionsSound'
<1>0. edition \in EditionRecord /\ edition.authority \in Nat
  BY TypeIs, EditionIs
<1>1. CASE StartDrain
  BY <1>1, SelectionsQuiet DEF StartDrain
<1>2. ASSUME NEW i \in pass, NEW busy \in BOOLEAN, ProjectArticle(i, busy)
      PROVE  SelectionsSound'
  <2>1. /\ \/ edition' = edition
           \/ edition' = Withdrawn(edition) /\ edition.exists
        /\ UNCHANGED <<approvals, pointer, share, history>>
    BY <1>2 DEF ProjectArticle, NeedsWithdrawal
  <2> QED
    BY <2>1, SelectionsQuiet, SelectionsWithdrawn
<1>3. ASSUME NEW i \in pass, ProjectSelection(i) PROVE SelectionsSound'
  <2>1. /\ UNCHANGED <<approvals, share, history>>
        /\ \/ UNCHANGED <<pointer, edition>>
           \/ /\ pointer' = [authority |-> edition.authority, article |-> edition.article,
                             film |-> edition.film]
              /\ edition' = [edition EXCEPT !.projected = edition.authority]
              /\ SelectionHold(approvals[edition.approval]) = ""
    BY <1>3, Zenon DEF ProjectSelection
  <2>2. CASE UNCHANGED <<pointer, edition>>
    BY <2>1, <2>2, SelectionsQuiet
  <2>3. CASE /\ pointer' = [authority |-> edition.authority, article |-> edition.article,
                            film |-> edition.film]
             /\ edition' = [edition EXCEPT !.projected = edition.authority]
             /\ SelectionHold(approvals[edition.approval]) = ""
    <3>1. edition' \in EditionRecord
      BY <1>0, <2>3, EditionFields
    <3>2. Shows(edition') /\ edition'.authority = edition.authority
          /\ edition'.withdrawn = edition.withdrawn
      BY <1>0, <2>3 DEF EditionRecord, Shows
    <3>3. edition.exists
      <4>1. edition.article # Nothing
        BY <2>3 DEF SelectionHold, MediaHold, ArticleCurrent, ArticlePublished
      <4> QED
        BY <4>1, SelectionsIs DEF NoEdition, Nothing
    <3>4. /\ pointer'.authority = edition'.authority /\ pointer'.article = edition'.article
          /\ pointer'.film = edition'.film
      BY <2>3, <3>2 DEF Shows
    <3> QED
      BY <2>1, <3>1, <3>2, <3>3, <3>4, SelectionsIs, SelectionsKept
  <2> QED
    BY <2>1, <2>2, <2>3
<1>4. ASSUME NEW i \in pass, DrainDies(i) PROVE SelectionsSound'
  <2>1. /\ UNCHANGED <<approvals, share, history, edition>>
        /\ \/ UNCHANGED pointer
           \/ pointer' = [authority |-> edition.authority, article |-> edition.article,
                          film |-> edition.film]
    BY <1>4 DEF DrainDies
  <2> QED
    BY <1>0, <2>1, SelectionsIs, SelectionsKept DEF Shows
<1> QED
  BY <1>1, <1>2, <1>3, <1>4 DEF Projector

-----------------------------------------------------------------------------
(* The invariant, and what follows from it.                                *)

(* A fresh deployment has no revision, no review and no edition.           *)
LEMMA InitSound ==
    ASSUME Init
    PROVE  PublicationInvariant
<1>1. TypeOK
  BY TypeInit
<1>2. /\ DOMAIN outbox = {} /\ DOMAIN approvals = {} /\ Saved = {} /\ pass = {}
      /\ episode.article = Nothing /\ \A r \in Revisions : archive[r] = "absent"
  <2>1. DOMAIN outbox = 1 .. 0 /\ DOMAIN approvals = 1 .. 0 /\ Saved = 1 .. 0
    <3>1. Len(artifacts) = 0 /\ Len(outbox) = 0 /\ Len(approvals) = 0
      BY EmptySeq DEF Init
    <3> QED
      BY <1>1, <3>1, TypeIs, SequenceIs DEF Saved
  <2>2. pass = {} /\ episode.article = Nothing /\ \A r \in Revisions : archive[r] = "absent"
    BY DEF Init
  <2> QED
    BY <2>1, <2>2
<1>3. \A r : ~Delivered(r)
  BY <1>2, DeliveredIs
<1>4. LedgerSound
  BY <1>2, <1>3, LedgerIs
<1>5. SelectionsSound
  <2>1. /\ ~share.allowed /\ edition = NoEdition /\ edition.approval = 0
        /\ edition.film = Nothing /\ edition.authority = 0
        /\ edition.article = pointer.article /\ edition.film = pointer.film
        /\ pointer.authority = 0
    BY DEF Init, NoEdition, NoPointer, Nothing
  <2> QED
    BY <1>2, <2>1, SelectionsIs
<1> QED
  BY <1>1, <1>4, <1>5 DEF PublicationInvariant

(* Every transaction keeps the invariant.                                  *)
LEMMA StepSound ==
    ASSUME PublicationInvariant, [Next]_vars
    PROVE  PublicationInvariant'
<1>0. TypeOK /\ LedgerSound /\ SelectionsSound /\ RevisionsInOrder /\ EditionReviewed
  BY DEF PublicationInvariant, LedgerSound, SelectionsSound
<1>1. CASE Period
  BY <1>0, <1>1, TypePeriod, LedgerPeriod, SelectionsPeriod DEF PublicationInvariant
<1>2. CASE Owner \/ Members
  <2>1. TypeOK'
    BY <1>0, <1>2, TypeOwner
  <2> QED
    BY <1>0, <1>2, <2>1, LedgerOwner, SelectionsOwner DEF PublicationInvariant
<1>3. CASE Projector
  BY <1>0, <1>3, TypeProjector, LedgerProjector, SelectionsProjector DEF PublicationInvariant
<1>4. CASE UNCHANGED vars
  <2>1. TypeOK'
    BY <1>0, <1>4, TypeIs, TypeNext DEF vars
  <2>2. LedgerSound'
    BY <1>0, <1>4, TypeIs, LedgerIs, LedgerQuiet DEF vars
  <2>3. SelectionsSound'
    BY <1>0, <1>4, SelectionsQuiet DEF vars
  <2> QED
    BY <2>1, <2>2, <2>3 DEF PublicationInvariant
<1> QED
  BY <1>1, <1>2, <1>3, <1>4 DEF Next

(* drain, select_publication, change_share, save_artifact, observe_period: *)
(* what they keep between them holds in every reachable state.             *)
THEOREM PublicationInvariantHolds == Spec => []PublicationInvariant
<1>1. Init => PublicationInvariant
  BY InitSound
<1>2. PublicationInvariant /\ [Next]_vars => PublicationInvariant'
  BY StepSound
<1> QED
  BY <1>1, <1>2, PTL DEF Spec

(* The tables and files hold what their columns say.                       *)
THEOREM PublicationTypes == Spec => []TypeOK
<1>1. PublicationInvariant => TypeOK
  BY DEF PublicationInvariant
<1> QED
  BY <1>1, PublicationInvariantHolds, PTL

(* project_analyst, drain: an acknowledged article has its file, and a     *)
(* file has the file of its predecessor before it.                         *)
THEOREM ArchiveIsSound == Spec => []ArchiveSound
<1>1. PublicationInvariant => ArchiveSound
  BY DEF PublicationInvariant, LedgerSound
<1> QED
  BY <1>1, PublicationInvariantHolds, PTL

(* What is served while the edition's article is current was written from  *)
(* the facts of today and is the newest one delivered.                     *)
LEMMA CurrentIsFresh ==
    ASSUME PublicationInvariant, ArticleCurrent
    PROVE  /\ edition.article = head /\ head \in Saved /\ archive[head] = "ledger"
           /\ artifacts[head].facts = episode.facts /\ edition.facts = episode.facts
           /\ \A r \in Revisions : Delivered(r) => r <= head
<1>0. TypeOK /\ LedgerSound
  BY DEF PublicationInvariant
<1>1. /\ edition.article = head /\ Delivered(head) /\ artifacts[head].facts = episode.facts
      /\ edition.facts = episode.facts
  BY DEF ArticleCurrent, ArticlePublished
<1>2. head \in Saved /\ Saved \subseteq Revisions
  BY <1>0, <1>1, LedgerIs, DeliveredIs, RevisionIs
<1>3. archive[head] = "ledger"
  BY <1>0, <1>1, <1>2, LedgerIs
<1>4. ASSUME NEW r \in Revisions, Delivered(r)
      PROVE  r <= head
  <2>1. r \in Saved
    BY <1>0, <1>4, LedgerIs, DeliveredIs
  <2>2. ~(r > head)
    BY <1>0, <1>4, <2>1, LedgerIs
  <2>3. r \in Nat /\ head \in Nat
    BY <1>2, <2>1 DEF Saved
  <2> QED
    BY <2>2, <2>3
<1> QED
  BY <1>1, <1>2, <1>3, <1>4

(* A video that is shown was reviewed with the article it is shown with.   *)
LEMMA ShownWasReviewed ==
    ASSUME PublicationInvariant, ArticleCurrent, edition.film # Nothing
    PROVE  /\ edition.approval \in DOMAIN approvals /\ edition.approval # 0
           /\ approvals[edition.approval].consumed
           /\ approvals[edition.approval].audience \in {"public", "members"}
           /\ approvals[edition.approval].film = edition.film
           /\ approvals[edition.approval].article = edition.article
           /\ approvals[edition.approval].facts = episode.facts
           /\ edition.film = edition.article
<1>0. TypeOK /\ SelectionsSound /\ edition.facts = episode.facts
  BY DEF PublicationInvariant, ArticleCurrent
<1>1. edition.approval # 0 /\ edition.approval \in DOMAIN approvals
  BY <1>0, SelectionsIs
<1>2. approvals[edition.approval] \in Reviews
  BY <1>0, <1>1, TypeIs, SequenceIs
<1> QED
  BY <1>0, <1>1, <1>2, SelectionsIs, ReviewIs

(* authorize_public_read, authorize_member_read: readers are served what   *)
(* was reviewed for them, permitted and current.                           *)
THEOREM ReadersAreServed == Spec => []ReadersServed
<1>1. ASSUME PublicationInvariant PROVE ReadersServed
  <2>1. Permitted
    <3>1. PublicView.article # Nothing => share.allowed
      BY DEF PublicView, Unavailable
    <3> QED
      BY <1>1, <3>1, SelectionsIs DEF Permitted, PublicationInvariant
  <2>2. Fresh(PublicView) /\ Reviewed(PublicView, {"public"})
    <3>1. CASE PublicView = Unavailable
      BY <3>1 DEF Fresh, Reviewed, Unavailable
    <3>2. CASE PublicView # Unavailable
      <4>1. /\ ArticleCurrent /\ PublicView.article = edition.article
            /\ PublicView.film # Nothing =>
                 /\ PublicView.film = edition.film
                 /\ edition.approval # Nothing => approvals[edition.approval].audience # "members"
        BY <3>2 DEF PublicView
      <4>2. Fresh(PublicView)
        BY <1>1, <4>1, CurrentIsFresh DEF Fresh
      <4>3. Reviewed(PublicView, {"public"})
        BY <1>1, <4>1, ShownWasReviewed DEF Reviewed, Nothing
      <4> QED
        BY <4>2, <4>3
    <3> QED
      BY <3>1, <3>2
  <2>3. Fresh(MemberView) /\ Reviewed(MemberView, {"public", "members"})
    <3>1. CASE MemberView = Unavailable
      BY <3>1 DEF Fresh, Reviewed, Unavailable
    <3>2. CASE MemberView # Unavailable
      <4>1. /\ ArticleCurrent /\ MemberView.article = edition.article
            /\ MemberView.film = edition.film
        BY <3>2 DEF MemberView
      <4>2. Fresh(MemberView)
        BY <1>1, <4>1, CurrentIsFresh DEF Fresh
      <4>3. Reviewed(MemberView, {"public", "members"})
        BY <1>1, <4>1, ShownWasReviewed DEF Reviewed
      <4> QED
        BY <4>2, <4>3
    <3> QED
      BY <3>1, <3>2
  <2> QED
    BY <2>1, <2>2, <2>3 DEF ReadersServed
<1> QED
  BY <1>1, PublicationInvariantHolds, PTL

(* An article item that was given up or overtaken is delivered by no step. *)
LEMMA RetiredStays ==
    ASSUME PublicationInvariant, [Next]_vars, NEW i \in DOMAIN outbox,
           outbox[i].state = "superseded" \/ Overtaken(i)
    PROVE  outbox'[i].state # "delivered"
<1>0. /\ TypeOK /\ LedgerSound /\ outbox \in Seq(Items) /\ pass \subseteq DOMAIN outbox
      /\ DOMAIN outbox = 1 .. Len(outbox)
      /\ IsArticle(i) /\ outbox[i].revision \in Saved /\ outbox[i].state # "delivered"
      /\ artifacts[outbox[i].revision].facts # episode.facts
  <2>1. TypeOK /\ LedgerSound
    BY DEF PublicationInvariant
  <2>2. IsArticle(i) /\ outbox[i].revision \in Saved
    BY <2>1, LedgerIs DEF Overtaken, IsArticle
  <2>3. artifacts[outbox[i].revision].facts \in Nat /\ episode.facts \in Nat
    BY <2>1, <2>2, RevisionIs, FactsAreNumbers, Bounds
  <2>4. artifacts[outbox[i].revision].facts # episode.facts
    <3>1. CASE outbox[i].state = "superseded"
      <4>1. artifacts[outbox[i].revision].facts < episode.facts
        BY <2>1, <3>1, LedgerIs
      <4> QED
        BY <2>3, <4>1
    <3> QED
      BY <3>1 DEF Overtaken
  <2>5. outbox[i].state # "delivered"
    BY DEF Overtaken
  <2> QED
    BY <2>1, <2>2, <2>4, <2>5, TypeIs, SequenceIs
<1>1. CASE outbox'[i] = outbox[i]
  BY <1>0, <1>1
<1>2. ASSUME NEW j \in DOMAIN outbox, NEW s \in {"pending", "held", "delivered"},
             outbox' = Marked(j, s), j = i => s # "delivered"
      PROVE  outbox'[i].state # "delivered"
  <2>1. s \in ItemStates
    BY DEF ItemStates
  <2> QED
    BY <1>0, <1>2, <2>1, MarkedIs
<1>3. ASSUME NEW m \in Items, outbox' = Append(outbox, m)
      PROVE  outbox'[i].state # "delivered"
  BY <1>0, <1>3, Appended
<1>4. CASE Period
  <2>1. CASE ObserveChange
    BY <1>0, <2>1, RetiredItems DEF ObserveChange
  <2>2. CASE SaveArticle
    BY <1>3, <2>2, NewItems DEF SaveArticle, ItemStates
  <2> QED
    BY <1>1, <1>4, <2>1, <2>2 DEF Period, ObserveSame, ObserveIncomplete, FinishFilm
<1>5. CASE Owner \/ Members
  <2>1. ASSUME NEW committed \in BOOLEAN, Revise(committed) PROVE outbox'[i].state # "delivered"
    <3>1. CASE committed
      BY <1>3, <2>1, <3>1, NewItems DEF Revise, ItemStates
    <3>2. CASE ~committed
      BY <1>1, <2>1, <3>2 DEF Revise
    <3> QED
      BY <3>1, <3>2
  <2>2. ASSUME NEW j \in DOMAIN approvals, Select(j) PROVE outbox'[i].state # "delivered"
    <3>1. edition.authority + 1 \in Nat /\ "pending" \in ItemStates
      BY <1>0, TypeIs, EditionIs DEF ItemStates
    <3>2. outbox' = Append(outbox, [kind |-> "selection", authority |-> edition.authority + 1,
                                    state |-> "pending"])
      BY <2>2 DEF Select
    <3> QED
      BY <1>3, <3>1, <3>2, NewItems
  <2>3. ASSUME NEW j \in DOMAIN outbox, RetryProjection(j) PROVE outbox'[i].state # "delivered"
    BY <1>2, <2>3 DEF RetryProjection
  <2>4. CASE UNCHANGED outbox
    BY <1>1, <2>4
  <2>5. CASE ResumeVideo \/ SwitchServing
    BY <2>4, <2>5 DEF ResumeVideo, SwitchServing
  <2>6. ASSUME NEW a \in Audiences, NEW f \in 0 .. MaxRevisions, NEW b \in BOOLEAN, Approve(a, f, b)
        PROVE  UNCHANGED outbox
    BY <2>6 DEF Approve
  <2>7. ASSUME NEW b \in BOOLEAN, ChangeSettings(b) \/ ChangeShare(b) \/ SetFuture(b)
        PROVE  UNCHANGED outbox
    BY <2>7 DEF ChangeSettings, ChangeShare, SetFuture
  <2> QED
    BY <1>5, <2>1, <2>2, <2>3, <2>4, <2>5, <2>6, <2>7 DEF Owner, Members
<1>6. CASE Projector
  <2>1. ASSUME NEW j \in pass, NEW busy \in BOOLEAN, ProjectArticle(j, busy)
        PROVE  outbox'[i].state # "delivered"
    <3>1. \/ outbox' = outbox \/ outbox' = Marked(j, "held")
          \/ outbox' = Marked(j, "delivered") /\ TextHold(outbox[j].revision) = ""
      BY <2>1, Zenon DEF ProjectArticle
    <3>2. TextHold(outbox[i].revision) # ""
      BY <1>0, MayProject
    <3> QED
      BY <1>0, <1>1, <1>2, <3>1, <3>2
  <2>2. ASSUME NEW j \in pass, ProjectSelection(j) PROVE outbox'[i].state # "delivered"
    <3> DEFINE hold == SelectionHold(approvals[edition.approval])
    <3>1. /\ ~IsArticle(j)
          /\ \/ outbox' = outbox \/ outbox' = Marked(j, "delivered")
             \/ outbox' = Marked(j, hold) /\ hold # ""
      BY <2>2, Zenon DEF ProjectSelection, IsArticle
    <3>2. hold \in {"", "held", "pending"}
      BY DEF SelectionHold, MediaHold
    <3> HIDE DEF hold
    <3> QED
      BY <1>0, <1>1, <1>2, <3>1, <3>2
  <2> QED
    BY <1>1, <1>6, <2>1, <2>2 DEF Projector, StartDrain, DrainDies
<1> QED
  BY <1>1, <1>4, <1>5, <1>6 DEF Next, vars

(* A file that is there stays what it is.                                  *)
LEMMA FilesStay ==
    ASSUME PublicationInvariant, [Next]_vars, NEW r \in Revisions, archive[r] # "absent"
    PROVE  archive'[r] = archive[r]
<1>0. /\ TypeOK /\ LedgerSound /\ archive \in [Revisions -> {"absent", "ledger", "orphan"}]
      /\ pass \subseteq DOMAIN outbox
  BY TypeIs DEF PublicationInvariant
<1>1. ASSUME NEW i \in pass, IsArticle(i),
             ~ProjectionConflict(outbox[i].revision, artifacts[outbox[i].revision].previous),
             archive' = [archive EXCEPT ![outbox[i].revision] = "ledger"]
      PROVE  archive'[r] = archive[r]
  <2>1. outbox[i].revision \in Saved
    BY <1>0, <1>1, LedgerIs
  <2>2. archive[outbox[i].revision] \in {"absent", "ledger"}
    BY <1>0, <1>1, <2>1, MayProject
  <2> QED
    BY <1>0, <1>1, <2>2
<1>2. CASE \E committed \in BOOLEAN : Revise(committed)
  <2>1. NextRevision \in Revisions /\ ~ProjectionConflict(NextRevision, head)
        /\ (archive' = [archive EXCEPT ![NextRevision] = "ledger"]
            \/ archive' = [archive EXCEPT ![NextRevision] = "orphan"])
    BY <1>2, Zenon DEF Revise
  <2>2. archive[NextRevision] = "absent"
    BY <1>0, <2>1, NextIsNew DEF ProjectionConflict
  <2> QED
    BY <1>0, <2>1, <2>2
<1>3. CASE \E i \in pass, busy \in BOOLEAN : ProjectArticle(i, busy)
  <2>1. PICK i \in pass, busy \in BOOLEAN : ProjectArticle(i, busy)
    BY <1>3
  <2>2. /\ IsArticle(i)
        /\ \/ archive' = archive
           \/ /\ ~ProjectionConflict(outbox[i].revision, artifacts[outbox[i].revision].previous)
              /\ archive' = [archive EXCEPT ![outbox[i].revision] = "ledger"]
    BY <2>1, Zenon DEF ProjectArticle, IsArticle
  <2> QED
    BY <1>1, <2>2
<1>4. CASE \E i \in pass : DrainDies(i)
  <2>1. PICK i \in pass : DrainDies(i)
    BY <1>4
  <2>2. \/ archive' = archive
        \/ /\ IsArticle(i)
           /\ ~ProjectionConflict(outbox[i].revision, artifacts[outbox[i].revision].previous)
           /\ archive' = [archive EXCEPT ![outbox[i].revision] = "ledger"]
    BY <2>1 DEF DrainDies, IsArticle
  <2> QED
    BY <1>1, <2>2
<1>5. CASE UNCHANGED archive
  BY <1>5
<1>6. CASE Period
  BY <1>5, <1>6 DEF Period, ObserveSame, ObserveIncomplete, ObserveChange, SaveArticle, FinishFilm
<1>7. CASE Owner \/ Members
  BY <1>2, <1>5, <1>7 DEF Owner, Members, ResumeVideo, Approve, Select, RetryProjection,
     ChangeSettings, SwitchServing, ChangeShare, SetFuture
<1>8. CASE Projector
  BY <1>3, <1>4, <1>5, <1>8 DEF Projector, StartDrain, ProjectSelection
<1> QED
  BY <1>5, <1>6, <1>7, <1>8 DEF Next, vars

(* A pointer moves to the edition's present authority only, and past its   *)
(* own.                                                                    *)
LEMMA PointerAdvances ==
    ASSUME PublicationInvariant, [Next]_vars, pointer' # pointer
    PROVE  pointer'.authority > pointer.authority /\ pointer'.authority = edition.authority
<1>0. /\ edition.authority \in Nat /\ pointer.authority \in Nat /\ SelectionsSound
      /\ pointer \in PointerRecord
  <2>1. pointer \in PointerRecord
    BY TypeIs DEF PublicationInvariant
  <2> QED
    BY <2>1, TypeIs, EditionIs DEF PublicationInvariant, PointerRecord
<1>1. pointer' = [authority |-> edition.authority, article |-> edition.article,
                  film |-> edition.film]
  <2>1. CASE Period
    BY <2>1 DEF Period, ObserveSame, ObserveIncomplete, ObserveChange, SaveArticle, FinishFilm
  <2>2. CASE Owner \/ Members
    BY <2>2 DEF Owner, Members, Revise, ResumeVideo, Approve, Select, RetryProjection,
       ChangeSettings, SwitchServing, ChangeShare, SetFuture
  <2>3. CASE Projector
    BY <2>3 DEF Projector, StartDrain, ProjectArticle, ProjectSelection, DrainDies
  <2> QED
    BY <2>1, <2>2, <2>3 DEF Next, vars
<1>2. pointer.authority # edition.authority
  <2>1. CASE pointer.authority = edition.authority
    <3>1. pointer.article = edition.article /\ pointer.film = edition.film
      BY <1>0, <2>1, SelectionsIs
    <3>2. pointer' = pointer
      BY <1>0, <1>1, <2>1, <3>1 DEF PointerRecord
    <3> QED
      BY <3>2
  <2> QED
    BY <2>1
<1> QED
  BY <1>0, <1>1, <1>2, SelectionsIs

(* change_share: what readers were given stays projected.                  *)
LEMMA ProjectionStays ==
    ASSUME PublicationInvariant, [Next]_vars
    PROVE  StaysProjected
<1>0. /\ edition \in EditionRecord /\ share.revision \in Nat
      /\ edition.authority \in Nat
  <2>1. share.revision \in Nat
    BY TypeIs, Bounds DEF PublicationInvariant
  <2> QED
    BY <2>1, TypeIs, EditionIs DEF PublicationInvariant
<1>1. CASE edition' = edition
  BY <1>1 DEF StaysProjected
<1>2. CASE edition' = Withdrawn(edition)
  BY <1>0, <1>2, WithdrawnIs DEF StaysProjected
<1>3. ASSUME NEW i \in DOMAIN approvals, Select(i)
      PROVE  StaysProjected
  <2>1. edition'.approval = i /\ ~approvals[i].consumed
    BY <1>3 DEF Select
  <2>2. edition.approval # i
    <3>1. /\ DOMAIN approvals = 1 .. Len(approvals)
          /\ Len(approvals) \in Nat
      BY SequenceIs DEF PublicationInvariant
    <3>2. i # 0
      BY <1>3, <3>1
    <3> QED
      BY <2>1, <3>2, SelectionsIs DEF PublicationInvariant
  <2> QED
    BY <2>1, <2>2 DEF StaysProjected
<1>4. ASSUME NEW enabled \in BOOLEAN, ChangeShare(enabled)
      PROVE  StaysProjected
  <2> DEFINE revision == IF enabled /\ share.allowed THEN share.revision ELSE share.revision + 1
  <2>1. edition.exists => edition' = Followed(edition, revision)
    BY <1>4, Zenon DEF ChangeShare
  <2> HIDE DEF revision
  <2>2. edition.projected = edition.authority =>
          Followed(edition, revision).projected = Followed(edition, revision).authority
    BY <1>0 DEF Followed, EditionRecord
  <2> QED
    BY <2>1, <2>2 DEF StaysProjected
<1>5. CASE Period
  BY <1>1, <1>2, <1>5 DEF Period, ObserveSame, ObserveIncomplete, ObserveChange, SaveArticle,
     FinishFilm
<1>6. CASE Owner
  BY <1>1, <1>3, <1>6 DEF Owner, Revise, ResumeVideo, Approve, RetryProjection, ChangeSettings,
     SwitchServing
<1>7. CASE Members
  BY <1>1, <1>4, <1>7 DEF Members, SetFuture
<1>8. CASE Projector
  <2>1. ASSUME NEW i \in pass, ProjectSelection(i) PROVE StaysProjected
    <3>1. edition' = edition \/ edition' = [edition EXCEPT !.projected = edition.authority]
      BY <2>1, Zenon DEF ProjectSelection
    <3>2. ASSUME edition' = [edition EXCEPT !.projected = edition.authority]
          PROVE  edition'.projected = edition'.authority
      BY <1>0, <3>2 DEF EditionRecord
    <3> QED
      BY <1>1, <3>1, <3>2 DEF StaysProjected
  <2>2. ASSUME NEW i \in pass, NEW busy \in BOOLEAN, ProjectArticle(i, busy)
        PROVE  StaysProjected
    BY <1>1, <1>2, <2>2, Zenon DEF ProjectArticle
  <2> QED
    BY <1>1, <1>8, <2>1, <2>2 DEF Projector, StartDrain, DrainDies
<1> QED
  BY <1>1, <1>5, <1>6, <1>7, <1>8 DEF Next, vars

(* drain, project_analyst, project_publication, change_share: what was     *)
(* overtaken is not delivered, a file stays, a pointer only moves on, and  *)
(* what readers were given stays projected.                                *)
THEOREM ProjectionsAdvance == Spec => ProjectionsOnlyAdvance
<1> DEFINE Advances ==
      /\ \A i \in DOMAIN outbox :
           outbox[i].state = "superseded" \/ Overtaken(i) => outbox'[i].state # "delivered"
      /\ \A r \in Revisions : archive[r] # "absent" => archive'[r] = archive[r]
      /\ pointer' # pointer => /\ pointer'.authority > pointer.authority
                               /\ pointer'.authority = edition.authority
      /\ StaysProjected
<1>1. PublicationInvariant /\ [Next]_vars => [Advances]_vars
  BY RetiredStays, FilesStay, PointerAdvances, ProjectionStays
<1> QED
  BY <1>1, PublicationInvariantHolds, PTL DEF Spec, ProjectionsOnlyAdvance

(* Only a selection makes a withdrawn edition one that is shown.           *)
LEMMA ReopensByReview ==
    ASSUME PublicationInvariant, [Next]_vars, edition.withdrawn, ~edition'.withdrawn
    PROVE  LET p == approvals[edition'.approval] IN
           p.authority = edition.authority /\ ~p.standing /\ ~p.consumed
<1>0. TypeOK /\ SelectionsSound /\ edition \in EditionRecord /\ edition.exists
      /\ share.revision \in Nat
  <2>1. TypeOK /\ SelectionsSound
    BY DEF PublicationInvariant
  <2>2. share.revision \in Nat
    BY <2>1, TypeIs, Bounds
  <2> QED
    BY <2>1, <2>2, TypeIs, SelectionsIs DEF NoEdition
<1>1. ASSUME edition' = Withdrawn(edition) PROVE FALSE
  BY <1>0, <1>1, WithdrawnIs
<1>2. ASSUME edition' = edition PROVE FALSE
  BY <1>2
<1>3. ASSUME NEW i \in DOMAIN approvals, Select(i)
      PROVE  LET p == approvals[edition'.approval] IN
             p.authority = edition.authority /\ ~p.standing /\ ~p.consumed
  <2>1. /\ edition'.approval = i /\ ~approvals[i].consumed
        /\ BoundTo(approvals[i]) = Scope(approvals[i].audience, approvals[i].film)
    BY <1>3 DEF Select
  <2>2. approvals[i].authority = edition.authority
    BY <1>0, <2>1, TypeIs, SequenceIs, BoundIs
  <2>3. ~approvals[i].standing
    BY <1>0, <2>2, SelectionsIs DEF StandingSound
  <2> QED
    BY <2>1, <2>2, <2>3
<1>4. ASSUME NEW enabled \in BOOLEAN, ChangeShare(enabled) PROVE FALSE
  <2> DEFINE revision == IF enabled /\ share.allowed THEN share.revision ELSE share.revision + 1
  <2>1. edition' = Followed(edition, revision) /\ revision <= MaxShare
    BY <1>0, <1>4, Zenon DEF ChangeShare
  <2>2. revision \in 0 .. MaxShare
    BY <1>0, <2>1, Bounds
  <2> HIDE DEF revision
  <2> QED
    BY <1>0, <2>1, <2>2, FollowedIs
<1>5. CASE Period
  BY <1>1, <1>2, <1>5 DEF Period, ObserveSame, ObserveIncomplete, ObserveChange, SaveArticle,
     FinishFilm
<1>6. CASE Owner
  BY <1>2, <1>3, <1>6 DEF Owner, Revise, ResumeVideo, Approve, RetryProjection, ChangeSettings,
     SwitchServing
<1>7. CASE Members
  BY <1>2, <1>4, <1>7 DEF Members, SetFuture
<1>8. CASE Projector
  <2>1. ASSUME NEW i \in pass, ProjectSelection(i) PROVE FALSE
    <3>1. edition' = edition \/ edition' = [edition EXCEPT !.projected = edition.authority]
      BY <2>1, Zenon DEF ProjectSelection
    <3> QED
      BY <1>0, <3>1 DEF EditionRecord
  <2>2. ASSUME NEW i \in pass, NEW busy \in BOOLEAN, ProjectArticle(i, busy) PROVE FALSE
    BY <1>1, <1>2, <2>2, Zenon DEF ProjectArticle
  <2> QED
    BY <1>2, <1>8, <2>1, <2>2 DEF Projector, StartDrain, DrainDies
<1> QED
  BY <1>2, <1>5, <1>6, <1>7, <1>8 DEF Next, vars

(* A review is used by a selection, which is bound to the edition as it is.*)
LEMMA StandingIsUsed ==
    ASSUME PublicationInvariant, [Next]_vars, NEW i \in DOMAIN approvals,
           approvals[i].standing, ~approvals[i].consumed, approvals'[i].consumed
    PROVE  StandingAddsFirst(approvals[i])
<1>0. /\ TypeOK /\ SelectionsSound /\ approvals \in Seq(Reviews)
      /\ DOMAIN approvals = 1 .. Len(approvals) /\ Len(approvals) \in Nat
  BY TypeIs, SequenceIs DEF PublicationInvariant
<1>1. ASSUME NEW j \in DOMAIN approvals, Select(j)
      PROVE  StandingAddsFirst(approvals[i])
  <2>1. /\ approvals' = [approvals EXCEPT ![j].consumed = TRUE]
        /\ BoundTo(approvals[j]) = Scope(approvals[j].audience, approvals[j].film)
    BY <1>1 DEF Select
  <2>2. j = i
    BY <1>0, <2>1, UsedIs
  <2>3. approvals[i].authority = edition.authority
    BY <1>0, <2>1, <2>2, SequenceIs, BoundIs
  <2>4. StandingSound(approvals[i], edition, history)
    BY <1>0, SelectionsIs
  <2> QED
    BY <2>3, <2>4 DEF StandingSound, StandingAddsFirst
<1>2. CASE UNCHANGED approvals
  BY <1>2
<1>3. ASSUME NEW a \in Audiences, NEW f \in 0 .. MaxRevisions, NEW b \in BOOLEAN, Approve(a, f, b)
      PROVE  FALSE
  <2> DEFINE p == [authority |-> edition.authority, film |-> f, article |-> episode.article,
                   facts |-> episode.facts, source |-> episode.source,
                   settings |-> settings.revision, share |-> share.revision,
                   future |-> future.revision, audience |-> a, standing |-> b,
                   consumed |-> FALSE]
  <2>1. approvals' = Append(approvals, p)
    BY <1>3 DEF Approve
  <2> HIDE DEF p
  <2>2. approvals'[i] = approvals[i]
    BY <1>0, <2>1
  <2> QED
    BY <2>2
<1>4. CASE Period
  BY <1>2, <1>4 DEF Period, ObserveSame, ObserveIncomplete, ObserveChange, SaveArticle, FinishFilm
<1>5. CASE Owner \/ Members
  BY <1>1, <1>2, <1>3, <1>5 DEF Owner, Members, Revise, ResumeVideo, RetryProjection,
     ChangeSettings, SwitchServing, ChangeShare, SetFuture
<1>6. CASE Projector
  BY <1>2, <1>6 DEF Projector, StartDrain, ProjectArticle, ProjectSelection, DrainDies
<1> QED
  BY <1>2, <1>4, <1>5, <1>6 DEF Next, vars

(* record_standing_approval, select_publication, resume_video: a withdrawn *)
(* edition is shown again only by the owner's review made since, and the   *)
(* API's own reviews only add first videos, of resumed articles after a    *)
(* correction.                                                             *)
THEOREM ReviewReopens == Spec => OnlyReviewReopens
<1> DEFINE Reopens ==
      /\ ReopenedByReview
      /\ \A i \in DOMAIN approvals :
           approvals[i].standing /\ ~approvals[i].consumed /\ approvals'[i].consumed
             => StandingAddsFirst(approvals[i])
<1>1. PublicationInvariant /\ [Next]_vars => [Reopens]_vars
  BY ReopensByReview, StandingIsUsed DEF ReopenedByReview
<1> QED
  BY <1>1, PublicationInvariantHolds, PTL DEF Spec, OnlyReviewReopens
=============================================================================
