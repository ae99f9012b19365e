------------------------ MODULE ValidatedUpdateProofs ------------------------
(***************************************************************************)
(* Theorems about TagListing, Validation and their composition, for all    *)
(* tags, names, owners and page sizes and any number of changes.           *)
(***************************************************************************)
EXTENDS ValidatedUpdate, FiniteSetTheorems, TLAPS

-----------------------------------------------------------------------------
(* The inductive invariant.                                                *)

\* What was merged was true when its page was read, and what nobody touched since
\* is true still.
MergedNamesWereHeld ==
    /\ Held(tags) \subseteq held
    /\ \A n \in Listed :
          /\ <<n, tags_by_name[n]>> \in held
          /\ tags_by_name[n] \notin touched =>
                /\ tags_by_name[n] \in Existing
                /\ tags[tags_by_name[n]] = [name |-> n, owner |-> Owner]

\* The name of an untouched tag was no other tag's during the call.
UntouchedNamesAreTheirs ==
    \A t \in Existing \ touched :
        tags[t].owner = Owner => \A s \in Tags : <<tags[t].name, s>> \in held => s = t

\* Tags that were there all the time and that no page has shown so far, and those
\* among them whose page has been read.
Unseen == {t \in Existing \ touched : tags[t].owner = Owner /\ tags[t].name \notin Listed}
Missed == {t \in Unseen : Place(t) < next_url * PageSize}

DeparturesHideTags ==
    /\ departures + edits <= MaxEdits
    /\ outcome = "listing" => Cardinality(Missed) <= departures
    /\ outcome = "done" => Cardinality(Unseen) <= departures

ListingInv ==
    /\ ListingTypeOK
    /\ UniqueNames(tags)
    /\ MergedNamesWereHeld
    /\ UntouchedNamesAreTheirs
    /\ DeparturesHideTags
    /\ DuplicatesNeedTwoChanges

\* Nothing is built before the listing is done, and what is built is the answer
\* validated against it.
UpdateInv ==
    /\ metadata \in Metadata /\ content_alnum \in BOOLEAN /\ current_tag_ids \subseteq Tags
    /\ run = None \/ run.state \in {"succeeded", "failed"}
    /\ Built => /\ outcome = "done"
                /\ Acceptable(metadata, content_alnum)
                /\ update = BuildValidatedUpdate(metadata, current_tag_ids, tags_by_name, Today)

IInv == ListingInv /\ UpdateInv

-----------------------------------------------------------------------------
(* The listing of Paperless, for any mapping of ids to tags.               *)

BeforeIn(f, s, t) ==
    \/ f[s].name < f[t].name
    \/ f[s].name = f[t].name /\ s < t

PlaceIn(f, t) == Cardinality({s \in DOMAIN f : BeforeIn(f, s, t)})

\* Place is the place in the present listing, before a step and after it.
LEMMA PlaceIsPlaceIn ==
    ASSUME NEW t
    PROVE  Place(t) = PlaceIn(tags, t) /\ Place(t)' = PlaceIn(tags', t)
BY DEF Place, PlaceIn, Before, BeforeIn, Existing

\* Every set of tags is finite.
LEMMA TagSetsAreFinite ==
    ASSUME NEW S, S \subseteq Tags
    PROVE  IsFiniteSet(S) /\ Cardinality(S) \in Nat
BY FS_Subset, FS_CardinalityType, ListingConstants

\* A set of tags is not smaller than what it contains.
LEMMA SmallerSets ==
    ASSUME NEW S, S \subseteq Tags, NEW T, T \subseteq S
    PROVE  /\ Cardinality(T) \in Nat /\ Cardinality(S) \in Nat
           /\ Cardinality(T) <= Cardinality(S)
           /\ Cardinality(T) = Cardinality(S) => T = S
<1>1. IsFiniteSet(S) /\ Cardinality(S) \in Nat
  BY TagSetsAreFinite
<1>2. Cardinality(T) <= Cardinality(S) /\ (Cardinality(T) = Cardinality(S) => T = S)
  BY <1>1, FS_Subset
<1>3. Cardinality(T) \in Nat
  BY TagSetsAreFinite
<1> QED
  BY <1>1, <1>2, <1>3

\* One more element makes a set one larger at most.
LEMMA OneMore ==
    ASSUME NEW S, S \subseteq Tags, NEW u
    PROVE  /\ Cardinality(S \union {u}) \in Nat
           /\ Cardinality(S \union {u}) <= Cardinality(S) + 1
<1>1. IsFiniteSet(S) /\ Cardinality(S) \in Nat
  BY TagSetsAreFinite
<1>2. IsFiniteSet(S \union {u})
      /\ Cardinality(S \union {u}) = IF u \in S THEN Cardinality(S) ELSE Cardinality(S) + 1
  BY <1>1, FS_AddElement
<1> QED
  BY <1>1, <1>2

\* The order of the listing: the names in their order, then the ids.
LEMMA OrderIsTotal ==
    ASSUME NEW D, D \subseteq Tags, NEW f \in [D -> Tag]
    PROVE  /\ \A t \in D : ~BeforeIn(f, t, t)
           /\ \A r, s, t \in D : BeforeIn(f, r, s) /\ BeforeIn(f, s, t) => BeforeIn(f, r, t)
           /\ \A s, t \in D : s # t => BeforeIn(f, s, t) \/ BeforeIn(f, t, s)
<1>1. \A t \in D : t \in Nat /\ f[t].name \in Nat
  BY ListingConstants DEF Tag
<1> QED
  BY <1>1 DEF BeforeIn

\* Places are numbers below the number of tags.
LEMMA PlacesAreBounded ==
    ASSUME NEW D, D \subseteq Tags, NEW f \in [D -> Tag], NEW t \in D
    PROVE  PlaceIn(f, t) \in Nat /\ PlaceIn(f, t) < Cardinality(D)
<1> DEFINE Earlier == {s \in DOMAIN f : BeforeIn(f, s, t)}
<1>1. Earlier \subseteq D /\ t \notin Earlier
  BY OrderIsTotal
<1>2. Earlier # D
  BY <1>1
<1>3. Cardinality(Earlier) \in Nat /\ Cardinality(D) \in Nat
      /\ Cardinality(Earlier) <= Cardinality(D)
      /\ (Cardinality(Earlier) = Cardinality(D) => Earlier = D)
  BY <1>1, SmallerSets
<1>4. PlaceIn(f, t) = Cardinality(Earlier)
  BY DEF PlaceIn
<1> QED
  BY <1>2, <1>3, <1>4

\* No two tags have the same place.
LEMMA PlacesDiffer ==
    ASSUME NEW D, D \subseteq Tags, NEW f \in [D -> Tag], NEW s \in D, NEW t \in D,
           PlaceIn(f, s) = PlaceIn(f, t)
    PROVE  s = t
<1> DEFINE Earlier(u) == {r \in DOMAIN f : BeforeIn(f, r, u)}
<1>1. ASSUME NEW a \in D, NEW b \in D, BeforeIn(f, a, b)
      PROVE  PlaceIn(f, a) # PlaceIn(f, b)
  <2>1. Earlier(a) \subseteq Earlier(b) /\ a \in Earlier(b) /\ a \notin Earlier(a)
    BY <1>1, OrderIsTotal
  <2>2. Earlier(b) \subseteq Tags
    OBVIOUS
  <2>3. Cardinality(Earlier(a)) = Cardinality(Earlier(b)) => Earlier(a) = Earlier(b)
    BY <2>1, <2>2, SmallerSets
  <2>4. PlaceIn(f, a) = Cardinality(Earlier(a)) /\ PlaceIn(f, b) = Cardinality(Earlier(b))
    BY DEF PlaceIn
  <2> HIDE DEF Earlier
  <2> QED
    BY <2>1, <2>3, <2>4
<1> QED
  BY <1>1, OrderIsTotal

\* When one tag changes, comes or goes, the others move one place down at most; and
\* none moves down unless the changed tag was before it and no longer is.
LEMMA OneChangeMovesOnePlace ==
    ASSUME NEW D, D \subseteq Tags, NEW f \in [D -> Tag],
           NEW E, E \subseteq Tags, NEW g \in [E -> Tag],
           NEW u, D \ {u} = E \ {u}, \A r \in D \ {u} : g[r] = f[r],
           NEW t \in D \ {u}
    PROVE  /\ PlaceIn(f, t) <= PlaceIn(g, t) + 1
           /\ (u \in D /\ BeforeIn(f, u, t) => u \in E /\ BeforeIn(g, u, t))
                => PlaceIn(f, t) <= PlaceIn(g, t)
<1> DEFINE F == {s \in DOMAIN f : BeforeIn(f, s, t)}
           G == {s \in DOMAIN g : BeforeIn(g, s, t)}
<1>1. PlaceIn(f, t) = Cardinality(F) /\ PlaceIn(g, t) = Cardinality(G)
  BY DEF PlaceIn
<1>2. F \subseteq D /\ G \subseteq E /\ F \subseteq Tags /\ G \subseteq Tags
  OBVIOUS
<1>3. F \ {u} \subseteq G
  BY DEF BeforeIn
<1>4. (u \in D /\ BeforeIn(f, u, t) => u \in E /\ BeforeIn(g, u, t)) => F \subseteq G
  BY <1>3
<1> HIDE DEF F, G
<1>5. Cardinality(F) \in Nat /\ Cardinality(G) \in Nat
  BY <1>2, TagSetsAreFinite
<1>6. Cardinality(F) <= Cardinality(G) + 1
  <2>1. CASE u \in F
    <3>1. F \subseteq G \union {u} /\ G \union {u} \subseteq Tags
      BY <2>1, <1>2, <1>3
    <3>2. Cardinality(F) <= Cardinality(G \union {u})
      BY <3>1, SmallerSets
    <3>3. Cardinality(G \union {u}) \in Nat
          /\ Cardinality(G \union {u}) <= Cardinality(G) + 1
      BY <1>2, OneMore
    <3> QED
      BY <3>2, <3>3, <1>5
  <2>2. CASE u \notin F
    <3>1. F \subseteq G
      BY <2>2, <1>3
    <3>2. Cardinality(F) <= Cardinality(G)
      BY <3>1, <1>2, SmallerSets
    <3> QED
      BY <3>2, <1>5
  <2> QED
    BY <2>1, <2>2
<1>7. F \subseteq G => Cardinality(F) <= Cardinality(G)
  BY <1>2, SmallerSets
<1> QED
  BY <1>1, <1>4, <1>5, <1>6, <1>7

-----------------------------------------------------------------------------
(* What a user does to one tag.                                            *)

LEMMA UnseenAreTags == ListingTypeOK => Unseen \subseteq Tags /\ Missed \subseteq Tags
BY DEF ListingTypeOK, Unseen, Missed

\* The edge of what was read is a place.
LEMMA EdgeIsNat == ASSUME NEW p \in Nat
                   PROVE  /\ p * PageSize \in Nat
                          /\ (p + 1) * PageSize \in Nat
                          /\ (p + 1) * PageSize = p * PageSize + PageSize
BY ListingConstants

\* A step that changes one tag, and moves others down only if it is said to leave
\* its place, keeps the invariant.
LEMMA OneTagChanges ==
    ASSUME ListingInv, NEW u \in Tags, NEW leaves \in BOOLEAN, UserActs(u, leaves),
           NEW E, E \subseteq Tags, tags' \in [E -> Tag],
           Existing \ {u} = E \ {u}, \A r \in Existing \ {u} : tags'[r] = tags[r],
           ~leaves => \A t \in Existing \ {u} :
                         u \in Existing /\ BeforeIn(tags, u, t)
                             => u \in E /\ BeforeIn(tags', u, t)
    PROVE  ListingInv'
<1> USE DEF ListingInv
<1>1. /\ outcome = "listing" /\ outcome' = outcome
      /\ next_url' = next_url /\ tags_by_name' = tags_by_name
      /\ edits > 0 /\ edits' = edits - 1
      /\ UniqueNames(tags')
      /\ held' = held \union Held(tags')
      /\ touched' = touched \union {u}
      /\ departures' = departures + (IF leaves THEN 1 ELSE 0)
  BY DEF UserActs, listing
<1>2. Existing' = E /\ Listed' = Listed
  BY <1>1 DEF Existing, Listed
<1>3. Existing \subseteq Tags /\ tags \in [Existing -> Tag]
  BY DEF ListingTypeOK
<1>4. Held(tags') \subseteq Names \X Tags
  BY <1>2 DEF Held, Tag
<1>5. edits \in Nat /\ departures \in Nat /\ MaxEdits \in Nat
      /\ departures' \in Nat /\ edits' \in Nat /\ departures' + edits' <= MaxEdits
  BY <1>1, ListingConstants DEF ListingTypeOK, DeparturesHideTags
<1>6. ListingTypeOK'
  BY <1>1, <1>2, <1>4, <1>5 DEF ListingTypeOK
<1>7. MergedNamesWereHeld'
  <2>1. Held(tags)' \subseteq held'
    BY <1>1 DEF Held
  <2>2. ASSUME NEW n \in Listed'
        PROVE  /\ <<n, tags_by_name'[n]>> \in held'
               /\ tags_by_name'[n] \notin touched' =>
                      /\ tags_by_name'[n] \in Existing'
                      /\ tags'[tags_by_name'[n]] = [name |-> n, owner |-> Owner]
    BY <1>1, <1>2 DEF MergedNamesWereHeld
  <2> QED
    BY <2>1, <2>2 DEF MergedNamesWereHeld
<1>8. UntouchedNamesAreTheirs'
  <2> SUFFICES ASSUME NEW t \in Existing' \ touched', tags'[t].owner = Owner,
                      NEW s \in Tags, <<tags'[t].name, s>> \in held'
               PROVE  s = t
    BY DEF UntouchedNamesAreTheirs
  <2>1. t \in Existing \ touched /\ tags'[t] = tags[t]
    BY <1>1, <1>2
  <2>2. CASE <<tags'[t].name, s>> \in held
    BY <2>1, <2>2 DEF UntouchedNamesAreTheirs
  <2>3. CASE <<tags'[t].name, s>> \in Held(tags')
    <3>1. s \in E /\ tags'[s].name = tags'[t].name /\ tags'[s].owner = Owner
      BY <2>3, <1>2 DEF Held
    <3>2. tags'[s] = tags'[t]
      BY <3>1, <1>2 DEF Tag
    <3> QED
      BY <3>1, <3>2, <1>1, <1>2 DEF UniqueNames
  <2> QED
    BY <2>2, <2>3, <1>1
<1>9. Cardinality(Missed') <= departures'
  <2>1. PICK N \in Nat : N = next_url * PageSize
    BY EdgeIsNat DEF ListingTypeOK
  <2>2. Unseen' \subseteq Unseen \ {u}
    BY <1>1, <1>2 DEF Unseen
  <2>3. Missed = {t \in Unseen : PlaceIn(tags, t) < N}
    BY <2>1, PlaceIsPlaceIn DEF Missed
  <2>4. Missed' = {t \in Unseen' : PlaceIn(tags', t) < N}
    BY <2>1, <1>1, PlaceIsPlaceIn DEF Missed
  <2>5. \A t \in Unseen' :
            /\ t \in Unseen /\ t \in Existing \ {u}
            /\ PlaceIn(tags, t) \in Nat /\ PlaceIn(tags', t) \in Nat
            /\ PlaceIn(tags, t) <= PlaceIn(tags', t) + 1
            /\ ~leaves => PlaceIn(tags, t) <= PlaceIn(tags', t)
    <3> SUFFICES ASSUME NEW t \in Unseen'
                 PROVE  /\ t \in Unseen /\ t \in Existing \ {u}
                        /\ PlaceIn(tags, t) \in Nat /\ PlaceIn(tags', t) \in Nat
                        /\ PlaceIn(tags, t) <= PlaceIn(tags', t) + 1
                        /\ ~leaves => PlaceIn(tags, t) <= PlaceIn(tags', t)
      OBVIOUS
    <3>1. t \in Unseen /\ t \in Existing \ {u} /\ t \in E
      BY <2>2 DEF Unseen
    <3>2. PlaceIn(tags, t) \in Nat
      BY <3>1, <1>3, PlacesAreBounded
    <3>3. PlaceIn(tags', t) \in Nat
      BY <3>1, PlacesAreBounded
    <3>4. /\ PlaceIn(tags, t) <= PlaceIn(tags', t) + 1
          /\ (u \in Existing /\ BeforeIn(tags, u, t) => u \in E /\ BeforeIn(tags', u, t))
               => PlaceIn(tags, t) <= PlaceIn(tags', t)
      BY <3>1, <1>3, OneChangeMovesOnePlace
    <3> QED
      BY <3>1, <3>2, <3>3, <3>4
  <2>6. Cardinality(Missed) \in Nat /\ Cardinality(Missed) <= departures
    BY <1>1, UnseenAreTags, TagSetsAreFinite DEF DeparturesHideTags
  <2>7. CASE ~leaves
    <3>1. Missed' \subseteq Missed
      BY <2>3, <2>4, <2>5, <2>7
    <3>2. Cardinality(Missed') \in Nat /\ Cardinality(Missed') <= Cardinality(Missed)
      BY <3>1, UnseenAreTags, SmallerSets
    <3> QED
      BY <3>2, <2>6, <2>7, <1>1, <1>5
  <2>8. CASE leaves
    <3>1. \A t \in Missed' : t \in Missed \/ (t \in Existing /\ PlaceIn(tags, t) = N)
      BY <2>3, <2>4, <2>5
    <3>2. PICK v : Missed' \subseteq Missed \union {v} /\ (v \in Tags \/ Missed' \subseteq Missed)
      <4>1. CASE Missed' \subseteq Missed
        BY <4>1
      <4>2. CASE ~(Missed' \subseteq Missed)
        <5>1. PICK v \in Missed' : v \in Existing /\ PlaceIn(tags, v) = N
          BY <4>2, <3>1
        <5>2. \A t \in Missed' : t \in Missed \/ t = v
          BY <5>1, <3>1, <1>3, PlacesDiffer
        <5> QED
          BY <5>1, <5>2, <1>3
      <4> QED
        BY <4>1, <4>2
    <3>3. Cardinality(Missed') \in Nat /\ Cardinality(Missed') <= Cardinality(Missed) + 1
      <4>1. CASE Missed' \subseteq Missed
        <5>1. Cardinality(Missed') \in Nat /\ Cardinality(Missed') <= Cardinality(Missed)
          BY <4>1, UnseenAreTags, SmallerSets
        <5> QED
          BY <5>1, <2>6
      <4>2. CASE v \in Tags
        <5>1. Missed \union {v} \subseteq Tags
          BY <4>2, UnseenAreTags
        <5>2. /\ Cardinality(Missed') \in Nat /\ Cardinality(Missed \union {v}) \in Nat
              /\ Cardinality(Missed') <= Cardinality(Missed \union {v})
          BY <5>1, <3>2, SmallerSets
        <5>3. Cardinality(Missed \union {v}) <= Cardinality(Missed) + 1
          BY UnseenAreTags, OneMore
        <5> QED
          BY <5>2, <5>3, <2>6
      <4> QED
        BY <3>2, <4>1, <4>2
    <3> QED
      BY <3>3, <2>6, <2>8, <1>1, <1>5
  <2> QED
    BY <2>7, <2>8
<1>10. DeparturesHideTags' /\ DuplicatesNeedTwoChanges'
  BY <1>1, <1>5, <1>9 DEF DeparturesHideTags, DuplicatesNeedTwoChanges
<1> QED
  BY <1>1, <1>6, <1>7, <1>8, <1>10

LEMMA CreateTagKeeps == ASSUME ListingInv, CreateTag PROVE ListingInv'
<1>1. PICK t \in Tags \ Existing, tag \in Tag :
        /\ tags' = [s \in Existing \union {t} |-> IF s = t THEN tag ELSE tags[s]]
        /\ UserActs(t, FALSE)
  BY DEF CreateTag
<1>2. Existing \subseteq Tags /\ tags \in [Existing -> Tag]
  BY DEF ListingInv, ListingTypeOK
<1>3. tags' \in [Existing \union {t} -> Tag]
      /\ \A r \in Existing \ {t} : tags'[r] = tags[r]
  BY <1>1, <1>2
<1>4. Existing \union {t} \subseteq Tags /\ Existing \ {t} = (Existing \union {t}) \ {t}
  BY <1>2
<1> QED
  BY <1>1, <1>3, <1>4, OneTagChanges

LEMMA DeleteTagKeeps == ASSUME ListingInv, DeleteTag PROVE ListingInv'
<1>1. PICK t \in Existing : /\ tags' = [s \in Existing \ {t} |-> tags[s]]
                            /\ UserActs(t, TRUE)
  BY DEF DeleteTag
<1>2. Existing \subseteq Tags /\ tags \in [Existing -> Tag]
  BY DEF ListingInv, ListingTypeOK
<1>3. tags' \in [Existing \ {t} -> Tag] /\ \A r \in Existing \ {t} : tags'[r] = tags[r]
  BY <1>1, <1>2
<1>4. Existing \ {t} \subseteq Tags /\ Existing \ {t} = (Existing \ {t}) \ {t} /\ t \in Tags
  BY <1>2
<1> QED
  BY <1>1, <1>3, <1>4, OneTagChanges

\* A new name that comes later in the order leaves the place, an earlier one does not
\* move any other tag down.
LEMMA RenameTagKeeps == ASSUME ListingInv, RenameTag PROVE ListingInv'
<1>1. PICK t \in Existing, name \in Names :
        /\ name # tags[t].name
        /\ tags' = [tags EXCEPT ![t].name = name]
        /\ UserActs(t, name > tags[t].name)
  BY DEF RenameTag
<1>2. Existing \subseteq Tags /\ tags \in [Existing -> Tag] /\ t \in Tags
  BY DEF ListingInv, ListingTypeOK
<1>3. tags' \in [Existing -> Tag] /\ tags'[t].name = name
      /\ \A r \in Existing \ {t} : tags'[r] = tags[r]
  BY <1>1, <1>2 DEF Tag
<1>4. CASE name > tags[t].name
  <2>1. UserActs(t, TRUE)
    BY <1>1, <1>4 DEF UserActs
  <2> QED
    BY <1>2, <1>3, <2>1, OneTagChanges
<1>5. CASE ~(name > tags[t].name)
  <2>1. UserActs(t, FALSE)
    BY <1>1, <1>5 DEF UserActs
  <2>2. name \in Nat /\ \A r \in Existing : tags[r].name \in Nat /\ r \in Nat
    BY <1>2, ListingConstants DEF Tag
  <2>3. name < tags[t].name
    BY <1>1, <1>5, <2>2
  <2>4. \A r \in Existing \ {t} : BeforeIn(tags, t, r) => BeforeIn(tags', t, r)
    BY <1>3, <2>2, <2>3 DEF BeforeIn
  <2> QED
    BY <1>2, <1>3, <2>1, <2>4, OneTagChanges
<1> QED
  BY <1>4, <1>5

LEMMA ChangeTagOwnerKeeps == ASSUME ListingInv, ChangeTagOwner PROVE ListingInv'
<1>1. PICK t \in Existing, owner \in Owners :
        /\ tags' = [tags EXCEPT ![t].owner = owner]
        /\ UserActs(t, FALSE)
  BY DEF ChangeTagOwner
<1>2. Existing \subseteq Tags /\ tags \in [Existing -> Tag] /\ t \in Tags
  BY DEF ListingInv, ListingTypeOK
<1>3. tags' \in [Existing -> Tag] /\ tags'[t].name = tags[t].name
      /\ \A r \in Existing \ {t} : tags'[r] = tags[r]
  BY <1>1, <1>2 DEF Tag
<1>4. \A r \in Existing \ {t} : BeforeIn(tags, t, r) => BeforeIn(tags', t, r)
  BY <1>3 DEF BeforeIn
<1> QED
  BY <1>1, <1>2, <1>3, <1>4, OneTagChanges

-----------------------------------------------------------------------------
(* The requests.                                                           *)

\* Two tags of the owner under one name: both were changed since the call began.
LEMMA ClashTakesTwo ==
    ASSUME ListingInv, Clashes(Page(next_url))
    PROVE  Cardinality(touched) >= 2
<1> USE DEF ListingInv
<1>1. Existing \subseteq Tags /\ tags \in [Existing -> Tag] /\ touched \subseteq Tags
      /\ tags_by_name \in [Listed -> Tags]
  BY DEF ListingTypeOK
<1>2. PICK t \in Mine(Page(next_url)) :
          \/ tags[t].name \in Listed /\ tags_by_name[tags[t].name] # t
          \/ \E s \in Mine(Page(next_url)) : s # t /\ tags[s].name = tags[t].name
  BY DEF Clashes
<1>3. \A s \in Mine(Page(next_url)) : s \in Existing /\ tags[s].owner = Owner
  BY DEF Mine, Page
<1>4. \A r, s \in Existing : tags[r].owner = Owner /\ tags[s].owner = Owner
                             /\ tags[r].name = tags[s].name => r = s
  BY <1>1 DEF UniqueNames, Existing, Tag
<1>5. PICK n \in Listed : n = tags[t].name /\ tags_by_name[n] # t
  BY <1>2, <1>3, <1>4
<1>6. PICK s \in Tags : s = tags_by_name[n] /\ s # t
  BY <1>1, <1>5
<1>7. /\ <<n, s>> \in held
      /\ s \notin touched => s \in Existing /\ tags[s].name = n /\ tags[s].owner = Owner
  <2>1. /\ <<n, tags_by_name[n]>> \in held
        /\ tags_by_name[n] \notin touched =>
              /\ tags_by_name[n] \in Existing
              /\ tags[tags_by_name[n]] = [name |-> n, owner |-> Owner]
    BY DEF MergedNamesWereHeld
  <2> QED
    BY <1>6, <2>1
<1>8. t \in touched
  BY <1>3, <1>5, <1>6, <1>7 DEF UntouchedNamesAreTheirs
<1>9. s \in touched
  BY <1>3, <1>4, <1>5, <1>6, <1>7
<1>10. Cardinality({s, t}) = 2
  <2>1. IsFiniteSet({t}) /\ Cardinality({t}) = 1
    BY FS_Singleton
  <2>2. Cardinality({t} \union {s}) = Cardinality({t}) + 1
    BY <2>1, <1>6, FS_AddElement
  <2>3. {t} \union {s} = {s, t}
    OBVIOUS
  <2> QED
    BY <2>1, <2>2, <2>3
<1>11. Cardinality({s, t}) <= Cardinality(touched) /\ Cardinality(touched) \in Nat
  BY <1>1, <1>8, <1>9, SmallerSets
<1> QED
  BY <1>10, <1>11

\* A page shows every tag of the owner whose place is on it.
LEMMA MergedShowsThePage ==
    ASSUME ListingInv, NEW results, results = Page(next_url), tags_by_name' = Merged(results)
    PROVE  /\ tags_by_name' \in [Listed' -> Tags]
           /\ Listed' \subseteq Names /\ Listed \subseteq Listed'
           /\ \A n \in Listed' :
                 \/ n \in Listed /\ tags_by_name'[n] = tags_by_name[n]
                 \/ /\ tags_by_name'[n] \in Existing
                    /\ tags[tags_by_name'[n]] = [name |-> n, owner |-> Owner]
           /\ \A t \in Mine(results) : tags[t].name \in Listed'
<1> DEFINE named(n) == {t \in Mine(results) : tags[t].name = n}
           new == [n \in Listed \union {tags[t].name : t \in Mine(results)} |->
                     IF named(n) = {} THEN tags_by_name[n] ELSE CHOOSE t \in named(n) : TRUE]
<1>1. Existing \subseteq Tags /\ tags \in [Existing -> Tag]
      /\ Listed \subseteq Names /\ tags_by_name \in [Listed -> Tags]
  BY DEF ListingInv, ListingTypeOK
<1>2. \A t \in Mine(results) : t \in Existing /\ tags[t].owner = Owner /\ tags[t].name \in Names
  BY <1>1 DEF Mine, Page, Tag
<1>3. tags_by_name' = new
  BY DEF Merged
<1>4. Listed' = Listed \union {tags[t].name : t \in Mine(results)}
  BY <1>3 DEF Listed
<1>5. ASSUME NEW n \in Listed'
      PROVE  /\ tags_by_name'[n] \in Tags
             /\ \/ n \in Listed /\ tags_by_name'[n] = tags_by_name[n]
                \/ /\ tags_by_name'[n] \in Existing
                   /\ tags[tags_by_name'[n]] = [name |-> n, owner |-> Owner]
  <2>1. CASE named(n) = {}
    <3>1. n \in Listed /\ tags_by_name'[n] = tags_by_name[n]
      BY <2>1, <1>3, <1>4
    <3> QED
      BY <3>1, <1>1
  <2>2. CASE named(n) # {}
    <3>1. tags_by_name'[n] \in named(n)
      BY <2>2, <1>3, <1>4
    <3>2. tags_by_name'[n] \in Mine(results) /\ tags[tags_by_name'[n]].name = n
      BY <3>1
    <3> QED
      BY <3>2, <1>1, <1>2 DEF Tag
  <2> QED
    BY <2>1, <2>2
<1>6. tags_by_name' \in [Listed' -> Tags]
  BY <1>3, <1>4, <1>5
<1> QED
  BY <1>1, <1>2, <1>4, <1>5, <1>6

\* The tags that a page shows are no longer unseen; behind the last page is nothing.
LEMMA PagesMissNothing ==
    ASSUME ListingInv, outcome = "listing", tags_by_name' = Merged(Page(next_url)),
           UNCHANGED users,
           NEW t \in Unseen', PlaceIn(tags, t) < (next_url + 1) * PageSize
    PROVE  t \in Missed
<1>1. Existing \subseteq Tags /\ tags \in [Existing -> Tag] /\ next_url \in Nat
  BY DEF ListingInv, ListingTypeOK
<1>2. Existing' = Existing /\ touched' = touched /\ tags' = tags
  BY DEF users, Existing
<1>3. Listed \subseteq Listed' /\ \A s \in Mine(Page(next_url)) : tags[s].name \in Listed'
  BY MergedShowsThePage
<1>4. t \in Existing /\ t \in Unseen /\ tags[t].owner = Owner /\ tags[t].name \notin Listed'
  BY <1>2, <1>3 DEF Unseen
<1>5. PlaceIn(tags, t) \in Nat
  BY <1>1, <1>4, PlacesAreBounded
<1>6. PICK N \in Nat, M \in Nat : N = next_url * PageSize /\ M = (next_url + 1) * PageSize
  BY <1>1, EdgeIsNat
<1>7. ~(PlaceIn(tags, t) \in N .. M - 1)
  <2>1. t \notin Page(next_url)
    BY <1>3, <1>4 DEF Mine
  <2> QED
    BY <1>4, <1>6, <2>1, PlaceIsPlaceIn DEF Page
<1>8. PlaceIn(tags, t) < N
  BY <1>5, <1>6, <1>7
<1> QED
  BY <1>4, <1>6, <1>8, PlaceIsPlaceIn DEF Missed

LEMMA FetchPageKeeps == ASSUME ListingInv, FetchPage PROVE ListingInv'
<1> USE DEF ListingInv
<1>1. outcome = "listing" /\ UNCHANGED users /\ PageExists(next_url)
  BY DEF FetchPage
<1>2. /\ tags' = tags /\ edits' = edits /\ held' = held /\ touched' = touched
      /\ departures' = departures /\ Existing' = Existing
  BY <1>1 DEF users, Existing
<1>3. CASE Clashes(Page(next_url))
  <2>1. outcome' = "duplicate_tag_name" /\ next_url' = next_url /\ tags_by_name' = tags_by_name
    BY <1>3 DEF FetchPage
  <2>2. Cardinality(touched) >= 2
    BY <1>3, ClashTakesTwo
  <2>3. Listed' = Listed
    BY <2>1 DEF Listed
  <2>4. ListingTypeOK'
    BY <1>2, <2>1, <2>3 DEF ListingTypeOK
  <2>5. MergedNamesWereHeld' /\ UntouchedNamesAreTheirs'
    BY <1>2, <2>1, <2>3 DEF MergedNamesWereHeld, UntouchedNamesAreTheirs, Held
  <2>6. DeparturesHideTags' /\ DuplicatesNeedTwoChanges'
    BY <1>2, <2>1, <2>2 DEF DeparturesHideTags, DuplicatesNeedTwoChanges
  <2> QED
    BY <1>2, <2>4, <2>5, <2>6
<1>4. CASE ~Clashes(Page(next_url))
  <2>1. tags_by_name' = Merged(Page(next_url))
        /\ outcome' \in {"listing", "done"}
    BY <1>1, <1>4 DEF FetchPage
  <2>2. \/ HasNext(next_url) /\ next_url' = next_url + 1 /\ outcome' = "listing"
        \/ ~HasNext(next_url) /\ next_url' = next_url /\ outcome' = "done"
    BY <1>1, <1>4 DEF FetchPage, NextPage
  <2>3. /\ tags_by_name' \in [Listed' -> Tags]
        /\ Listed' \subseteq Names /\ Listed \subseteq Listed'
        /\ \A n \in Listed' :
              \/ n \in Listed /\ tags_by_name'[n] = tags_by_name[n]
              \/ /\ tags_by_name'[n] \in Existing
                 /\ tags[tags_by_name'[n]] = [name |-> n, owner |-> Owner]
    BY <2>1, MergedShowsThePage
  <2>4. next_url \in Nat /\ next_url' \in Nat
    BY <2>2 DEF ListingTypeOK
  <2>5. ListingTypeOK'
    BY <1>2, <2>1, <2>3, <2>4 DEF ListingTypeOK
  <2>6. MergedNamesWereHeld'
    <3>1. Held(tags)' \subseteq held'
      BY <1>2 DEF MergedNamesWereHeld, Held
    <3>2. ASSUME NEW n \in Listed'
          PROVE  /\ <<n, tags_by_name'[n]>> \in held'
                 /\ tags_by_name'[n] \notin touched' =>
                        /\ tags_by_name'[n] \in Existing'
                        /\ tags'[tags_by_name'[n]] = [name |-> n, owner |-> Owner]
      <4>1. CASE n \in Listed /\ tags_by_name'[n] = tags_by_name[n]
        BY <4>1, <1>2 DEF MergedNamesWereHeld
      <4>2. CASE /\ tags_by_name'[n] \in Existing
                 /\ tags[tags_by_name'[n]] = [name |-> n, owner |-> Owner]
        <5>1. <<n, tags_by_name'[n]>> \in Held(tags)
          BY <4>2 DEF Held, Existing
        <5> QED
          BY <4>2, <5>1, <1>2 DEF MergedNamesWereHeld
      <4> QED
        BY <2>3, <4>1, <4>2
    <3> QED
      BY <3>1, <3>2 DEF MergedNamesWereHeld
  <2>7. UntouchedNamesAreTheirs'
    BY <1>2 DEF UntouchedNamesAreTheirs
  <2>8. Missed \subseteq Tags /\ Cardinality(Missed) \in Nat /\ Cardinality(Missed) <= departures
        /\ departures \in Nat
    BY <1>1, UnseenAreTags, TagSetsAreFinite DEF DeparturesHideTags, ListingTypeOK
  <2>9. ASSUME HasNext(next_url) PROVE DeparturesHideTags'
    <3>1. Missed' \subseteq Missed
      <4> SUFFICES ASSUME NEW t \in Missed' PROVE t \in Missed
        OBVIOUS
      <4>1. t \in Unseen' /\ PlaceIn(tags, t) < (next_url + 1) * PageSize
        BY <1>2, <2>2, <2>9, PlaceIsPlaceIn DEF Missed
      <4> QED
        BY <4>1, <1>1, <2>1, PagesMissNothing
    <3>2. Cardinality(Missed') \in Nat /\ Cardinality(Missed') <= Cardinality(Missed)
      BY <3>1, <2>8, SmallerSets
    <3>3. outcome' = "listing" /\ Cardinality(Missed)' <= departures'
      BY <3>2, <2>2, <2>8, <2>9, <1>2
    <3> QED
      BY <3>3, <1>2 DEF DeparturesHideTags
  <2>10. ASSUME ~HasNext(next_url) PROVE DeparturesHideTags'
    <3>1. Unseen' \subseteq Missed
      <4> SUFFICES ASSUME NEW t \in Unseen' PROVE t \in Missed
        OBVIOUS
      <4>1. t \in Existing /\ Existing \subseteq Tags /\ tags \in [Existing -> Tag]
        BY <1>2 DEF Unseen, ListingTypeOK
      <4>2. PlaceIn(tags, t) \in Nat /\ PlaceIn(tags, t) < Cardinality(Existing)
        BY <4>1, PlacesAreBounded
      <4>3. PICK M \in Nat : M = (next_url + 1) * PageSize
        BY <2>4, EdgeIsNat
      <4>4. ~(M < Cardinality(Existing)) /\ Cardinality(Existing) \in Nat
        BY <2>10, <4>1, <4>3, TagSetsAreFinite DEF HasNext, PageExists
      <4>5. PlaceIn(tags, t) < (next_url + 1) * PageSize
        BY <4>2, <4>3, <4>4
      <4> QED
        BY <4>5, <1>1, <2>1, PagesMissNothing
    <3>2. Cardinality(Unseen') \in Nat /\ Cardinality(Unseen') <= Cardinality(Missed)
      BY <3>1, <2>8, SmallerSets
    <3>3. outcome' = "done" /\ Cardinality(Unseen)' <= departures'
      BY <3>2, <2>2, <2>8, <2>10, <1>2
    <3> QED
      BY <3>3, <1>2 DEF DeparturesHideTags
  <2>11. DuplicatesNeedTwoChanges'
    BY <2>1 DEF DuplicatesNeedTwoChanges
  <2> QED
    BY <1>2, <2>5, <2>6, <2>7, <2>9, <2>10, <2>11
<1> QED
  BY <1>3, <1>4

\* A call that fails leaves all as it is but the outcome.
LEMMA FailedCallKeeps ==
    ASSUME ListingInv, outcome' = "failed", UNCHANGED <<next_url, tags_by_name, users>>
    PROVE  ListingInv'
<1> USE DEF ListingInv
<1>1. /\ tags' = tags /\ edits' = edits /\ held' = held /\ touched' = touched
      /\ departures' = departures /\ Existing' = Existing /\ Listed' = Listed
  BY DEF users, Existing, Listed
<1>2. ListingTypeOK'
  BY <1>1 DEF ListingTypeOK
<1>3. MergedNamesWereHeld' /\ UntouchedNamesAreTheirs'
  BY <1>1 DEF MergedNamesWereHeld, UntouchedNamesAreTheirs, Held
<1>4. DeparturesHideTags' /\ DuplicatesNeedTwoChanges'
  BY <1>1 DEF DeparturesHideTags, DuplicatesNeedTwoChanges
<1> QED
  BY <1>1, <1>2, <1>3, <1>4

LEMMA InitListing == ListingInit => ListingInv
<1> SUFFICES ASSUME ListingInit PROVE ListingInv
  OBVIOUS
<1>1. PICK E \in SUBSET Tags : tags \in [E -> Tag]
  BY DEF ListingInit
<1>2. /\ Existing = E /\ Listed = {} /\ next_url = 0 /\ outcome = "listing"
      /\ tags_by_name \in [Listed -> Tags]
      /\ held = Held(tags) /\ touched = {} /\ departures = 0 /\ edits \in 0 .. MaxEdits
      /\ UniqueNames(tags)
  BY <1>1 DEF ListingInit, Existing, Listed
<1>3. Held(tags) \subseteq Names \X Tags
  BY <1>1 DEF Held, Tag
<1>4. ListingTypeOK
  BY <1>1, <1>2, <1>3, ListingConstants DEF ListingTypeOK
<1>5. MergedNamesWereHeld
  BY <1>2 DEF MergedNamesWereHeld
<1>6. UntouchedNamesAreTheirs
  <2> SUFFICES ASSUME NEW t \in Existing, tags[t].owner = Owner,
                      NEW s \in Tags, <<tags[t].name, s>> \in Held(tags)
               PROVE  s = t
    BY <1>2 DEF UntouchedNamesAreTheirs
  <2>1. s \in E /\ tags[s].name = tags[t].name /\ tags[s].owner = Owner
    BY <1>1 DEF Held
  <2>2. tags[s] = tags[t]
    BY <2>1, <1>1, <1>2 DEF Tag
  <2> QED
    BY <2>1, <2>2, <1>1, <1>2 DEF UniqueNames
<1>7. DeparturesHideTags
  <2>1. \A t \in Existing : Place(t) \in Nat
    BY <1>1, <1>2, PlaceIsPlaceIn, PlacesAreBounded
  <2>2. next_url * PageSize = 0
    BY <1>2, ListingConstants
  <2>3. Missed = {}
    BY <2>1, <2>2 DEF Missed, Unseen
  <2>4. Cardinality({}) = 0
    BY FS_EmptySet
  <2>5. outcome # "done" /\ departures + edits <= MaxEdits
    BY <1>2, ListingConstants
  <2> QED
    BY <1>2, <2>3, <2>4, <2>5 DEF DeparturesHideTags
<1>8. DuplicatesNeedTwoChanges
  BY <1>2 DEF DuplicatesNeedTwoChanges
<1> QED
  BY <1>2, <1>4, <1>5, <1>6, <1>7, <1>8 DEF ListingInv

LEMMA StutterListing == ASSUME ListingInv, UNCHANGED <<listing, users>> PROVE ListingInv'
<1>1. /\ tags' = tags /\ edits' = edits /\ held' = held /\ touched' = touched
      /\ departures' = departures /\ Existing' = Existing /\ Listed' = Listed
      /\ next_url' = next_url /\ tags_by_name' = tags_by_name /\ outcome' = outcome
  BY DEF users, listing, Existing, Listed
<1>2. ListingTypeOK' /\ UniqueNames(tags)'
  BY <1>1 DEF ListingInv, ListingTypeOK, UniqueNames
<1>3. MergedNamesWereHeld' /\ UntouchedNamesAreTheirs'
  BY <1>1 DEF ListingInv, MergedNamesWereHeld, UntouchedNamesAreTheirs, Held
<1>4. Missed' = Missed /\ Unseen' = Unseen
  BY <1>1, PlaceIsPlaceIn DEF Missed, Unseen
<1>5. DeparturesHideTags' /\ DuplicatesNeedTwoChanges'
  BY <1>1, <1>4 DEF ListingInv, DeparturesHideTags, DuplicatesNeedTwoChanges
<1> QED
  BY <1>2, <1>3, <1>5 DEF ListingInv

LEMMA ListingNextKeeps == ASSUME ListingInv, ListingNext PROVE ListingInv'
<1>1. CASE FetchPage
  BY <1>1, FetchPageKeeps
<1>2. CASE PageGone
  BY <1>2, FailedCallKeeps DEF PageGone
<1>3. CASE CallFails
  BY <1>3, FailedCallKeeps DEF CallFails
<1>4. CASE CreateTag
  BY <1>4, CreateTagKeeps
<1>5. CASE DeleteTag
  BY <1>5, DeleteTagKeeps
<1>6. CASE RenameTag
  BY <1>6, RenameTagKeeps
<1>7. CASE ChangeTagOwner
  BY <1>7, ChangeTagOwnerKeeps
<1> QED
  BY <1>1, <1>2, <1>3, <1>4, <1>5, <1>6, <1>7 DEF ListingNext

-----------------------------------------------------------------------------
(* The update.                                                             *)

\* Nothing of the listing happens after it ended.
LEMMA ListingNextNeedsListing == ListingNext => outcome = "listing"
BY DEF ListingNext, FetchPage, PageGone, CallFails, CreateTag, DeleteTag, RenameTag,
       ChangeTagOwner, UserActs

LEMMA InitInv == Init => IInv
<1> SUFFICES ASSUME Init PROVE IInv
  OBVIOUS
<1>1. ListingInv
  BY InitListing DEF Init
<1>2. current_tag_ids \subseteq Tags
  BY <1>1 DEF Init, ListingInv, ListingTypeOK
<1> QED
  BY <1>1, <1>2 DEF Init, IInv, UpdateInv, Built

LEMMA NextInv == IInv /\ [Next]_vars => IInv'
<1> SUFFICES ASSUME IInv, [Next]_vars PROVE IInv'
  OBVIOUS
<1>1. CASE List
  <2>1. ListingInv'
    BY <1>1, ListingNextKeeps DEF IInv, List
  <2>2. outcome = "listing"
    BY <1>1, ListingNextNeedsListing DEF List
  <2>3. UpdateInv'
    BY <1>1, <2>2 DEF IInv, UpdateInv, Built, List, answer
  <2> QED
    BY <2>1, <2>3 DEF IInv
<1>2. CASE Build
  <2>1. ListingInv'
    BY <1>2, StutterListing DEF IInv, Build
  <2>2. UpdateInv'
    BY <1>2 DEF IInv, UpdateInv, Built, Build, answer, listing
  <2> QED
    BY <2>1, <2>2 DEF IInv
<1>3. CASE Reject
  <2>1. ListingInv'
    BY <1>3, StutterListing DEF IInv, Reject
  <2>2. run'.state = "failed"
    BY <1>3 DEF Reject, Row
  <2>3. UpdateInv'
    BY <1>3, <2>2 DEF IInv, UpdateInv, Built, Reject, answer, listing
  <2> QED
    BY <2>1, <2>3 DEF IInv
<1>4. CASE SaveResult
  <2>1. ListingInv'
    BY <1>4, StutterListing DEF IInv, SaveResult
  <2>2. run'.state = "succeeded"
    BY <1>4 DEF SaveResult, Row
  <2>3. UpdateInv'
    BY <1>4, <2>2 DEF IInv, UpdateInv, Built, SaveResult, answer, listing
  <2> QED
    BY <2>1, <2>3 DEF IInv
<1>5. CASE UNCHANGED vars
  <2>1. ListingInv'
    BY <1>5, StutterListing DEF IInv, vars
  <2>2. UpdateInv'
    BY <1>5 DEF IInv, UpdateInv, Built, vars, answer, listing
  <2> QED
    BY <2>1, <2>2 DEF IInv
<1> QED
  BY <1>1, <1>2, <1>3, <1>4, <1>5 DEF Next

\* The invariant holds throughout, whatever users and Paperless do.
THEOREM Invariance == Spec => []IInv
BY InitInv, NextInv, PTL DEF Spec

-----------------------------------------------------------------------------
(* What follows.                                                           *)

\* What is resolved are the tags under the names that are known.
LEMMA ResolvedTags ==
    ASSUME IInv, Built
    PROVE  /\ update.tags = current_tag_ids
                              \union {tags_by_name[n] : n \in metadata.tags \intersect Listed}
           /\ {tags_by_name[n] : n \in metadata.tags \intersect Listed} \subseteq Tags
BY DEF IInv, UpdateInv, ListingInv, ListingTypeOK, Listed, BuildValidatedUpdate,
       ResolveTagIds, Known

LEMMA InvImpliesTypeOK == IInv => TypeOK
<1> SUFFICES ASSUME IInv PROVE TypeOK
  OBVIOUS
<1>1. ListingTypeOK
  BY DEF IInv, ListingInv
<1>2. ASSUME Built PROVE update.title \in Title /\ update.tags \subseteq Tags
  <2>1. metadata.title \in Title
    BY ValidationConstants DEF IInv, UpdateInv, Metadata
  <2>2. update.title = Normalized(metadata.title)
    BY <1>2 DEF IInv, UpdateInv, BuildValidatedUpdate
  <2> QED
    BY <1>2, <2>1, <2>2, ResolvedTags DEF IInv, UpdateInv, Title, Normalized
<1> QED
  BY <1>1, <1>2 DEF IInv, UpdateInv, TypeOK, Built

LEMMA InvImpliesAddedTags == IInv => AddedTagsWereTheOwners
<1> SUFFICES ASSUME IInv, Built, NEW t \in update.tags \ current_tag_ids
             PROVE  \E n \in metadata.tags : <<n, t>> \in held
  BY DEF AddedTagsWereTheOwners
<1>1. PICK n \in metadata.tags \intersect Listed : t = tags_by_name[n]
  BY ResolvedTags
<1> QED
  BY <1>1 DEF IInv, ListingInv, MergedNamesWereHeld

LEMMA InvImpliesApplied == IInv => ProposedTagsAreApplied
<1> SUFFICES ASSUME IInv, Built PROVE Cardinality(Overlooked) <= departures
  BY DEF ProposedTagsAreApplied
<1>1. Overlooked \subseteq Unseen
  <2> SUFFICES ASSUME NEW t \in Overlooked, tags[t].name \in Listed PROVE FALSE
    BY DEF Overlooked, Unseen
  <2>1. PICK n \in Listed : n = tags[t].name
    OBVIOUS
  <2>2. PICK s : s = tags_by_name[n]
    OBVIOUS
  <2>3. s \in Tags /\ <<n, s>> \in held
    BY <2>2 DEF IInv, ListingInv, ListingTypeOK, MergedNamesWereHeld
  <2>4. s = t
    BY <2>1, <2>3 DEF IInv, ListingInv, UntouchedNamesAreTheirs, Overlooked
  <2>5. t \in update.tags
    BY <2>1, <2>2, <2>4, ResolvedTags DEF Overlooked
  <2> QED
    BY <2>5 DEF Overlooked
<1>2. Unseen \subseteq Tags /\ outcome = "done" /\ departures \in Nat
      /\ Cardinality(Unseen) <= departures
  BY UnseenAreTags DEF IInv, ListingInv, ListingTypeOK, UpdateInv, DeparturesHideTags
<1>3. /\ Cardinality(Overlooked) \in Nat /\ Cardinality(Unseen) \in Nat
      /\ Cardinality(Overlooked) <= Cardinality(Unseen)
  BY <1>1, <1>2, SmallerSets
<1> QED
  BY <1>2, <1>3

\* Every variable of the listing and of the update keeps its type.
THEOREM TypeCorrect == Spec => []TypeOK
BY Invariance, InvImpliesTypeOK, PTL

\* list_tags reports a duplicate name only when at least two tags were changed
\* while it was collecting pages, however small the pages are.
THEOREM DuplicatesAreUsersDoing == Spec => []DuplicatesNeedTwoChanges
<1>1. IInv => DuplicatesNeedTwoChanges
  BY DEF IInv, ListingInv
<1> QED
  BY <1>1, Invariance, PTL

\* A tag that build_validated_update adds was the owner's under a proposed name.
THEOREM NobodyElsesTagIsAdded == Spec => []AddedTagsWereTheOwners
BY Invariance, InvImpliesAddedTags, PTL

\* Every departure hides one tag at most from the listing and so from the update.
THEOREM DeparturesBoundTheLoss == Spec => []ProposedTagsAreApplied
BY Invariance, InvImpliesApplied, PTL
=============================================================================
