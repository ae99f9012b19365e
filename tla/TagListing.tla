------------------------------ MODULE TagListing ------------------------------
(***************************************************************************)
(* PaperlessClient.list_tags: the tags of one owner, by name, collected    *)
(* page by page along the `next' links while users create, rename, delete  *)
(* and hand over tags between two requests.                                *)
(*                                                                         *)
(* Paperless is external: its listing is ordered by name and cut into      *)
(* numbered pages (`?page=2') anew at each request.                        *)
(***************************************************************************)
EXTENDS Integers, FiniteSets

CONSTANTS
    Tags,           \* ids
    Names,          \* numbers stand for names in their order
    Owners,
    Owner,          \* owner_id, the owner of the document
    PageSize,       \* tags on a page of Paperless
    MaxEdits        \* bound: what users do

ASSUME ListingConstants ==
    /\ Tags \subseteq Nat /\ IsFiniteSet(Tags) /\ Names \subseteq Nat
    /\ Owner \in Owners
    /\ PageSize \in Nat \ {0} /\ MaxEdits \in Nat

VARIABLES
    tags,           \* the tags at Paperless, by id
    next_url,       \* number of the page requested next
    tags_by_name,
    outcome,        \* of the call
    edits,          \* what users may still do
    held,           \* history: <<name, id>> the owner had since the call began
    touched,        \* history: tags that users changed, created or deleted since then
    departures      \* history: tags deleted or moved to a later place since then

listing == <<next_url, tags_by_name, outcome>>
users == <<tags, edits, held, touched, departures>>
listingVars == <<listing, users>>

Existing == DOMAIN tags
Listed == DOMAIN tags_by_name
Tag == [name : Names, owner : Owners]

ListingTypeOK ==
    /\ Existing \subseteq Tags /\ tags \in [Existing -> Tag]
    /\ next_url \in Nat
    /\ Listed \subseteq Names /\ tags_by_name \in [Listed -> Tags]
    /\ outcome \in {"listing", "done", "duplicate_tag_name", "failed"}
    /\ edits \in 0 .. MaxEdits /\ departures \in 0 .. MaxEdits
    /\ held \subseteq Names \X Tags /\ touched \subseteq Tags

\* As Paperless guarantees.
UniqueNames(listed) == \A s, t \in DOMAIN listed : listed[s] = listed[t] => s = t

Held(listed) == {<<listed[t].name, t>> : t \in {s \in DOMAIN listed : listed[s].owner = Owner}}

ListingInit ==
    /\ \E existing \in SUBSET Tags : tags \in [existing -> Tag]
    /\ UniqueNames(tags)
    /\ next_url = 0 /\ tags_by_name = [n \in {} |-> 0] /\ outcome = "listing"
    /\ edits \in 0 .. MaxEdits
    /\ held = Held(tags) /\ touched = {} /\ departures = 0

-----------------------------------------------------------------------------
(* Paperless (external).                                                   *)

Before(s, t) ==
    \/ tags[s].name < tags[t].name
    \/ tags[s].name = tags[t].name /\ s < t

Place(t) == Cardinality({s \in Existing : Before(s, t)})

\* Only the first page may be empty; any other that is asked for is 404 by then.
PageExists(page) == page = 0 \/ page * PageSize < Cardinality(Existing)
Page(page) == {t \in Existing : Place(t) \in page * PageSize .. (page + 1) * PageSize - 1}
HasNext(page) == PageExists(page + 1)

UserActs(changed, leaves) ==
    /\ outcome = "listing"
    /\ edits > 0 /\ edits' = edits - 1
    /\ UniqueNames(tags')
    /\ held' = held \union Held(tags')
    /\ touched' = touched \union {changed}
    /\ departures' = departures + (IF leaves THEN 1 ELSE 0)
    /\ UNCHANGED listing

CreateTag ==
    \E t \in Tags \ Existing, tag \in Tag :
        /\ tags' = [s \in Existing \union {t} |-> IF s = t THEN tag ELSE tags[s]]
        /\ UserActs(t, FALSE)

DeleteTag ==
    \E t \in Existing :
        /\ tags' = [s \in Existing \ {t} |-> tags[s]]
        /\ UserActs(t, TRUE)

RenameTag ==
    \E t \in Existing, name \in Names :
        /\ name # tags[t].name
        /\ tags' = [tags EXCEPT ![t].name = name]
        /\ UserActs(t, name > tags[t].name)

ChangeTagOwner ==
    \E t \in Existing, owner \in Owners :
        /\ owner # tags[t].owner
        /\ tags' = [tags EXCEPT ![t].owner = owner]
        /\ UserActs(t, FALSE)

-----------------------------------------------------------------------------
(* list_tags, one step per request.                                        *)

\* Faulty: the tags of all users are taken.
Everyones(results) == results

Mine(results) == {t \in results : tags[t].owner = Owner}

\* Faulty: names are compared before the owner.
ClashesWithAnyone(results) ==
    \E t \in results :
        \/ tags[t].name \in Listed /\ tags_by_name[tags[t].name] # t
        \/ \E s \in results : s # t /\ tags[s].name = tags[t].name

\* One name, two ids: on this page, or on this and an earlier one.
Clashes(results) ==
    \E t \in Mine(results) :
        \/ tags[t].name \in Listed /\ tags_by_name[tags[t].name] # t
        \/ \E s \in Mine(results) : s # t /\ tags[s].name = tags[t].name

\* Faulty: each page starts a new mapping.
LastPageOnly(results) ==
    [n \in {tags[t].name : t \in Mine(results)} |-> CHOOSE t \in Mine(results) : tags[t].name = n]

\* Faulty: the fields of the parsed tag are taken in the wrong order.
OwnersByName(results) ==
    [n \in Listed \union {tags[t].name : t \in Mine(results)} |-> Owner]

\* _merge_tags: an id may come under a second name, or again.
Merged(results) ==
    LET named(n) == {t \in Mine(results) : tags[t].name = n}
    IN  [n \in Listed \union {tags[t].name : t \in Mine(results)} |->
            IF named(n) = {} THEN tags_by_name[n] ELSE CHOOSE t \in named(n) : TRUE]

\* Faulty: the first link is followed again and again.
SamePage(page) == page

NextPage(page) == page + 1

FetchPage ==
    LET results == Page(next_url)
    IN  /\ outcome = "listing" /\ PageExists(next_url)
        /\ IF Clashes(results)
           THEN outcome' = "duplicate_tag_name" /\ UNCHANGED <<next_url, tags_by_name>>
           ELSE /\ tags_by_name' = Merged(results)
                /\ IF HasNext(next_url)
                   THEN next_url' = NextPage(next_url) /\ UNCHANGED outcome
                   ELSE outcome' = "done" /\ UNCHANGED next_url
        /\ UNCHANGED users

\* raise_for_status on a page that is no longer there: the one failure that is sure.
PageGone ==
    /\ outcome = "listing" /\ ~PageExists(next_url)
    /\ outcome' = "failed"
    /\ UNCHANGED <<next_url, tags_by_name, users>>

\* A status, a lost answer, a tag, a page or a link that is not acceptable.
CallFails ==
    /\ outcome = "listing"
    /\ outcome' = "failed"
    /\ UNCHANGED <<next_url, tags_by_name, users>>

ListingNext ==
    \/ FetchPage
    \/ PageGone
    \/ CallFails
    \/ CreateTag
    \/ DeleteTag
    \/ RenameTag
    \/ ChangeTagOwner

ListingFairness == WF_listingVars(FetchPage) /\ WF_listingVars(PageGone)

-----------------------------------------------------------------------------
\* Tags of other users with the same name do not disturb; a duplicate takes two
\* tags, one that loses the name and one that gets it, during the call.
DuplicatesNeedTwoChanges ==
    outcome = "duplicate_tag_name" => Cardinality(touched) >= 2

\* The listing ends, however the tags move meanwhile.
ListingEnds == <>(outcome # "listing")
=============================================================================
