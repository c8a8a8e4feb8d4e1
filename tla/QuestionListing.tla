--------------------------- MODULE QuestionListing ---------------------------
(***************************************************************************)
(* Paging through the question bank by keyset cursor while others write.   *)
(* A row's created_at is the instant its transaction began, so a row may   *)
(* appear, at commit, behind a reader; ids break ties within an instant.   *)
(* The reader is the questions screen, which keeps its filters and its     *)
(* cursor in the URL.                                                      *)
(***************************************************************************)
EXTENDS Absent, Integers, Sequences, FiniteSets

CONSTANTS
    Mangled,        \* a cursor this build did not make
    RowIds,         \* ids of questions: numbers, ordered as uuids are
    RowStates,      \* what a question may be: kind, status, and the rest
    FilterSets,     \* filters the screen may ask for
    PageSize,       \* rows on a page
    MaxInstant,     \* bound on the clock
    MaxWrites,      \* bound on changes to rows
    MaxWalks        \* bound on walks

ASSUME ListingConstants ==
    /\ RowIds \subseteq Nat /\ IsFiniteSet(RowIds) /\ PageSize \in Nat \ {0}
    /\ MaxInstant \in Nat /\ MaxWrites \in Nat /\ MaxWalks \in Nat
    /\ {Missing, Mangled} \cap [at : Nat, id : Nat] = {}

VARIABLES
    rows,       \* the committed rows: created_at and state by id
    inserting,  \* transactions that inserted a row and have not committed
    instant,
    writes,
    walks,      \* walks begun
    screen,     \* the filters and the next cursor of the page shown
    shown,      \* every page of this walk, in order: the ids it shows
    steady      \* ids that have matched the filters since the walk began

listingVars == <<rows, inserting, instant, writes, walks, screen, shown, steady>>

(* Mutant of After: the id does not break a tie. *)
AfterByInstant(bank, id, keyset) == keyset # Missing => bank[id].at < keyset.at

After(bank, id, keyset) ==
    keyset # Missing =>
        bank[id].at < keyset.at \/ (bank[id].at = keyset.at /\ id < keyset.id)

(* The conditions of listQuestions; an absent filter asks nothing.  Search *)
(* looks at every version, difficulty at the latest.                       *)
Matches(row, f) ==
    /\ ~f.include_archived => ~row.archived
    /\ f.kind # Missing => row.kind = f.kind
    /\ f.status # Missing => row.status = f.status
    /\ f.exposure_gt # Missing => row.exposure > f.exposure_gt
    /\ f.difficulty # Missing => row.difficulty = f.difficulty
    /\ f.skill_id # Missing => f.skill_id \in row.skills
    /\ f.q # Missing => f.q \in row.prompts

Matching(bank, f) == {id \in DOMAIN bank : Matches(bank[id].state, f)}

(* ORDER BY created_at DESC, id DESC LIMIT: the rows with fewer than limit *)
(* before them, and the last of them.                                      *)
Before(bank, a, b) == bank[a].at > bank[b].at \/ (bank[a].at = bank[b].at /\ a > b)
NewestFirst(bank, ids, limit) ==
    {id \in ids : Cardinality({a \in ids : Before(bank, a, id)}) < limit}
Oldest(bank, ids) == CHOOSE id \in ids : \A a \in ids \ {id} : Before(bank, a, id)

(* A cursor this build did not make decodes to nothing. *)
DecodeKeysetCursor(cursor) == IF cursor = Mangled THEN Missing ELSE cursor
EncodeKeysetCursor(bank, id) == [at |-> bank[id].at, id |-> id]

(* One row more than the page says whether there is another page. *)
ListPage(bank, ids, limit, cursor) ==
    LET keyset == IF cursor = Missing THEN Missing ELSE DecodeKeysetCursor(cursor)
        found == {id \in ids : After(bank, id, keyset)}
        page == NewestFirst(bank, found, limit)
    IN  [ids |-> page,
         next |-> IF Cardinality(found) > limit THEN EncodeKeysetCursor(bank, Oldest(bank, page)) ELSE Missing]

ListQuestions(bank, f, limit, cursor) == ListPage(bank, Matching(bank, f), limit, cursor)
ListVersions(versions, limit, cursor) == ListPage(versions, DOMAIN versions, limit, cursor)

(* Credits: published and unpublished questions by licence. *)
ListAttributions(bank) ==
    [l \in {bank[id].state.license : id \in DOMAIN bank} \ {Missing, "proprietary"} |->
        Cardinality({id \in DOMAIN bank : bank[id].state.license = l})]

ListingInit ==
    /\ rows \in UNION {[ids -> [at : {0}, state : RowStates]] : ids \in SUBSET RowIds}
    /\ inserting = <<>> /\ instant = 0 /\ writes = 0 /\ walks = 0
    /\ screen = [filters |-> Missing, next |-> Missing]
    /\ shown = <<>> /\ steady = {}

-----------------------------------------------------------------------------
(* The screen. *)
Show(f, cursor) ==
    LET page == ListQuestions(rows, f, PageSize, cursor) IN
    /\ screen' = [filters |-> f, next |-> page.next]
    /\ shown' = IF cursor \in {Missing, Mangled} THEN <<page.ids>> ELSE Append(shown, page.ids)
    /\ steady' = IF cursor \in {Missing, Mangled} THEN Matching(rows, f) ELSE steady
    /\ UNCHANGED <<rows, inserting, instant, writes>>

(* Changing or clearing filters starts a new list: no cursor. *)
SetFilter(f) == walks < MaxWalks /\ walks' = walks + 1 /\ Show(f, Missing)
OpenOldLink(f) == walks < MaxWalks /\ walks' = walks + 1 /\ Show(f, Mangled)
NextPage == screen.next # Missing /\ Show(screen.filters, screen.next) /\ UNCHANGED walks

-----------------------------------------------------------------------------
(* The writers. *)
Keep == steady' = {id \in steady : id \in DOMAIN rows' /\ Matches(rows'[id].state, screen.filters)}

BeginInsert(id) ==
    /\ id \notin DOMAIN rows /\ id \notin DOMAIN inserting
    /\ inserting' = With(inserting, id, instant)
    /\ UNCHANGED <<rows, instant, writes, walks, screen, shown, steady>>

CommitInsert(id) ==
    /\ id \in DOMAIN inserting
    /\ \E state \in RowStates : rows' = With(rows, id, [at |-> inserting[id], state |-> state])
    /\ inserting' = [i \in DOMAIN inserting \ {id} |-> inserting[i]]
    /\ Keep
    /\ UNCHANGED <<instant, writes, walks, screen, shown>>

(* Edit, publish, archive, tag, serve: never created_at, never the id. *)
ChangeRow(id) ==
    /\ writes < MaxWrites /\ id \in DOMAIN rows
    /\ \E state \in RowStates \ {rows[id].state} : rows' = [rows EXCEPT ![id].state = state]
    /\ writes' = writes + 1
    /\ Keep
    /\ UNCHANGED <<inserting, instant, walks, screen, shown>>

PassInstant ==
    /\ instant < MaxInstant /\ instant' = instant + 1
    /\ UNCHANGED <<rows, inserting, writes, walks, screen, shown, steady>>

ListingNext ==
    \/ PassInstant \/ NextPage
    \/ \E f \in FilterSets : SetFilter(f) \/ OpenOldLink(f)
    \/ \E id \in RowIds : BeginInsert(id) \/ CommitInsert(id) \/ ChangeRow(id)

ListingSpec == ListingInit /\ [][ListingNext]_listingVars

-----------------------------------------------------------------------------
(* A walk shows no question twice and, once the last page is reached, has  *)
(* shown every question that was there and matched all along, whatever was *)
(* created, committed late, edited or archived meanwhile.                  *)
PagesTile ==
    /\ \A i, j \in DOMAIN shown : i # j => shown[i] \cap shown[j] = {}
    /\ screen.next = Missing => steady \subseteq UNION {shown[i] : i \in DOMAIN shown}
=============================================================================
