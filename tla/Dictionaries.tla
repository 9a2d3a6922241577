----------------------------- MODULE Dictionaries -----------------------------
(***************************************************************************)
(* The dictionaries of positions and tags and the cards that refer to      *)
(* them: internal/service/company and internal/repository/postgres/        *)
(* company.go (entries), internal/service/profile and profile.go (Update), *)
(* migrations/00005_profiles.sql (foreign keys, BEFORE DELETE triggers).   *)
(*                                                                         *)
(* A card has a place for a position (0) and MaxTags places for tags; in a *)
(* place there is a reference to an entry, a title of the owner's own, or  *)
(* nothing.  `slot` holds the committed rows.  An update and a deletion    *)
(* are transactions of several statements that take the locks of two       *)
(* tables in opposite orders; what they wrote becomes visible at the end.  *)
(***************************************************************************)
EXTENDS Naturals, FiniteSets

CONSTANTS
    Cards, Positions, Tags,
    Titles,         \* titles of entries
    OwnTitles,      \* the ones among them that owners type in (a bound)
    MaxTags,        \* domain.MaxProfileTags and the CHECK on sort_order
    Requests,       \* request slots
    None            \* an empty place, no card, no entry

Entries == Positions \union Tags

ASSUME PlacesAssumption ==
    /\ MaxTags \in Nat
    /\ OwnTitles \subseteq Titles
    /\ Positions \intersect Tags = {}
    /\ Entries \intersect Titles = {}
    /\ None \notin Entries \union Titles \union Cards

VARIABLES
    slot,           \* profiles.position_id, position_custom; rows of profile_tags
    state, title,   \* rows of `positions` and `tags`
    req             \* the running transactions

vars == <<slot, state, title, req>>

TagPlaces == 1..MaxTags
Places == {0} \union TagPlaces
Fills(p) == {None} \union Titles \union (IF p = 0 THEN Positions ELSE Tags)

\* What an update may set: the position, or all the tags, or both, or neither.
\* tagRefs drops a repeated title and keeps the places together; an entry sent
\* twice is refused by profile_tags_unique_tag.
Wishes ==
    {w \in UNION {[D -> {None} \union OwnTitles \union Entries] :
                    D \in {{}, {0}, TagPlaces, Places}} :
        /\ \A p \in DOMAIN w : w[p] \in Fills(p)
        /\ \A p, q \in DOMAIN w \ {0} :
              /\ w[p] = w[q] => p = q \/ w[p] = None
              /\ p < q /\ w[p] = None => w[q] = None}

Ops == {"idle", "row", "tags", "delete"}
Request ==
    [op      : Ops,
     card    : Cards \union {None},     \* the card to update, its row locked
     wish    : Wishes,
     checked : SUBSET Places,           \* references that the foreign key passed
     entry   : Entries \union {None},   \* the entry to delete, its row locked
     held    : SUBSET Cards]            \* cards whose reference the trigger replaced

NoWish == [p \in {} |-> None]
Idle == [op |-> "idle", card |-> None, wish |-> NoWish, checked |-> {},
         entry |-> None, held |-> {}]

TypeOK ==
    /\ slot \in [Cards -> [Places -> {None} \union Titles \union Entries]]
    /\ \A c \in Cards, p \in Places : slot[c][p] \in Fills(p)
    /\ state \in [Entries -> {"new", "live", "gone"}]
    /\ title \in [Entries -> Titles \union {None}]
    /\ \A e \in Entries : state[e] # "new" => title[e] \in Titles
    /\ req \in [Requests -> Request]

Init ==
    /\ slot = [c \in Cards |-> [p \in Places |-> None]]
    /\ state = [e \in Entries |-> "new"]
    /\ title = [e \in Entries |-> None]
    /\ req = [r \in Requests |-> Idle]

-----------------------------------------------------------------------------
(* Row locks *)

Updates(r, c) == req[r].op \in {"row", "tags"} /\ req[r].card = c
Deletes(r, e) == req[r].op = "delete" /\ req[r].entry = e

Uses(c, e) == \E p \in Places : slot[c][p] = e

\* The card's row in `profiles`: an update has it, and so has the deletion of
\* the position of the card; its rows in profile_tags: an update that has
\* cleared them, and the deletion of a tag of the card.
RowLocked(c) == \E q \in Requests :
    \/ Updates(q, c)
    \/ req[q].op = "delete" /\ req[q].entry \in Positions /\ c \in req[q].held
TagsLocked(c) == \E q \in Requests :
    \/ Updates(q, c) /\ req[q].op = "tags"
    \/ req[q].op = "delete" /\ req[q].entry \in Tags /\ c \in req[q].held

\* The entry's row: FOR KEY SHARE of a foreign key that passed, or a deletion.
Shared(e) == \E q \in Requests : \E p \in req[q].checked : req[q].wish[p] = e
Deleted(e) == \E q \in Requests : Deletes(q, e)

References(r) == {p \in DOMAIN req[r].wish : req[r].wish[p] \in Entries}
Unchecked(r) == References(r) \ req[r].checked
SetsTags(r) == DOMAIN req[r].wish \ {0} # {}

\* The reference that the update checks now: the position, with its own
\* statement, before the tags.
Checks(r, p) ==
    /\ p \in Unchecked(r)
    /\ \A q \in Unchecked(r) : p <= q
    /\ req[r].op = IF p = 0 THEN "row" ELSE "tags"

\* An update about to clear the tags of its card.
Clears(r) == req[r].op = "row" /\ 0 \notin Unchecked(r) /\ SetsTags(r)

\* The cards that a deletion has still to change.
Remaining(r) == {c \in Cards : Uses(c, req[r].entry)} \ req[r].held

CardLocked(c, e) == IF e \in Positions THEN RowLocked(c) ELSE TagsLocked(c)

WaitsFor(r, q) ==
    \/ \E p \in References(r) : Checks(r, p) /\ Deletes(q, req[r].wish[p])
    \/ /\ Clears(r)
       /\ req[q].op = "delete" /\ req[q].entry \in Tags /\ req[r].card \in req[q].held
    \/ /\ req[r].op = "delete"
       /\ \E c \in Remaining(r) :
            Updates(q, c) /\ (req[r].entry \in Tags => req[q].op = "tags")
Knot(Q) == \A x \in Q : /\ \E y \in Q : WaitsFor(x, y)
                        /\ \E y \in Q : WaitsFor(y, x)
Deadlocked(r) == \E Q \in SUBSET Requests : r \in Q /\ Knot(Q)

Become(r, new) == req' = [req EXCEPT ![r] = new]
Finish(r) == Become(r, Idle)

-----------------------------------------------------------------------------
(* CompanyRepo: entries of the dictionaries.  Only an administrator gets   *)
(* here.  Titles are unique in a dictionary by their normalised form.      *)

Dictionary(e) == IF e \in Positions THEN Positions ELSE Tags
Free(t, e) == \A d \in Dictionary(e) : state[d] = "live" => title[d] # t

\* Mutant of Create: the title is not written.
CreateUntitled(e, t) ==
    /\ state[e] = "new" /\ Free(t, e)
    /\ state' = [state EXCEPT ![e] = "live"]
    /\ UNCHANGED <<title, slot, req>>

\* CreatePosition, CreateTag
Create(e, t) ==
    /\ state[e] = "new" /\ Free(t, e)
    /\ state' = [state EXCEPT ![e] = "live"]
    /\ title' = [title EXCEPT ![e] = t]
    /\ UNCHANGED <<slot, req>>

\* UpdatePosition: the title is part of a unique key, so the row is locked
\* against foreign keys too.  Tags are not renamed.
Rename(e, t) ==
    /\ e \in Positions /\ state[e] = "live" /\ Free(t, e)
    /\ ~Shared(e) /\ ~Deleted(e)
    /\ title' = [title EXCEPT ![e] = t]
    /\ UNCHANGED <<slot, state, req>>

\* DeletePosition, DeleteTag: the statement locks the row of the entry...
Delete(r, e) ==
    /\ req[r] = Idle
    /\ state[e] = "live"
    /\ ~Shared(e) /\ ~Deleted(e)
    /\ Become(r, [Idle EXCEPT !.op = "delete", !.entry = e])
    /\ UNCHANGED <<slot, state, title>>

\* ...its trigger replaces the references of one card after the other...
Demote(r, c) ==
    /\ req[r].op = "delete"
    /\ c \in Remaining(r)
    /\ ~CardLocked(c, req[r].entry)
    /\ Become(r, [req[r] EXCEPT !.held = @ \union {c}])
    /\ UNCHANGED <<slot, state, title>>

\* What the cards hold when the references to e have become x.
Replaced(e, x) ==
    [c \in Cards |-> [p \in Places |-> IF slot[c][p] = e THEN x ELSE slot[c][p]]]

\* Mutants of Commit: the trigger does not wait for the cards it finds locked;
\* the references are emptied, as ON DELETE SET NULL would.
CommitDeletionEarly(r) ==
    /\ req[r].op = "delete"
    /\ slot' = [c \in Cards |-> IF c \in req[r].held
                                THEN Replaced(req[r].entry, title[req[r].entry])[c]
                                ELSE slot[c]]
    /\ state' = [state EXCEPT ![req[r].entry] = "gone"]
    /\ Finish(r)
    /\ UNCHANGED title

CommitDeletionSetNull(r) ==
    /\ req[r].op = "delete"
    /\ Remaining(r) = {}
    /\ slot' = Replaced(req[r].entry, None)
    /\ state' = [state EXCEPT ![req[r].entry] = "gone"]
    /\ Finish(r)
    /\ UNCHANGED title

\* ...and the row goes.
CommitDeletion(r) ==
    /\ req[r].op = "delete"
    /\ Remaining(r) = {}
    /\ slot' = Replaced(req[r].entry, title[req[r].entry])
    /\ state' = [state EXCEPT ![req[r].entry] = "gone"]
    /\ Finish(r)
    /\ UNCHANGED title

-----------------------------------------------------------------------------
(* ProfileRepo.Update: what came replaces what was, in one transaction.    *)

\* Mutant of Touched: a position sent again is written, and checked, anew.
TouchedAlways(c, w) == w

\* A position that does not change is not checked by its foreign key.
Touched(c, w) ==
    [p \in {q \in DOMAIN w : q = 0 => w[q] # slot[c][q]} |-> w[p]]

\* UPDATE profiles ... WHERE id = $1: the row of the card, position included.
Update(r, c, w) ==
    /\ req[r] = Idle
    /\ ~RowLocked(c)
    /\ Become(r, [Idle EXCEPT !.op = "row", !.card = c, !.wish = Touched(c, w)])
    /\ UNCHANGED <<slot, state, title>>

\* DELETE FROM profile_tags
ClearTags(r) ==
    /\ Clears(r)
    /\ ~TagsLocked(req[r].card)
    /\ Become(r, [req[r] EXCEPT !.op = "tags"])
    /\ UNCHANGED <<slot, state, title>>

\* The foreign key of position_id, at the end of the UPDATE, or of a tag, at
\* the end of its INSERT; it waits for a deletion of the entry to end.
Check(r, p) ==
    /\ Checks(r, p)
    /\ LET e == req[r].wish[p] IN state[e] = "live" /\ ~Deleted(e)
    /\ Become(r, [req[r] EXCEPT !.checked = @ \union {p}])
    /\ UNCHANGED <<slot, state, title>>

Written(c, w) == [p \in Places |-> IF p \in DOMAIN w THEN w[p] ELSE slot[c][p]]

CommitUpdate(r) ==
    /\ Unchecked(r) = {}
    /\ req[r].op = IF SetsTags(r) THEN "tags" ELSE "row"
    /\ slot' = [slot EXCEPT ![req[r].card] = Written(req[r].card, req[r].wish)]
    /\ Finish(r)
    /\ UNCHANGED <<state, title>>

-----------------------------------------------------------------------------
(* Transactions that roll back *)

\* Mutant of Refuse: the transaction is tried again.
RefuseAndRetry(r) ==
    /\ \E p \in References(r) : Checks(r, p) /\ state[req[r].wish[p]] # "live"
    /\ Become(r, [req[r] EXCEPT !.op = "row", !.checked = {}])
    /\ UNCHANGED <<slot, state, title>>

\* The entry is gone: the key is violated, or the INSERT selects no row.
Refuse(r) ==
    /\ \E p \in References(r) : Checks(r, p) /\ state[req[r].wish[p]] # "live"
    /\ Finish(r)
    /\ UNCHANGED <<slot, state, title>>

\* PostgreSQL rolls back one of the transactions that wait for each other.
Victim(r) ==
    /\ Deadlocked(r)
    /\ Finish(r)
    /\ UNCHANGED <<slot, state, title>>

\* A lost connection, a cancelled request, any other error.
Fail(r) ==
    /\ req[r] # Idle
    /\ Finish(r)
    /\ UNCHANGED <<slot, state, title>>

Step(r) ==
    \/ \E c \in Cards : Demote(r, c)
    \/ CommitDeletion(r)
    \/ ClearTags(r)
    \/ \E p \in Places : Check(r, p)
    \/ CommitUpdate(r)
    \/ Refuse(r)
    \/ Victim(r)

Next ==
    \/ \E e \in Entries, t \in Titles : Create(e, t) \/ Rename(e, t)
    \/ \E r \in Requests :
        \/ \E e \in Entries : Delete(r, e)
        \/ \E c \in Cards, w \in Wishes : Update(r, c, w)
        \/ Step(r)
        \/ Fail(r)

Spec == Init /\ [][Next]_vars

\* A started transaction goes on, and one that waits for a row gets it in its
\* turn: PostgreSQL queues those who wait for a row.
Fairness == \A r \in Requests : SF_vars(Step(r))
FairSpec == Spec /\ Fairness

-----------------------------------------------------------------------------
(* Properties *)

Shown(c) ==
    [p \in Places |-> IF slot[c][p] \in Entries THEN title[slot[c][p]] ELSE slot[c][p]]

\* No card, and no update past its foreign key, refers to an entry that is not
\* in its dictionary, however the update met the deletion.
RefsLive ==
    /\ \A c \in Cards, p \in Places : slot[c][p] \in Entries => state[slot[c][p]] = "live"
    /\ \A r \in Requests : \A p \in req[r].checked : state[req[r].wish[p]] = "live"

\* 00005_profiles.sql:126, :130: the tags of a card fill its first places, none
\* of the dictionary twice, and a deletion leaves no place empty -- whatever
\* deletions, each of which rewrites the rows of all cards one by one, and
\* updates, each of which replaces the rows of one card, run beside each other.
TagsInOrder ==
    \A c \in Cards, p, q \in TagPlaces :
        /\ slot[c][p] \in Tags /\ slot[c][p] = slot[c][q] => p = q
        /\ p < q /\ slot[c][p] = None => slot[c][q] = None

\* What a card shows changes only when its own update commits, in the places
\* that the update sets, or when its position is renamed: deleting an entry is
\* not seen on any card.
ShownKept ==
    [][\A c \in Cards, p \in Places :
          Shown(c)'[p] # Shown(c)[p] =>
             \/ \E r \in Requests :
                   /\ Updates(r, c) /\ req'[r] = Idle
                   /\ p \in DOMAIN req[r].wish /\ slot'[c][p] = req[r].wish[p]
             \/ slot'[c] = slot[c] /\ slot[c][p] \in Positions
       ]_vars

\* Transactions that wait for each other delete a tag, or delete two entries at
\* once: the deletion of a position alone gets through whatever updates run.
DeadlocksOverTags ==
    \A Q \in SUBSET Requests :
        Knot(Q) /\ Q # {} =>
            \E r, q \in Q : /\ req[r].op = "delete" /\ req[q].op = "delete"
                            /\ r = q => req[r].entry \in Tags

\* Every transaction ends, those that wait for each other included.
RequestsEnd == \A r \in Requests : req[r] # Idle ~> req[r] = Idle
===============================================================================
