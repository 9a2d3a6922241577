-------------------------- MODULE DictionariesProofs --------------------------
(***************************************************************************)
(* Proofs about Dictionaries, for any cards, entries, titles, number of    *)
(* tags and of concurrent transactions.                                    *)
(***************************************************************************)
EXTENDS Dictionaries, TLAPS

USE PlacesAssumption DEF Entries

\* What a transaction has and has not got in each of its stages.
Shapes ==
    \A r \in Requests :
        /\ req[r].op = "idle" => req[r] = Idle
        /\ req[r].op = "delete" =>
              /\ req[r].entry \in Entries /\ state[req[r].entry] = "live"
              /\ req[r].checked = {}
        /\ req[r].op \in {"row", "tags"} =>
              req[r].card \in Cards /\ req[r].checked \subseteq References(r)

\* The locks: an entry that a foreign key has passed is not being deleted, an
\* entry is deleted by one transaction, the row of a card has one owner.
CheckedShared ==
    \A r \in Requests : \A p \in req[r].checked :
        \A q \in Requests : ~Deletes(q, req[r].wish[p])
OneDeletion ==
    \A r, q \in Requests : \A e \in Entries : Deletes(r, e) /\ Deletes(q, e) => r = q
RowExclusive ==
    \A r, q \in Requests : \A c \in Cards :
        Updates(r, c) =>
            /\ Updates(q, c) => q = r
            /\ req[q].op = "delete" /\ req[q].entry \in Positions => c \notin req[q].held

\* An update that writes the position changes it.
Differs ==
    \A r \in Requests :
        req[r].op \in {"row", "tags"} /\ 0 \in DOMAIN req[r].wish =>
            req[r].wish[0] # slot[req[r].card][0]

IInv == /\ TypeOK /\ Shapes /\ CheckedShared /\ OneDeletion /\ RowExclusive
        /\ Differs /\ RefsLive

-----------------------------------------------------------------------------
(* Wishes *)

LEMMA WishFacts ==
    ASSUME NEW w \in Wishes
    PROVE  /\ DOMAIN w \subseteq Places
           /\ \A p \in DOMAIN w : w[p] \in Fills(p)
           /\ \A p \in DOMAIN w : w[p] \in {None} \union Titles \union Entries
  BY DEF Wishes, Places, TagPlaces, Fills

LEMMA NoWishIsWish == NoWish \in Wishes
  <1>1. NoWish \in [{} -> {None} \union OwnTitles \union Entries]
    BY DEF NoWish
  <1>2. DOMAIN NoWish = {}
    BY DEF NoWish
  <1>. QED BY <1>1, <1>2 DEF Wishes

LEMMA IdleIsRequest == Idle \in Request /\ Idle.op = "idle" /\ Idle.checked = {}
  BY NoWishIsWish DEF Idle, Request, Ops

\* Dropping the position from a wish leaves a wish.
LEMMA TouchedIsWish ==
    ASSUME NEW c \in Cards, NEW w \in Wishes
    PROVE  /\ Touched(c, w) \in Wishes
           /\ 0 \in DOMAIN Touched(c, w) => Touched(c, w)[0] # slot[c][0]
  <1>. DEFINE D == {q \in DOMAIN w : q = 0 => w[q] # slot[c][q]}
              V == {None} \union OwnTitles \union Entries
              t == Touched(c, w)
  <1>1. PICK E \in {{}, {0}, TagPlaces, Places} : w \in [E -> V]
    BY DEF Wishes
  <1>2. D = DOMAIN w \/ D = DOMAIN w \ {0}
    OBVIOUS
  <1>3. D \in {{}, {0}, TagPlaces, Places}
    <2>1. Places \ {0} = TagPlaces /\ TagPlaces \ {0} = TagPlaces
      BY DEF Places, TagPlaces
    <2>. QED BY <1>1, <1>2, <2>1
  <1>4. t \in [D -> V] /\ \A p \in D : t[p] = w[p]
    BY <1>1 DEF Touched
  <1>5. D \subseteq DOMAIN w /\ DOMAIN t = D
    BY <1>4
  <1>6. t \in Wishes
    BY <1>3, <1>4, <1>5 DEF Wishes
  <1>. QED BY <1>4, <1>5, <1>6

-----------------------------------------------------------------------------
(* The invariant *)

LEMMA InitIInv == Init => IInv
  <1>. SUFFICES ASSUME Init PROVE IInv
    OBVIOUS
  <1>1. TypeOK
    BY IdleIsRequest DEF Init, TypeOK, Fills
  <1>2. \A r \in Requests : req[r] = Idle
    BY DEF Init
  <1>3. Shapes /\ CheckedShared /\ OneDeletion /\ RowExclusive /\ Differs
    BY <1>2, IdleIsRequest DEF Shapes, CheckedShared, OneDeletion, RowExclusive, Differs,
       Updates, Deletes
  <1>4. RefsLive
    BY <1>2, IdleIsRequest DEF RefsLive, Init
  <1>. QED BY <1>1, <1>3, <1>4 DEF IInv

\* A transaction that ends without a trace leaves the rest as it was.
LEMMA FinishKeeps ==
    ASSUME IInv, NEW r \in Requests, Finish(r), UNCHANGED <<slot, state, title>>
    PROVE  IInv'
  <1>1. \A q \in Requests : req'[q] = req[q] \/ req'[q] = Idle
    BY DEF Finish, Become, IInv, TypeOK
  <1>2. TypeOK'
    BY IdleIsRequest DEF Finish, Become, IInv, TypeOK
  <1>3. Shapes'
    BY <1>1, IdleIsRequest DEF IInv, Shapes, References
  <1>4. CheckedShared' /\ OneDeletion' /\ RowExclusive' /\ Differs'
    BY <1>1, IdleIsRequest DEF IInv, CheckedShared, OneDeletion, RowExclusive, Differs,
       Updates, Deletes
  <1>5. RefsLive'
    BY <1>1, IdleIsRequest DEF IInv, RefsLive
  <1>. QED BY <1>2, <1>3, <1>4, <1>5 DEF IInv

LEMMA CreateKeeps ==
    ASSUME IInv, NEW e \in Entries, NEW t \in Titles, Create(e, t)
    PROVE  IInv'
  <1>. USE DEF Create, IInv
  <1>1. TypeOK'
    BY DEF TypeOK, Fills
  <1>2. \A d \in Entries : state[d] = "live" => state'[d] = "live"
    BY DEF TypeOK
  <1>3. Shapes' /\ CheckedShared' /\ OneDeletion' /\ RowExclusive' /\ Differs'
    BY <1>2 DEF Shapes, CheckedShared, OneDeletion, RowExclusive, Differs, Updates, Deletes,
       References
  <1>4. RefsLive'
    <2>1. \A d \in Entries : state[d] = "live" => state'[d] = "live"
      BY <1>2
    <2>2. ASSUME NEW q \in Requests, NEW p \in req[q].checked PROVE req[q].wish[p] \in Entries
      BY <2>2, IdleIsRequest DEF Shapes, References, TypeOK, Request, Ops
    <2>. QED BY <2>1, <2>2 DEF RefsLive
  <1>. QED BY <1>1, <1>3, <1>4

LEMMA RenameKeeps ==
    ASSUME IInv, NEW e \in Entries, NEW t \in Titles, Rename(e, t)
    PROVE  IInv'
  <1>. USE DEF Rename, IInv
  <1>1. TypeOK'
    BY DEF TypeOK, Fills
  <1>2. Shapes' /\ CheckedShared' /\ OneDeletion' /\ RowExclusive' /\ Differs' /\ RefsLive'
    BY DEF Shapes, CheckedShared, OneDeletion, RowExclusive, Differs, Updates, Deletes,
       References, RefsLive
  <1>. QED BY <1>1, <1>2

LEMMA DeleteKeeps ==
    ASSUME IInv, NEW r \in Requests, NEW e \in Entries, Delete(r, e)
    PROVE  IInv'
  <1>. USE DEF Delete, IInv
  <1>. DEFINE new == [Idle EXCEPT !.op = "delete", !.entry = e]
  <1>1. /\ new.op = "delete" /\ new.entry = e /\ new.checked = {} /\ new.held = {}
        /\ new \in Request
    BY NoWishIsWish DEF Idle, Request, Ops
  <1>2. /\ req'[r] = new
        /\ \A q \in Requests : q # r => req'[q] = req[q]
    BY DEF Become, TypeOK
  <1>3. TypeOK'
    BY <1>1 DEF TypeOK, Become
  <1>. HIDE DEF new
  <1>4. Shapes' /\ Differs'
    BY <1>1, <1>2 DEF Shapes, Differs, References
  <1>5. CheckedShared'
    BY <1>1, <1>2 DEF CheckedShared, Deletes, Shared
  <1>6. OneDeletion'
    BY <1>1, <1>2 DEF OneDeletion, Deletes, Deleted
  <1>7. RowExclusive'
    BY <1>1, <1>2 DEF RowExclusive, Updates
  <1>8. RefsLive'
    BY <1>1, <1>2 DEF RefsLive
  <1>. QED BY <1>3, <1>4, <1>5, <1>6, <1>7, <1>8

LEMMA DemoteKeeps ==
    ASSUME IInv, NEW r \in Requests, NEW c \in Cards, Demote(r, c)
    PROVE  IInv'
  <1>. USE DEF Demote, IInv
  <1>. DEFINE new == [req[r] EXCEPT !.held = @ \union {c}]
  <1>1. /\ new.op = req[r].op /\ new.entry = req[r].entry /\ new.checked = req[r].checked
        /\ new.card = req[r].card /\ new.wish = req[r].wish
        /\ new.held = req[r].held \union {c}
        /\ new \in Request
    BY DEF Request, TypeOK
  <1>2. /\ req'[r] = new
        /\ \A q \in Requests : q # r => req'[q] = req[q]
    BY DEF Become, TypeOK
  <1>3. TypeOK'
    BY <1>1 DEF TypeOK, Become
  <1>. HIDE DEF new
  <1>4. Shapes' /\ Differs' /\ CheckedShared' /\ OneDeletion' /\ RefsLive'
    BY <1>1, <1>2 DEF Shapes, Differs, References, CheckedShared, OneDeletion, RefsLive, Deletes
  <1>5. RowExclusive'
    BY <1>1, <1>2 DEF RowExclusive, Updates, CardLocked, RowLocked
  <1>. QED BY <1>3, <1>4, <1>5

LEMMA CommitDeletionKeeps ==
    ASSUME IInv, NEW r \in Requests, CommitDeletion(r)
    PROVE  IInv'
  <1>. USE DEF CommitDeletion, IInv
  <1>. DEFINE e == req[r].entry
  <1>1. /\ e \in Entries /\ state[e] = "live" /\ title[e] \in Titles
        /\ Deletes(r, e)
    BY DEF Shapes, TypeOK, Deletes
  <1>2. /\ req'[r] = Idle
        /\ \A q \in Requests : q # r => req'[q] = req[q]
    BY DEF Finish, Become, TypeOK
  <1>3. \A c \in Cards, p \in Places :
           slot'[c][p] = IF slot[c][p] = e THEN title[e] ELSE slot[c][p]
    BY DEF Replaced
  <1>4. TypeOK'
    <2>1. slot' \in [Cards -> [Places -> {None} \union Titles \union Entries]]
      BY <1>1 DEF Replaced, TypeOK
    <2>2. \A c \in Cards, p \in Places : slot'[c][p] \in Fills(p)
      BY <1>1, <1>3 DEF TypeOK, Fills
    <2>3. state' \in [Entries -> {"new", "live", "gone"}]
      BY DEF TypeOK
    <2>4. \A d \in Entries : state'[d] # "new" => title'[d] \in Titles
      BY <1>1 DEF TypeOK
    <2>5. req' \in [Requests -> Request]
      BY IdleIsRequest DEF Finish, Become, TypeOK
    <2>. QED BY <2>1, <2>2, <2>3, <2>4, <2>5 DEF TypeOK
  <1>5. \A d \in Entries : d # e => state'[d] = state[d]
    BY <1>1 DEF TypeOK
  <1>6. Shapes'
    <2>1. \A q \in Requests : q # r /\ req[q].op = "delete" => req[q].entry # e
      BY <1>1 DEF OneDeletion, Deletes
    <2>. QED BY <1>2, <1>5, <2>1, IdleIsRequest DEF Shapes, References
  <1>7. CheckedShared' /\ OneDeletion' /\ RowExclusive'
    BY <1>2, IdleIsRequest DEF CheckedShared, OneDeletion, RowExclusive, Updates, Deletes
  <1>8. Differs'
    <2>. SUFFICES ASSUME NEW q \in Requests, q # r, req[q].op \in {"row", "tags"},
                         0 \in DOMAIN req[q].wish
                  PROVE  req[q].wish[0] # slot'[req[q].card][0]
      BY <1>2, IdleIsRequest DEF Differs
    <2>. DEFINE c == req[q].card
    <2>1. c \in Cards /\ 0 \in Places /\ Updates(q, c)
      BY DEF Shapes, Places, Updates
    <2>2. slot[c][0] # e
      <3>. SUFFICES ASSUME slot[c][0] = e PROVE FALSE
        OBVIOUS
      <3>1. e \in Positions
        BY <1>1, <2>1 DEF TypeOK, Fills
      <3>2. c \in req[r].held
        BY <2>1 DEF Remaining, Uses
      <3>. QED BY <2>1, <3>1, <3>2 DEF RowExclusive
    <2>. QED BY <1>3, <2>1, <2>2 DEF Differs
  <1>9. RefsLive'
    <2>1. \A c \in Cards, p \in Places : slot'[c][p] \in Entries => state'[slot'[c][p]] = "live"
      BY <1>1, <1>3, <1>5 DEF RefsLive
    <2>2. ASSUME NEW q \in Requests, NEW p \in req'[q].checked
          PROVE  state'[req'[q].wish[p]] = "live"
      <3>1. req'[q] = req[q] /\ q # r
        BY <1>2, <2>2, IdleIsRequest
      <3>2. req[q].wish[p] # e
        BY <1>1, <2>2, <3>1 DEF CheckedShared
      <3>3. req[q].wish[p] \in Entries
        <4>1. req[q] \in Request /\ req[q].op \in Ops
          BY DEF TypeOK, Request
        <4>2. req[q].op \in {"row", "tags"}
          BY <2>2, <3>1, <4>1, IdleIsRequest DEF Shapes, Ops
        <4>. QED BY <2>2, <3>1, <4>2 DEF Shapes, References
      <3>. QED BY <1>5, <2>2, <3>1, <3>2, <3>3 DEF RefsLive
    <2>. QED BY <2>1, <2>2 DEF RefsLive
  <1>. QED BY <1>4, <1>6, <1>7, <1>8, <1>9

LEMMA UpdateKeeps ==
    ASSUME IInv, NEW r \in Requests, NEW c \in Cards, NEW w \in Wishes, Update(r, c, w)
    PROVE  IInv'
  <1>. USE DEF Update, IInv
  <1>. DEFINE new == [Idle EXCEPT !.op = "row", !.card = c, !.wish = Touched(c, w)]
  <1>1. /\ new.op = "row" /\ new.card = c /\ new.wish = Touched(c, w)
        /\ new.checked = {} /\ new.held = {}
        /\ new \in Request
    BY TouchedIsWish DEF Idle, Request, Ops
  <1>2. /\ req'[r] = new
        /\ \A q \in Requests : q # r => req'[q] = req[q]
    BY DEF Become, TypeOK
  <1>3. TypeOK'
    BY <1>1 DEF TypeOK, Become
  <1>. HIDE DEF new
  <1>4. Shapes' /\ CheckedShared' /\ OneDeletion' /\ RefsLive'
    BY <1>1, <1>2 DEF Shapes, References, CheckedShared, OneDeletion, RefsLive, Deletes
  <1>5. Differs'
    BY <1>1, <1>2, TouchedIsWish DEF Differs
  <1>6. RowExclusive'
    BY <1>1, <1>2 DEF RowExclusive, Updates, RowLocked
  <1>. QED BY <1>3, <1>4, <1>5, <1>6

LEMMA ClearTagsKeeps ==
    ASSUME IInv, NEW r \in Requests, ClearTags(r)
    PROVE  IInv'
  <1>. USE DEF ClearTags, Clears, IInv
  <1>. DEFINE new == [req[r] EXCEPT !.op = "tags"]
  <1>1. /\ new.op = "tags" /\ new.entry = req[r].entry /\ new.checked = req[r].checked
        /\ new.card = req[r].card /\ new.wish = req[r].wish /\ new.held = req[r].held
        /\ new \in Request
    BY DEF Request, Ops, TypeOK
  <1>2. /\ req'[r] = new
        /\ \A q \in Requests : q # r => req'[q] = req[q]
    BY DEF Become, TypeOK
  <1>3. TypeOK'
    BY <1>1 DEF TypeOK, Become
  <1>. HIDE DEF new
  <1>4. Shapes' /\ Differs' /\ CheckedShared' /\ OneDeletion' /\ RefsLive'
    BY <1>1, <1>2 DEF Shapes, Differs, References, CheckedShared, OneDeletion, RefsLive, Deletes
  <1>5. RowExclusive'
    BY <1>1, <1>2 DEF RowExclusive, Updates
  <1>. QED BY <1>3, <1>4, <1>5

LEMMA CheckKeeps ==
    ASSUME IInv, NEW r \in Requests, NEW p \in Places, Check(r, p)
    PROVE  IInv'
  <1>. USE DEF Check, IInv
  <1>. DEFINE new == [req[r] EXCEPT !.checked = @ \union {p}]
  <1>1. /\ new.op = req[r].op /\ new.entry = req[r].entry /\ new.held = req[r].held
        /\ new.card = req[r].card /\ new.wish = req[r].wish
        /\ new.checked = req[r].checked \union {p}
        /\ new \in Request
    BY DEF Request, TypeOK
  <1>2. /\ req'[r] = new
        /\ \A q \in Requests : q # r => req'[q] = req[q]
    BY DEF Become, TypeOK
  <1>3. TypeOK'
    BY <1>1 DEF TypeOK, Become
  <1>. HIDE DEF new
  <1>4. p \in References(r) /\ req[r].op \in {"row", "tags"}
    BY DEF Checks, Unchecked
  <1>5. Shapes'
    BY <1>1, <1>2, <1>4 DEF Shapes, References
  <1>6. Differs' /\ OneDeletion' /\ RowExclusive'
    BY <1>1, <1>2 DEF Differs, OneDeletion, RowExclusive, Deletes, Updates
  <1>7. CheckedShared' /\ RefsLive'
    BY <1>1, <1>2 DEF CheckedShared, RefsLive, Deletes, Deleted
  <1>. QED BY <1>3, <1>5, <1>6, <1>7

LEMMA CommitUpdateKeeps ==
    ASSUME IInv, NEW r \in Requests, CommitUpdate(r)
    PROVE  IInv'
  <1>. USE DEF CommitUpdate, IInv
  <1>. DEFINE c == req[r].card
              w == req[r].wish
  <1>1. c \in Cards /\ w \in Wishes /\ Updates(r, c)
    BY DEF Shapes, TypeOK, Request, Updates
  <1>2. /\ req'[r] = Idle
        /\ \A q \in Requests : q # r => req'[q] = req[q]
    BY DEF Finish, Become, TypeOK
  <1>3. /\ \A p \in Places : slot'[c][p] = IF p \in DOMAIN w THEN w[p] ELSE slot[c][p]
        /\ \A d \in Cards : d # c => slot'[d] = slot[d]
        /\ slot' \in [Cards -> [Places -> {None} \union Titles \union Entries]]
    <2>1. Written(c, w) \in [Places -> {None} \union Titles \union Entries]
      BY <1>1, WishFacts DEF Written, TypeOK
    <2>. QED BY <1>1, <2>1 DEF Written, TypeOK
  <1>4. TypeOK'
    <2>1. \A d \in Cards, p \in Places : slot'[d][p] \in Fills(p)
      BY <1>1, <1>3, WishFacts DEF TypeOK
    <2>2. req' \in [Requests -> Request]
      BY IdleIsRequest DEF Finish, Become, TypeOK
    <2>. QED BY <1>3, <2>1, <2>2 DEF TypeOK
  <1>5. Shapes' /\ CheckedShared' /\ OneDeletion' /\ RowExclusive'
    BY <1>2, IdleIsRequest
    DEF Shapes, References, CheckedShared, OneDeletion, RowExclusive, Updates, Deletes
  <1>6. Differs'
    <2>. SUFFICES ASSUME NEW q \in Requests, q # r, req[q].op \in {"row", "tags"},
                         0 \in DOMAIN req[q].wish
                  PROVE  req[q].wish[0] # slot'[req[q].card][0]
      BY <1>2, IdleIsRequest DEF Differs
    <2>1. req[q].card \in Cards /\ req[q].card # c
      BY <1>1 DEF Shapes, RowExclusive, Updates
    <2>. QED BY <1>3, <2>1 DEF Differs
  <1>7. RefsLive'
    <2>1. \A p \in DOMAIN w : w[p] \in Entries => p \in req[r].checked
      BY DEF Unchecked, References
    <2>2. \A d \in Cards, p \in Places : slot'[d][p] \in Entries => state[slot'[d][p]] = "live"
      BY <1>1, <1>3, <2>1 DEF RefsLive
    <2>. QED BY <1>2, <2>2, IdleIsRequest DEF RefsLive
  <1>. QED BY <1>4, <1>5, <1>6, <1>7

LEMMA NextIInv == IInv /\ [Next]_vars => IInv'
  <1>. SUFFICES ASSUME IInv, [Next]_vars PROVE IInv'
    OBVIOUS
  <1>1. CASE UNCHANGED vars
    BY <1>1 DEF vars, IInv, TypeOK, Shapes, References, CheckedShared, OneDeletion,
       RowExclusive, Differs, RefsLive, Updates, Deletes
  <1>2. ASSUME NEW e \in Entries, NEW t \in Titles, Create(e, t) \/ Rename(e, t) PROVE IInv'
    BY <1>2, CreateKeeps, RenameKeeps
  <1>3. ASSUME NEW r \in Requests, NEW e \in Entries, Delete(r, e) PROVE IInv'
    BY <1>3, DeleteKeeps
  <1>4. ASSUME NEW r \in Requests, NEW c \in Cards, NEW w \in Wishes, Update(r, c, w) PROVE IInv'
    BY <1>4, UpdateKeeps
  <1>5. ASSUME NEW r \in Requests, Step(r) PROVE IInv'
    <2>1. CASE Refuse(r) \/ Victim(r)
      BY <2>1, FinishKeeps DEF Refuse, Victim
    <2>. QED BY <1>5, <2>1, DemoteKeeps, CommitDeletionKeeps, ClearTagsKeeps, CheckKeeps,
                CommitUpdateKeeps DEF Step
  <1>6. ASSUME NEW r \in Requests, Fail(r) PROVE IInv'
    BY <1>6, FinishKeeps DEF Fail
  <1>. QED BY <1>1, <1>2, <1>3, <1>4, <1>5, <1>6 DEF Next

LEMMA Invariance == Spec => []IInv
  BY InitIInv, NextIInv, PTL DEF Spec

-----------------------------------------------------------------------------
(* The properties *)

\* Variables keep their types.
THEOREM TypeCorrect == Spec => []TypeOK
  <1>1. IInv => TypeOK
    BY DEF IInv
  <1>. QED BY <1>1, Invariance, PTL

\* Every reference, committed or past its foreign key, is to a live entry.
THEOREM RefsLiveHolds == Spec => []RefsLive
  <1>1. IInv => RefsLive
    BY DEF IInv
  <1>. QED BY <1>1, Invariance, PTL

\* In a knot without the deletion of a tag, the only deletion waits for an
\* update of a card with the deleted position, and that update, which changes
\* the position, waits for no key on it.
LEMMA KnotHasTag == IInv => DeadlocksOverTags
  <1>. SUFFICES ASSUME IInv, NEW Q \in SUBSET Requests, Knot(Q), Q # {},
                       \A r, q \in Q : req[r].op = "delete" /\ req[q].op = "delete"
                                          => r = q /\ req[r].entry \notin Tags
                PROVE  FALSE
    BY DEF DeadlocksOverTags
  <1>1. PICK d \in Q : req[d].op = "delete"
    <2>1. PICK x \in Q : TRUE
      OBVIOUS
    <2>2. PICK y \in Q : WaitsFor(x, y)
      BY DEF Knot
    <2>. QED BY <2>2 DEF WaitsFor, Deletes
  <1>2. req[d].entry \in Positions
    BY <1>1 DEF IInv, Shapes
  <1>3. PICK u \in Q, c \in Cards : Updates(u, c) /\ Uses(c, req[d].entry)
    <2>1. PICK y \in Q : WaitsFor(d, y)
      BY DEF Knot
    <2>. QED BY <1>1, <2>1 DEF WaitsFor, Checks, Clears, Remaining
  <1>4. slot[c][0] = req[d].entry
    BY <1>2, <1>3 DEF Uses, IInv, TypeOK, Fills
  <1>5. PICK y \in Q : WaitsFor(u, y)
    BY DEF Knot
  <1>6. req[u].op # "delete"
    BY <1>3 DEF Updates
  <1>7. req[y].op = "delete"
    BY <1>5, <1>6 DEF WaitsFor, Deletes
  <1>8. y = d
    BY <1>1, <1>7
  <1>9. PICK p \in References(u) : Checks(u, p) /\ Deletes(d, req[u].wish[p])
    BY <1>2, <1>5, <1>6, <1>8 DEF WaitsFor
  <1>10. p \in DOMAIN req[u].wish /\ req[u].wish[p] = req[d].entry /\ p = 0
    <2>1. p \in DOMAIN req[u].wish /\ req[u].wish[p] = req[d].entry
      BY <1>9 DEF References, Deletes
    <2>2. req[u].wish[p] \in Fills(p)
      BY <2>1, WishFacts DEF IInv, TypeOK, Request
    <2>. QED BY <1>2, <2>1, <2>2 DEF Fills
  <1>. QED BY <1>3, <1>4, <1>10 DEF IInv, Differs, Updates

\* The deletion of a position alone is never part of a deadlock.
THEOREM DeadlocksOverTagsHolds == Spec => []DeadlocksOverTags
  BY KnotHasTag, Invariance, PTL

\* The condition of ShownKept for one place of one card.
KeptOrMeant(c, p) ==
    Shown(c)'[p] # Shown(c)[p] =>
       \/ \E r \in Requests :
             /\ Updates(r, c) /\ req'[r] = Idle
             /\ p \in DOMAIN req[r].wish /\ slot'[c][p] = req[r].wish[p]
       \/ slot'[c] = slot[c] /\ slot[c][p] \in Positions

LEMMA StepKeepsShown ==
    ASSUME IInv, Next, NEW c \in Cards, NEW p \in Places PROVE KeptOrMeant(c, p)
  <1>0. /\ Shown(c)[p] = IF slot[c][p] \in Entries THEN title[slot[c][p]] ELSE slot[c][p]
        /\ Shown(c)'[p] = IF slot'[c][p] \in Entries THEN title'[slot'[c][p]] ELSE slot'[c][p]
    BY DEF Shown
  <1>1. CASE UNCHANGED <<slot, title>>
    BY <1>0, <1>1 DEF KeptOrMeant
  <1>2. ASSUME NEW e \in Entries, NEW t \in Titles, Create(e, t) PROVE KeptOrMeant(c, p)
    <2>1. slot[c][p] # e
      BY <1>2 DEF Create, IInv, RefsLive
    <2>. QED BY <1>0, <1>2, <2>1 DEF Create, KeptOrMeant, IInv, TypeOK
  <1>3. ASSUME NEW e \in Entries, NEW t \in Titles, Rename(e, t) PROVE KeptOrMeant(c, p)
    <2>1. CASE slot[c][p] = e
      BY <1>3, <2>1 DEF Rename, KeptOrMeant
    <2>2. CASE slot[c][p] # e
      BY <1>0, <1>3, <2>2 DEF Rename, KeptOrMeant, IInv, TypeOK
    <2>. QED BY <2>1, <2>2
  <1>4. ASSUME NEW r \in Requests, CommitDeletion(r) PROVE KeptOrMeant(c, p)
    <2>. DEFINE e == req[r].entry
    <2>1. e \in Entries /\ title[e] \in Titles
      BY <1>4 DEF CommitDeletion, IInv, Shapes, TypeOK
    <2>2. slot'[c][p] = IF slot[c][p] = e THEN title[e] ELSE slot[c][p]
      BY <1>4 DEF CommitDeletion, Replaced
    <2>. QED BY <1>0, <1>4, <2>1, <2>2 DEF CommitDeletion, KeptOrMeant
  <1>5. ASSUME NEW r \in Requests, CommitUpdate(r) PROVE KeptOrMeant(c, p)
    <2>1. /\ req[r].card \in Cards /\ Updates(r, req[r].card)
          /\ req'[r] = Idle
      BY <1>5 DEF CommitUpdate, IInv, Shapes, TypeOK, Updates, Finish, Become
    <2>2. CASE req[r].card = c
      <3>1. slot'[c][p] = IF p \in DOMAIN req[r].wish THEN req[r].wish[p] ELSE slot[c][p]
        BY <1>5, <2>2 DEF CommitUpdate, Written, IInv, TypeOK
      <3>. QED BY <1>0, <1>5, <2>1, <2>2, <3>1 DEF CommitUpdate, KeptOrMeant
    <2>3. CASE req[r].card # c
      BY <1>0, <1>5, <2>3 DEF CommitUpdate, KeptOrMeant, IInv, TypeOK
    <2>. QED BY <2>2, <2>3
  <1>. QED BY <1>1, <1>2, <1>3, <1>4, <1>5
       DEF Next, Step, Delete, Update, Demote, ClearTags, Check, Refuse, Victim, Fail

\* Deleting an entry is seen on no card, whatever updates run beside it.
THEOREM ShownKeptHolds == Spec => ShownKept
  <1>. DEFINE Kept == \A c \in Cards, p \in Places : KeptOrMeant(c, p)
  <1>1. IInv /\ [Next]_vars => [Kept]_vars
    BY StepKeepsShown
  <1>2. Kept <=> \A c \in Cards, p \in Places :
          Shown(c)'[p] # Shown(c)[p] =>
             \/ \E r \in Requests :
                   /\ Updates(r, c) /\ req'[r] = Idle
                   /\ p \in DOMAIN req[r].wish /\ slot'[c][p] = req[r].wish[p]
             \/ slot'[c] = slot[c] /\ slot[c][p] \in Positions
    BY DEF KeptOrMeant
  <1>. QED BY <1>1, <1>2, Invariance, PTL DEF Spec, ShownKept

-----------------------------------------------------------------------------
(* The order of the tags *)

\* An update writes all the places for tags, in order, or none.
LEMMA WishInOrder ==
    ASSUME NEW w \in Wishes
    PROVE  /\ (\A p \in TagPlaces : p \in DOMAIN w) \/ (\A p \in TagPlaces : p \notin DOMAIN w)
           /\ \A p, q \in TagPlaces : p \in DOMAIN w /\ q \in DOMAIN w =>
                 /\ w[p] \in Tags /\ w[p] = w[q] => p = q
                 /\ p < q /\ w[p] = None => w[q] = None
  <1>1. PICK D \in {{}, {0}, TagPlaces, Places} : w \in [D -> {None} \union OwnTitles \union Entries]
    BY DEF Wishes
  <1>2. DOMAIN w = D /\ 0 \notin TagPlaces /\ TagPlaces \subseteq Places
    BY <1>1 DEF TagPlaces, Places
  <1>3. \A p, q \in DOMAIN w \ {0} :
           /\ w[p] = w[q] => p = q \/ w[p] = None
           /\ p < q /\ w[p] = None => w[q] = None
    BY DEF Wishes
  <1>. QED BY <1>1, <1>2, <1>3

LEMMA StepKeepsOrder ==
    ASSUME IInv, TagsInOrder, [Next]_vars
    PROVE  TagsInOrder'
  <1>1. CASE UNCHANGED slot
    BY <1>1 DEF TagsInOrder
  <1>2. ASSUME NEW r \in Requests, CommitDeletion(r) PROVE TagsInOrder'
    <2>. DEFINE e == req[r].entry
    <2>1. e \in Entries /\ title[e] \in Titles
      BY <1>2 DEF CommitDeletion, IInv, Shapes, TypeOK
    <2>2. \A c \in Cards, p \in TagPlaces :
             slot'[c][p] = IF slot[c][p] = e THEN title[e] ELSE slot[c][p]
      BY <1>2 DEF CommitDeletion, Replaced, Places
    <2>. HIDE DEF e
    <2>3. title[e] \notin Tags /\ title[e] # None /\ e # None
      BY <2>1
    <2>. QED BY <2>2, <2>3 DEF TagsInOrder
  <1>3. ASSUME NEW r \in Requests, CommitUpdate(r) PROVE TagsInOrder'
    <2>. DEFINE w == req[r].wish
    <2>1. req[r].card \in Cards /\ w \in Wishes
      BY <1>3 DEF CommitUpdate, IInv, Shapes, TypeOK, Request
    <2>2. \A c \in Cards, p \in TagPlaces :
             slot'[c][p] = IF c = req[r].card /\ p \in DOMAIN w THEN w[p] ELSE slot[c][p]
      BY <1>3, <2>1 DEF CommitUpdate, Written, Places, IInv, TypeOK
    <2>. HIDE DEF w
    <2>. QED BY <2>1, <2>2, WishInOrder DEF TagsInOrder
  <1>. QED BY <1>1, <1>2, <1>3
       DEF Next, Create, Rename, Step, Delete, Update, Demote, ClearTags, Check, Refuse, Victim,
           Fail, vars

\* Tags stay in order, once each and without a gap.
THEOREM TagsInOrderHolds == Spec => []TagsInOrder
  <1>1. Init => TagsInOrder
    BY DEF Init, TagsInOrder, Places
  <1>. QED BY <1>1, StepKeepsOrder, Invariance, PTL DEF Spec
===============================================================================
