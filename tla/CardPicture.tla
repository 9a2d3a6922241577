------------------------------ MODULE CardPicture ------------------------------
(***************************************************************************)
(* One card, its photo and its picture: internal/service/card and profile, *)
(* internal/handler/http (cards.go, profiles.go, storeImage) over          *)
(* internal/repository/postgres/profile.go and the object storage.         *)
(*                                                                         *)
(* A reader takes the row of the card in one statement and its tags in     *)
(* another, and then draws what it has read while the owner goes on        *)
(* editing.  Files are named by what they show and are never deleted, so   *)
(* that the same picture is uploaded, or drawn, under the same name.       *)
(***************************************************************************)
EXTENDS Integers, Sequences

CONSTANTS
    Texts,      \* name, position, contacts, company: what else the card shows
    Titles,     \* titles of tags
    MaxTags,    \* places for tags on a card
    Crops,      \* crops of a photo, as "x:y:size"; the title of a tag may be one
    Photos,     \* images that may be uploaded
    Requests,   \* request slots
    None

VARIABLES
    text, tags, photo, crop,
    link,       \* profiles.card_key: the picture that the card refers to
    stored,     \* the photos in the storage
    pictures,   \* the pictures in the storage: what the file of a content shows
    gone,       \* history: photos lost while no change of the crop held them
    unread,     \* history: photos in the storage that could not be read once
    req         \* the running requests

card == <<text, tags, photo, crop>>
vars == <<card, link, stored, pictures, gone, unread, req>>

TagLists == UNION {[1 .. n -> Titles] : n \in 0 .. MaxTags}

\* All that a card shows; a crop comes and goes with its photo.
Content ==
    {c \in [text : Texts, tags : TagLists, photo : Photos \union {None}, crop : Crops \union {None}] :
        c.photo = None => c.crop = None}

Shown == [text |-> text, tags |-> tags, photo |-> photo, crop |-> crop]

\* Mutant of Fingerprint: it leaves out the tags.
FingerprintWithoutTags(c) ==
    [text |-> c.text, photo |-> c.photo,
     rest |-> IF c.crop = None THEN <<>> ELSE <<c.crop>>]

\* card.Service.fingerprint, which names the file: every field ends with a zero
\* byte, but nothing says where the tags end and whether the last is the crop.
Fingerprint(c) ==
    [text |-> c.text, photo |-> c.photo,
     rest |-> IF c.crop = None THEN c.tags ELSE Append(c.tags, c.crop)]

Names == {Fingerprint(c) : c \in Content}

ASSUME ContentAssumption ==
    /\ MaxTags \in Nat
    /\ None \notin Photos \union Crops \union Content \union Names

Request ==
    [op    : {"idle", "tags", "draw", "store", "link", "upload", "crop"},
     read  : Content \union {None},     \* the card as read
     link  : Names \union {None},       \* its card_key as read, with the row
     links : BOOLEAN,                   \* the card is to refer to the new picture
     photo : Photos \union {None}]      \* drawn, uploaded, or to be cropped anew

Idle == [op |-> "idle", read |-> None, link |-> None,
         links |-> FALSE, photo |-> None]

TypeOK ==
    /\ Shown \in Content
    /\ link \in Names \union {None}
    /\ stored \subseteq Photos
    /\ pictures \in [Names -> Content \union {None}]
    /\ gone \subseteq Photos /\ unread \subseteq Photos
    /\ req \in [Requests -> Request]
    /\ \A r \in Requests :
          req[r].op \in {"tags", "draw", "store", "link"} => req[r].read \in Content

Init ==
    /\ text \in Texts /\ tags \in TagLists /\ photo = None /\ crop = None
    /\ link = None
    /\ stored = {}
    /\ pictures = [n \in Names |-> None]
    /\ gone = {} /\ unread = {}
    /\ req = [r \in Requests |-> Idle]

Become(r, new) == req' = [req EXCEPT ![r] = new]
Finish(r) == Become(r, Idle)

-----------------------------------------------------------------------------
(* Writers.  One UPDATE each, or one transaction.                          *)

\* What is gone once the photo is replaced: a photo that a running change of the
\* crop has read may yet return.
Held(k) == \E r \in Requests : req[r].op = "crop" /\ req[r].photo = k
GoneNow == gone \union {k \in Photos : k = photo /\ ~Held(k)}

\* ProfileRepo.Update; the text changes with the company and its dictionaries too.
Edit(t, g) ==
    /\ text' = t /\ tags' = g
    /\ UNCHANGED <<photo, crop, link, stored, pictures, gone, unread, req>>

\* UploadAvatar: storeImage, then SetAvatar with the crop that came along.
Upload(r, k) ==
    /\ req[r] = Idle
    /\ stored' = stored \union {k}
    /\ Become(r, [Idle EXCEPT !.op = "upload", !.photo = k])
    /\ UNCHANGED <<card, link, pictures, gone, unread>>

\* ProfileRepo.SetAvatar, which SetCrop ends in too.
SetAvatar(r, c) ==
    /\ req[r].op \in {"upload", "crop"}
    /\ req[r].op = "crop" => c # None
    /\ photo' = req[r].photo
    /\ crop' = c
    /\ gone' = IF req[r].op = "upload" THEN GoneNow \ {req[r].photo} ELSE GoneNow
    /\ Finish(r)
    /\ UNCHANGED <<text, tags, link, stored, pictures, unread>>

DeleteAvatar ==
    /\ photo' = None
    /\ crop' = None
    /\ gone' = GoneNow
    /\ UNCHANGED <<text, tags, link, stored, pictures, unread, req>>

\* Mutant of SetCrop: the key is that of the picture the owner looks at.
SetCropOfPicture(r) ==
    /\ req[r] = Idle
    /\ link # None /\ link.photo # None
    /\ Become(r, [Idle EXCEPT !.op = "crop", !.photo = link.photo])
    /\ UNCHANGED <<card, link, stored, pictures, gone, unread>>

\* SetCrop reads the key of the photo, to write it back with the new crop.
SetCrop(r) ==
    /\ req[r] = Idle
    /\ photo # None
    /\ Become(r, [Idle EXCEPT !.op = "crop", !.photo = photo])
    /\ UNCHANGED <<card, link, stored, pictures, gone, unread>>

-----------------------------------------------------------------------------
(* Readers: GetProfileCardPng and GetOwnProfileCard.                       *)

\* ProfileRepo.one: the row, joined to its company and position...
ReadRow(r) ==
    /\ req[r] = Idle
    /\ Become(r, [Idle EXCEPT !.op = "tags", !.read = [Shown EXCEPT !.tags = <<>>],
                              !.link = link])
    /\ UNCHANGED <<card, link, stored, pictures, gone, unread>>

\* ...and the tags, as they are by then.
ReadTags(r) ==
    /\ req[r].op = "tags"
    /\ LET read == [req[r].read EXCEPT !.tags = tags]
       IN  Become(r, [Idle EXCEPT !.op = "draw", !.read = read,
                                  !.links = req[r].link # Fingerprint(read)])
    /\ UNCHANGED <<card, link, stored, pictures, gone, unread>>

Key(r) == Fingerprint(req[r].read)

\* card.Service.Render: the file is there and is served.
Hit(r) ==
    /\ req[r].op = "draw"
    /\ pictures[Key(r)] # None
    /\ Finish(r)
    /\ UNCHANGED <<card, link, stored, pictures, gone, unread>>

\* The file is not there, or could not be read.  build and loadImage: a photo
\* that cannot be read is left out, and with it its crop.
Draw(r, loads) ==
    LET k == req[r].read.photo
    IN  /\ req[r].op = "draw"
        /\ IF loads THEN k \in stored \union {None} ELSE k # None
        /\ Become(r, [req[r] EXCEPT !.op = "store", !.photo = IF loads THEN k ELSE None])
        /\ unread' = IF loads THEN unread ELSE unread \union (stored \intersect {k})
        /\ UNCHANGED <<card, link, stored, pictures, gone>>

WithoutPhoto(c) == [c EXCEPT !.photo = None, !.crop = None]

\* What r has drawn.
Drawn(r) == IF req[r].photo = req[r].read.photo THEN req[r].read ELSE WithoutPhoto(req[r].read)

\* Mutant of Store: the row is written first.
StoreAfterLink(r) ==
    /\ req[r].op = "store"
    /\ link' = Key(r)
    /\ Become(r, [req[r] EXCEPT !.op = "link"])
    /\ UNCHANGED <<card, stored, pictures, gone, unread>>

\* Put replaces the file that another request may have put there by now.
Store(r) ==
    /\ req[r].op = "store"
    /\ pictures' = [pictures EXCEPT ![Key(r)] = Drawn(r)]
    /\ Become(r, IF req[r].links THEN [req[r] EXCEPT !.op = "link", !.photo = None] ELSE Idle)
    /\ UNCHANGED <<card, link, stored, gone, unread>>

\* Mutant of SetCardKey: the key is that of the photo.
SetCardKeyOfPhoto(r) ==
    /\ req[r].op = "link"
    /\ link' = req[r].read.photo
    /\ Finish(r)
    /\ UNCHANGED <<card, stored, pictures, gone, unread>>

SetCardKey(r) ==
    /\ req[r].op = "link"
    /\ link' = Key(r)
    /\ Finish(r)
    /\ UNCHANGED <<card, stored, pictures, gone, unread>>

\* The client leaves, the database or the storage fails.
Fail(r) ==
    /\ req[r] # Idle
    /\ Finish(r)
    /\ UNCHANGED <<card, link, stored, pictures, gone, unread>>

Next ==
    \/ \E t \in Texts, g \in TagLists : Edit(t, g)
    \/ DeleteAvatar
    \/ \E r \in Requests :
        \/ \E k \in Photos : Upload(r, k)
        \/ SetCrop(r)
        \/ \E c \in Crops \union {None} : SetAvatar(r, c)
        \/ ReadRow(r)
        \/ ReadTags(r)
        \/ Hit(r)
        \/ \E loads \in BOOLEAN : Draw(r, loads)
        \/ Store(r)
        \/ SetCardKey(r)
        \/ Fail(r)

Spec == Init /\ [][Next]_vars

\* The picture is asked for again and again, and what may fail does not fail
\* each time.
Fairness ==
    \A r \in Requests :
        /\ SF_vars(ReadRow(r)) /\ SF_vars(ReadTags(r))
        /\ SF_vars(Hit(r) \/ \E loads \in BOOLEAN : Draw(r, loads))
        /\ SF_vars(Store(r)) /\ SF_vars(SetCardKey(r))
        /\ WF_vars(\E c \in Crops \union {None} : SetAvatar(r, c))
FairSpec == Spec /\ Fairness

-----------------------------------------------------------------------------
(* Properties *)

\* The picture and the photo that the card refers to are in the storage,
\* wherever a request broke off.
LinksResolve ==
    /\ link # None => pictures[link] # None
    /\ photo # None => photo \in stored

\* One name for two contents: c has a last tag with the text of d's crop.
\* service.go:73 relies on there being no such two.
CropForTag(c, d) ==
    /\ d.text = c.text /\ d.photo = c.photo
    /\ c.crop = None /\ d.crop # None /\ c.tags = Append(d.tags, d.crop)

Shows(picture, c) == picture = c \/ (picture = WithoutPhoto(c) /\ c.photo \in unread)

\* service.go:73: a file found under the name of a content shows that content,
\* though the card was read in two statements, edited, and drawn by others at
\* the same time -- or it shows the content that has a crop for its last tag.
\* It lacks a photo only if that was in the storage and could not be read:
\* never because the card was drawn before its photo was stored.
PicturesTrue ==
    \A c \in Content :
        LET picture == pictures[Fingerprint(c)]
        IN  \/ picture = None
            \/ Shows(picture, c)
            \/ \E d \in Content : (CropForTag(c, d) \/ CropForTag(d, c)) /\ Shows(picture, d)

\* A photo that the owner has replaced or deleted does not come back, but by a
\* change of the crop that had read it before, or by being uploaded again.
PhotoStaysGone == photo \notin gone

\* What does hold of the picture's address: once the card refers to the picture
\* of what it shows, and no request is about that read something else and is to
\* store the key of it, only a change of the card makes the address stale -- no
\* slow, failed or repeated request does.
ReadAsShown(x) ==
    /\ x.op = "tags" => [x.read EXCEPT !.tags = tags] = Shown
    /\ x.op = "link" \/ (x.op \in {"draw", "store"} /\ x.links) => x.read = Shown
UpToDate == link = Fingerprint(Shown) /\ \A r \in Requests : ReadAsShown(req[r])
LinkStands == [][UpToDate /\ UNCHANGED card => UpToDate']_vars

\* api/openapi/components/profile.yaml:72-74: the address of the picture follows
\* every change by itself.  Read mildly: once the content stays what it is and
\* the picture is asked for again and again, the card comes to refer to it.  The
\* program does not satisfy it (README, finding 5).
LinkCatchesUp == \A c \in Content : <>[](Shown = c) => <>(link = Fingerprint(c))
================================================================================
