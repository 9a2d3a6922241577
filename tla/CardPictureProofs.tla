--------------------------- MODULE CardPictureProofs ---------------------------
(***************************************************************************)
(* Proofs about CardPicture, for any contents and number of requests.      *)
(***************************************************************************)
EXTENDS CardPicture, SequenceTheorems, TLAPS

USE ContentAssumption DEF card

\* What a request has come to know when it writes: a photo that was read with
\* the card is in the storage, and is left out only if it could not be read.
Prepared ==
    \A r \in Requests :
        /\ req[r].op \in {"tags", "draw", "store"} => req[r].read.photo \in stored \union {None}
        /\ req[r].op = "store" =>
              req[r].photo = req[r].read.photo \/ req[r].read.photo \in unread
        /\ req[r].op = "link" => pictures[Key(r)] # None
        /\ req[r].op \in {"upload", "crop"} => req[r].photo \in stored
        /\ req[r].op = "crop" => req[r].photo \notin gone

IInv == TypeOK /\ LinksResolve /\ PicturesTrue /\ PhotoStaysGone /\ Prepared

-----------------------------------------------------------------------------

LEMMA IdleFacts ==
    /\ Idle \in Request /\ Idle.op = "idle"
    /\ Idle.read = None /\ Idle.link = None /\ Idle.photo = None /\ Idle.links = FALSE
  BY DEF Idle, Request

LEMMA NamesOfContents ==
    \A c \in Content : Fingerprint(c) \in Names /\ Fingerprint(c) # None /\ c # None
  BY DEF Names

LEMMA TagListsAreSequences ==
    /\ <<>> \in TagLists
    /\ \A g \in TagLists : g \in Seq(Titles \union Crops)
  <1>1. <<>> \in [1 .. 0 -> Titles] /\ 0 \in 0 .. MaxTags
    OBVIOUS
  <1>2. \A n \in 0 .. MaxTags : \A g \in [1 .. n -> Titles] : g \in Seq(Titles \union Crops)
    OBVIOUS
  <1>. QED BY <1>1, <1>2 DEF TagLists

\* All the confusion there can be among names.
LEMMA OneName ==
    ASSUME NEW c \in Content, NEW d \in Content, Fingerprint(c) = Fingerprint(d)
    PROVE  c = d \/ CropForTag(c, d) \/ CropForTag(d, c)
  <1>1. c.text = d.text /\ c.photo = d.photo
    BY DEF Fingerprint
  <1>2. /\ c.tags \in Seq(Titles \union Crops) /\ c.crop \in Crops \union {None}
        /\ d.tags \in Seq(Titles \union Crops) /\ d.crop \in Crops \union {None}
        /\ c.tags = d.tags /\ c.crop = d.crop => c = d
    BY <1>1, TagListsAreSequences DEF Content
  <1>3. CASE c.crop # None /\ d.crop # None
    <2>1. Append(c.tags, c.crop) = Append(d.tags, d.crop)
      BY <1>3 DEF Fingerprint
    <2>2. c.crop \in Titles \union Crops /\ d.crop \in Titles \union Crops
      BY <1>2, <1>3
    <2>3. c.tags = d.tags /\ c.crop = d.crop
      <3>. DEFINE S == Titles \union Crops
                  s == c.tags
                  e == c.crop
                  t == d.tags
                  f == d.crop
      <3>1. s \in Seq(S) /\ t \in Seq(S) /\ e \in S /\ f \in S /\ Append(s, e) = Append(t, f)
        BY <1>2, <2>1, <2>2
      <3>. HIDE DEF S, s, e, t, f
      <3>2. s = t /\ e = f
        BY <3>1, AppendInjective
      <3>. QED BY <3>2 DEF s, e, t, f
    <2>. QED BY <1>2, <2>3
  <1>4. CASE ~(c.crop # None /\ d.crop # None)
    BY <1>1, <1>2, <1>4 DEF Fingerprint, CropForTag
  <1>. QED BY <1>3, <1>4

\* Reading failures only add to what is granted.
LEMMA PicturesStayTrue ==
    ASSUME PicturesTrue, UNCHANGED pictures, unread \subseteq unread' PROVE PicturesTrue'
  BY DEF PicturesTrue, Shows

LEMMA InitIInv == Init => IInv
  <1>. SUFFICES ASSUME Init PROVE IInv
    OBVIOUS
  <1>1. TypeOK
    BY IdleFacts DEF Init, TypeOK, Shown, Content
  <1>2. LinksResolve /\ PicturesTrue /\ PhotoStaysGone
    BY NamesOfContents DEF Init, LinksResolve, PicturesTrue, PhotoStaysGone
  <1>3. Prepared
    BY IdleFacts DEF Init, Prepared
  <1>. QED BY <1>1, <1>2, <1>3 DEF IInv

\* A request that ends and leaves everything else as it was.
LEMMA FinishKeeps ==
    ASSUME IInv, NEW r \in Requests, Finish(r),
           UNCHANGED <<card, link, stored, pictures, gone, unread>>
    PROVE  IInv'
  <1>1. /\ req' \in [Requests -> Request]
        /\ \A q \in Requests : req'[q] = req[q] \/ req'[q] = Idle
    BY IdleFacts DEF IInv, TypeOK, Finish, Become
  <1>2. TypeOK' /\ Prepared'
    BY <1>1, IdleFacts DEF IInv, TypeOK, Prepared, Key, Shown
  <1>. QED BY <1>2, PicturesStayTrue DEF IInv, LinksResolve, PhotoStaysGone

LEMMA EditKeeps ==
    ASSUME IInv, NEW t \in Texts, NEW g \in TagLists, Edit(t, g)
    PROVE  IInv'
  BY PicturesStayTrue DEF Edit, IInv, TypeOK, Shown, Content, LinksResolve, PhotoStaysGone, Prepared, Key

LEMMA DeleteAvatarKeeps ==
    ASSUME IInv, DeleteAvatar
    PROVE  IInv'
  <1>. USE DEF DeleteAvatar, IInv
  <1>1. gone' \subseteq Photos /\ None \notin gone'
    BY DEF GoneNow, TypeOK
  <1>2. TypeOK'
    BY <1>1 DEF TypeOK, Shown, Content
  <1>3. LinksResolve' /\ PicturesTrue' /\ PhotoStaysGone'
    BY <1>1, PicturesStayTrue DEF LinksResolve, PhotoStaysGone
  <1>4. Prepared'
    BY DEF Prepared, Key, GoneNow, Held
  <1>. QED BY <1>2, <1>3, <1>4

LEMMA UploadKeeps ==
    ASSUME IInv, NEW r \in Requests, NEW k \in Photos, Upload(r, k)
    PROVE  IInv'
  <1>. USE DEF Upload, IInv
  <1>. DEFINE new == [Idle EXCEPT !.op = "upload", !.photo = k]
  <1>1. new \in Request /\ new.op = "upload" /\ new.photo = k
    BY DEF Idle, Request
  <1>2. req'[r] = new /\ \A q \in Requests : q # r => req'[q] = req[q]
    BY DEF Become, TypeOK
  <1>3. req' \in [Requests -> Request]
    BY <1>1 DEF Become, TypeOK
  <1>. HIDE DEF new
  <1>4. TypeOK'
    BY <1>1, <1>2, <1>3 DEF TypeOK, Shown
  <1>5. LinksResolve' /\ PicturesTrue' /\ PhotoStaysGone'
    BY PicturesStayTrue DEF LinksResolve, PhotoStaysGone
  <1>6. Prepared'
    BY <1>1, <1>2 DEF Prepared, Key
  <1>. QED BY <1>4, <1>5, <1>6

LEMMA SetAvatarKeeps ==
    ASSUME IInv, NEW r \in Requests, NEW c \in Crops \union {None}, SetAvatar(r, c)
    PROVE  IInv'
  <1>. USE DEF SetAvatar, IInv
  <1>. DEFINE k == req[r].photo
  <1>1. k \in stored /\ k \in Photos
    BY DEF Prepared, TypeOK
  <1>2. /\ req' \in [Requests -> Request]
        /\ req'[r] = Idle
        /\ \A q \in Requests : q # r => req'[q] = req[q]
    BY IdleFacts DEF Finish, Become, TypeOK
  <1>3. gone' \subseteq Photos
    BY DEF GoneNow, TypeOK
  <1>4. k \notin gone'
    BY DEF GoneNow, Held, Prepared
  <1>5. TypeOK'
    BY <1>1, <1>2, <1>3, IdleFacts DEF TypeOK, Shown, Content
  <1>6. LinksResolve' /\ PicturesTrue' /\ PhotoStaysGone'
    BY <1>1, <1>4, PicturesStayTrue DEF LinksResolve, PhotoStaysGone
  <1>7. Prepared'
    BY <1>2, IdleFacts DEF Prepared, Key, GoneNow, Held
  <1>. QED BY <1>5, <1>6, <1>7

LEMMA SetCropKeeps ==
    ASSUME IInv, NEW r \in Requests, SetCrop(r)
    PROVE  IInv'
  <1>. USE DEF SetCrop, IInv
  <1>. DEFINE new == [Idle EXCEPT !.op = "crop", !.photo = photo]
  <1>1. new \in Request /\ new.op = "crop" /\ new.photo = photo
    BY DEF Idle, Request, TypeOK, Shown, Content
  <1>2. req'[r] = new /\ \A q \in Requests : q # r => req'[q] = req[q]
    BY DEF Become, TypeOK
  <1>3. req' \in [Requests -> Request]
    BY <1>1 DEF Become, TypeOK
  <1>. HIDE DEF new
  <1>4. TypeOK'
    BY <1>1, <1>2, <1>3 DEF TypeOK, Shown
  <1>5. LinksResolve' /\ PicturesTrue' /\ PhotoStaysGone'
    BY PicturesStayTrue DEF LinksResolve, PhotoStaysGone
  <1>6. Prepared'
    BY <1>1, <1>2 DEF Prepared, Key, LinksResolve, PhotoStaysGone
  <1>. QED BY <1>4, <1>5, <1>6

LEMMA ReadRowKeeps ==
    ASSUME IInv, NEW r \in Requests, ReadRow(r)
    PROVE  IInv'
  <1>. USE DEF ReadRow, IInv
  <1>. DEFINE row == [Shown EXCEPT !.tags = <<>>]
              new == [Idle EXCEPT !.op = "tags", !.read = row, !.link = link]
  <1>0. row \in Content /\ row.photo = photo
    BY TagListsAreSequences DEF TypeOK, Shown, Content
  <1>1. new \in Request /\ new.op = "tags" /\ new.read \in Content /\ new.read.photo = photo
    BY <1>0 DEF Idle, Request, TypeOK
  <1>2. req'[r] = new /\ \A q \in Requests : q # r => req'[q] = req[q]
    BY DEF Become, TypeOK
  <1>3. req' \in [Requests -> Request]
    BY <1>1 DEF Become, TypeOK
  <1>. HIDE DEF new
  <1>4. TypeOK'
    BY <1>1, <1>2, <1>3 DEF TypeOK, Shown
  <1>5. LinksResolve' /\ PicturesTrue' /\ PhotoStaysGone'
    BY PicturesStayTrue DEF LinksResolve, PhotoStaysGone
  <1>6. Prepared'
    BY <1>1, <1>2 DEF Prepared, Key, LinksResolve
  <1>. QED BY <1>4, <1>5, <1>6

LEMMA ReadTagsKeeps ==
    ASSUME IInv, NEW r \in Requests, ReadTags(r)
    PROVE  IInv'
  <1>. USE DEF ReadTags, IInv
  <1>. DEFINE read == [req[r].read EXCEPT !.tags = tags]
              new == [Idle EXCEPT !.op = "draw", !.read = read, !.links = req[r].link # Fingerprint(read)]
  <1>1. read \in Content /\ read.photo = req[r].read.photo
    BY DEF TypeOK, Shown, Content
  <1>2. new \in Request /\ new.op = "draw" /\ new.read = read
    BY <1>1 DEF Idle, Request
  <1>3. req'[r] = new /\ \A q \in Requests : q # r => req'[q] = req[q]
    BY DEF Become, TypeOK
  <1>4. req' \in [Requests -> Request]
    BY <1>2 DEF Become, TypeOK
  <1>. HIDE DEF new, read
  <1>5. TypeOK'
    BY <1>1, <1>2, <1>3, <1>4 DEF TypeOK, Shown
  <1>6. LinksResolve' /\ PicturesTrue' /\ PhotoStaysGone'
    BY PicturesStayTrue DEF LinksResolve, PhotoStaysGone
  <1>7. Prepared'
    BY <1>1, <1>2, <1>3 DEF Prepared, Key
  <1>. QED BY <1>5, <1>6, <1>7

LEMMA DrawKeeps ==
    ASSUME IInv, NEW r \in Requests, NEW loads \in BOOLEAN, Draw(r, loads)
    PROVE  IInv'
  <1>. USE DEF Draw, IInv
  <1>. DEFINE k == req[r].read.photo
              drawn == IF loads THEN k ELSE None
              new == [req[r] EXCEPT !.op = "store", !.photo = drawn]
  <1>1. req[r] \in Request /\ req[r].read \in Content /\ k \in stored \union {None}
    BY DEF TypeOK, Prepared
  <1>2. drawn \in Photos \union {None}
    BY <1>1 DEF Content
  <1>3. new \in Request /\ new.op = "store" /\ new.read = req[r].read /\ new.photo = drawn
    BY <1>1, <1>2 DEF Request
  <1>4. /\ unread \subseteq unread' /\ unread' \subseteq Photos
        /\ drawn = k \/ k \in unread'
    BY <1>1 DEF TypeOK
  <1>5. req'[r] = new /\ \A q \in Requests : q # r => req'[q] = req[q]
    BY DEF Become, TypeOK
  <1>6. req' \in [Requests -> Request]
    BY <1>3 DEF Become, TypeOK
  <1>. HIDE DEF new, drawn
  <1>7. TypeOK'
    BY <1>1, <1>3, <1>4, <1>5, <1>6 DEF TypeOK, Shown
  <1>8. LinksResolve' /\ PicturesTrue' /\ PhotoStaysGone'
    BY <1>4, PicturesStayTrue DEF LinksResolve, PhotoStaysGone
  <1>9. Prepared'
    BY <1>1, <1>3, <1>4, <1>5 DEF Prepared, Key
  <1>. QED BY <1>7, <1>8, <1>9

LEMMA StoreKeeps ==
    ASSUME IInv, NEW r \in Requests, Store(r)
    PROVE  IInv'
  <1>. USE DEF Store, Key, IInv
  <1>. DEFINE c == req[r].read
              n == Fingerprint(c)
              drawn == Drawn(r)
              new == [req[r] EXCEPT !.op = "link", !.photo = None]
  <1>1. /\ c \in Content /\ n \in Names /\ req[r] \in Request
        /\ req[r].photo = c.photo \/ c.photo \in unread
    BY NamesOfContents DEF TypeOK, Prepared
  <1>2. drawn \in Content /\ drawn # None /\ Shows(drawn, c)
    BY <1>1, NamesOfContents DEF Content, Drawn, WithoutPhoto, Shows
  <1>3. /\ pictures' \in [Names -> Content \union {None}]
        /\ pictures'[n] = drawn
        /\ \A m \in Names : m # n => pictures'[m] = pictures[m]
    BY <1>1, <1>2 DEF TypeOK
  <1>4. new \in Request /\ new.op = "link" /\ new.read = c
    BY <1>1 DEF Request
  <1>5. /\ req'[r] \in {new, Idle}
        /\ \A q \in Requests : q # r => req'[q] = req[q]
        /\ req' \in [Requests -> Request]
    BY <1>4, IdleFacts DEF Become, TypeOK
  <1>. HIDE DEF new, drawn
  <1>6. TypeOK'
    BY <1>1, <1>3, <1>4, <1>5, IdleFacts DEF TypeOK, Shown
  <1>7. \A m \in Names : pictures[m] # None => pictures'[m] # None
    BY <1>2, <1>3
  <1>8. LinksResolve' /\ PhotoStaysGone'
    BY <1>7 DEF LinksResolve, PhotoStaysGone, TypeOK
  <1>9. PicturesTrue'
    <2>. SUFFICES ASSUME NEW d \in Content, pictures'[Fingerprint(d)] # None
                  PROVE  \/ Shows(pictures'[Fingerprint(d)], d)
                         \/ \E e \in Content : /\ CropForTag(d, e) \/ CropForTag(e, d)
                                              /\ Shows(pictures'[Fingerprint(d)], e)
      BY DEF PicturesTrue, Shows
    <2>1. CASE Fingerprint(d) = n
      BY <1>1, <1>2, <1>3, <2>1, OneName
    <2>2. CASE Fingerprint(d) # n
      <3>1. pictures'[Fingerprint(d)] = pictures[Fingerprint(d)]
        BY <1>3, <2>2, NamesOfContents
      <3>. QED BY <3>1 DEF PicturesTrue
    <2>. QED BY <2>1, <2>2
  <1>10. Prepared'
    <2>1. ASSUME NEW q \in Requests, q # r, req[q].op = "link"
          PROVE  pictures'[Key(q)] # None
      BY <1>7, <2>1, NamesOfContents DEF Prepared, TypeOK
    <2>2. pictures'[n] # None
      BY <1>2, <1>3
    <2>. QED BY <1>4, <1>5, <2>1, <2>2, IdleFacts DEF Prepared
  <1>. QED BY <1>6, <1>8, <1>9, <1>10

LEMMA SetCardKeyKeeps ==
    ASSUME IInv, NEW r \in Requests, SetCardKey(r)
    PROVE  IInv'
  <1>. USE DEF SetCardKey, Key, IInv
  <1>1. link' \in Names /\ pictures[link'] # None
    BY NamesOfContents DEF TypeOK, Prepared
  <1>2. /\ req' \in [Requests -> Request]
        /\ \A q \in Requests : req'[q] = req[q] \/ req'[q] = Idle
    BY IdleFacts DEF TypeOK, Finish, Become
  <1>3. TypeOK' /\ Prepared'
    BY <1>1, <1>2, IdleFacts DEF TypeOK, Prepared, Shown
  <1>. QED BY <1>1, <1>3, PicturesStayTrue DEF LinksResolve, PhotoStaysGone

LEMMA NextIInv == IInv /\ [Next]_vars => IInv'
  <1>. SUFFICES ASSUME IInv, [Next]_vars PROVE IInv'
    OBVIOUS
  <1>1. CASE UNCHANGED vars
    BY <1>1, PicturesStayTrue DEF vars, IInv, TypeOK, Shown, LinksResolve, PhotoStaysGone, Prepared, Key
  <1>2. ASSUME NEW t \in Texts, NEW g \in TagLists, Edit(t, g) PROVE IInv'
    BY <1>2, EditKeeps
  <1>3. CASE DeleteAvatar
    BY <1>3, DeleteAvatarKeeps
  <1>4. ASSUME NEW r \in Requests, NEW k \in Photos, Upload(r, k) PROVE IInv'
    BY <1>4, UploadKeeps
  <1>5. ASSUME NEW r \in Requests, NEW c \in Crops \union {None}, SetAvatar(r, c) PROVE IInv'
    BY <1>5, SetAvatarKeeps
  <1>6. ASSUME NEW r \in Requests, NEW loads \in BOOLEAN, Draw(r, loads) PROVE IInv'
    BY <1>6, DrawKeeps
  <1>7. ASSUME NEW r \in Requests, SetCrop(r) \/ ReadRow(r) \/ ReadTags(r) PROVE IInv'
    BY <1>7, SetCropKeeps, ReadRowKeeps, ReadTagsKeeps
  <1>8. ASSUME NEW r \in Requests, Store(r) \/ SetCardKey(r) PROVE IInv'
    BY <1>8, StoreKeeps, SetCardKeyKeeps
  <1>9. ASSUME NEW r \in Requests, Hit(r) \/ Fail(r) PROVE IInv'
    BY <1>9, FinishKeeps DEF Hit, Fail
  <1>. QED BY <1>1, <1>2, <1>3, <1>4, <1>5, <1>6, <1>7, <1>8, <1>9 DEF Next

LEMMA Invariance == Spec => []IInv
  BY InitIInv, NextIInv, PTL DEF Spec

\* Variables keep their types.
THEOREM TypeCorrect == Spec => []TypeOK
  <1>1. IInv => TypeOK
    BY DEF IInv
  <1>. QED BY <1>1, Invariance, PTL

\* No link to a file that is not there: Put comes before the row.
THEOREM LinksResolveHolds == Spec => []LinksResolve
  <1>1. IInv => LinksResolve
    BY DEF IInv
  <1>. QED BY <1>1, Invariance, PTL

\* The cache of pictures is true, whatever is edited and drawn beside it: what
\* it serves for a content shows that, or the one content that shares the name
\* of its file (OneName), and lacks only a photo that could not be read.
THEOREM PicturesTrueHolds == Spec => []PicturesTrue
  <1>1. IInv => PicturesTrue
    BY DEF IInv
  <1>. QED BY <1>1, Invariance, PTL

\* A lost photo returns only by a change of the crop that had read it.
THEOREM PhotoStaysGoneHolds == Spec => []PhotoStaysGone
  <1>1. IInv => PhotoStaysGone
    BY DEF IInv
  <1>. QED BY <1>1, Invariance, PTL

-----------------------------------------------------------------------------

\* A step after which r has the record x, with everything that is shown, and
\* the link, as before, leaves an address up to date when x has read well.
LEMMA StandsIfRead ==
    ASSUME IInv, UpToDate, UNCHANGED card, link' = Fingerprint(Shown),
           NEW r \in Requests, NEW x, ReadAsShown(x), Become(r, x)
    PROVE  UpToDate'
  <1>1. \A q \in Requests : req'[q] = x \/ req'[q] = req[q]
    BY DEF Become, IInv, TypeOK
  <1>2. \A q \in Requests : ReadAsShown(req[q])'
    BY <1>1 DEF UpToDate, ReadAsShown, Shown
  <1>. QED BY <1>2 DEF UpToDate, Shown

LEMMA IdleReadsNothing == ReadAsShown(Idle)
  BY DEF ReadAsShown, Idle

LEMMA StepStands ==
    ASSUME IInv, UpToDate, Next, UNCHANGED card
    PROVE  UpToDate'
  <1>. DEFINE same == UNCHANGED card
  <1>0. same /\ link = Fingerprint(Shown) /\ Shown \in Content /\ \A r \in Requests : req[r] \in Request /\ ReadAsShown(req[r])
    BY DEF UpToDate, IInv, TypeOK
  <1>1. ASSUME NEW r \in Requests, Finish(r), link' = link PROVE UpToDate'
    BY <1>0, <1>1, IdleReadsNothing, StandsIfRead DEF Finish
  <1>2. ASSUME UNCHANGED <<link, req>> PROVE UpToDate'
    BY <1>0, <1>2 DEF UpToDate, ReadAsShown, Shown
  <1>3. ASSUME NEW r \in Requests, NEW k \in Photos, Upload(r, k) PROVE UpToDate'
    <2>1. ReadAsShown([Idle EXCEPT !.op = "upload", !.photo = k])
      BY DEF ReadAsShown, Idle
    <2>. QED BY <1>0, <1>3, <2>1, StandsIfRead DEF Upload
  <1>4. ASSUME NEW r \in Requests, SetCrop(r) PROVE UpToDate'
    <2>1. ReadAsShown([Idle EXCEPT !.op = "crop", !.photo = photo])
      BY DEF ReadAsShown, Idle
    <2>. QED BY <1>0, <1>4, <2>1, StandsIfRead DEF SetCrop
  <1>5. ASSUME NEW r \in Requests, ReadRow(r) PROVE UpToDate'
    <2>. DEFINE row == [Shown EXCEPT !.tags = <<>>]
                back == [row EXCEPT !.tags = tags]
                x == [Idle EXCEPT !.op = "tags", !.read = row, !.link = link]
    <2>1. back = Shown
      <3>1. DOMAIN back = {"text", "tags", "photo", "crop"} /\ back = [f \in DOMAIN back |-> back[f]]
        BY DEF Shown
      <3>2. back.text = text /\ back.tags = tags /\ back.photo = photo /\ back.crop = crop
        BY DEF Shown
      <3>. HIDE DEF back
      <3>. QED BY <3>1, <3>2 DEF Shown
    <2>2. x.op = "tags" /\ x.read = row
      BY DEF Idle
    <2>3. ReadAsShown(x)
      <3>. HIDE DEF x, row
      <3>. QED BY <2>1, <2>2 DEF ReadAsShown
    <2>. QED BY <1>0, <1>5, <2>3, StandsIfRead DEF ReadRow
  <1>6. ASSUME NEW r \in Requests, ReadTags(r) PROVE UpToDate'
    <2>. DEFINE read == [req[r].read EXCEPT !.tags = tags]
                x == [Idle EXCEPT !.op = "draw", !.read = read, !.links = req[r].link # Fingerprint(read)]
    <2>1. read = Shown
      BY <1>0, <1>6 DEF ReadTags, ReadAsShown
    <2>2. x.op = "draw" /\ x.read = read
      BY DEF Idle
    <2>3. ReadAsShown(x)
      BY <2>1, <2>2 DEF ReadAsShown
    <2>. QED BY <1>0, <1>6, <2>3, StandsIfRead DEF ReadTags
  <1>7. ASSUME NEW r \in Requests, NEW loads \in BOOLEAN, Draw(r, loads) PROVE UpToDate'
    <2>. DEFINE x == [req[r] EXCEPT !.op = "store",
                                    !.photo = IF loads THEN req[r].read.photo ELSE None]
    <2>1. x.op = "store" /\ x.read = req[r].read /\ x.links = req[r].links
      BY <1>0 DEF Request
    <2>2. ReadAsShown(x)
      BY <1>0, <1>7, <2>1 DEF Draw, ReadAsShown
    <2>. QED BY <1>0, <1>7, <2>2, StandsIfRead DEF Draw
  <1>8. ASSUME NEW r \in Requests, Store(r) PROVE UpToDate'
    <2>. DEFINE x == [req[r] EXCEPT !.op = "link", !.photo = None]
    <2>1. CASE req[r].links
      <3>1. x.op = "link" /\ x.read = req[r].read
        BY <1>0 DEF Request
      <3>2. ReadAsShown(x)
        BY <1>0, <1>8, <2>1, <3>1 DEF Store, ReadAsShown
      <3>. QED BY <1>0, <1>8, <2>1, <3>2, StandsIfRead DEF Store
    <2>2. CASE ~req[r].links
      BY <1>1, <1>8, <2>2 DEF Store, Finish
    <2>. QED BY <2>1, <2>2
  <1>9. ASSUME NEW r \in Requests, SetCardKey(r) PROVE UpToDate'
    <2>1. link' = link
      BY <1>0, <1>9 DEF SetCardKey, Key, ReadAsShown
    <2>. QED BY <1>1, <1>9, <2>1 DEF SetCardKey
  <1>10. ASSUME NEW r \in Requests, Hit(r) \/ Fail(r) \/ \E c \in Crops \union {None} : SetAvatar(r, c)
         PROVE  UpToDate'
    BY <1>1, <1>10 DEF Hit, Fail, SetAvatar
  <1>11. CASE DeleteAvatar \/ \E t \in Texts, g \in TagLists : Edit(t, g)
    BY <1>2, <1>11 DEF DeleteAvatar, Edit
  <1>. QED BY <1>3, <1>4, <1>5, <1>6, <1>7, <1>8, <1>9, <1>10, <1>11 DEF Next

\* An address that is right goes stale by a change of the card and by nothing
\* else: not by a slow, failed or repeated request for the picture.
THEOREM LinkStandsHolds == Spec => LinkStands
  <1>1. IInv /\ [Next]_vars =>
            [UpToDate /\ UNCHANGED card => UpToDate']_vars
    BY StepStands
  <1>. QED BY <1>1, Invariance, PTL DEF Spec, LinkStands
================================================================================
