# vcard: a TLA+ model of the service behind the business cards

The program is a Go service over PostgreSQL. Companies invite people by mail,
a member has a card (a public page with an image), an administrator manages
roles and may block a card. This directory holds TLA+ modules of the parts
whose correctness depends on the order of events, the TLC configurations that
check them on small instances, and TLAPS proofs of their theorems.

Contents: 1 inventory, 2 plan, 3 the modules, 4 the runs and their bounds,
5 fairness, 6 what is proved, 7 findings, 8 what is not modelled.

## 1. Inventory

Paths are relative to `src/`. All state is in PostgreSQL, except where a
component says otherwise. The pool keeps the default isolation, READ COMMITTED;
nothing in the code asks for another. Handlers run in goroutines of one or
more replicas, so two requests interleave between any two statements.

| Component | Code | State | Operations | Hard behaviours |
|---|---|---|---|---|
| Sign-in sessions | `internal/service/auth`, `repository/postgres/session.go` | `users`, `sessions`: a family of refresh tokens per sign-in | Register, Login, Refresh, Logout, LogoutAll | two exchanges of one token; a revocation beside an exchange; row-lock cycles; expiry judged late |
| Access tokens, passwords | `service/auth/token.go`, `password.go` | none | Issue, Parse, Hash, Verify | none: pure |
| Roles and membership | `service/company`, `repository/postgres/company.go`, trigger `memberships_keep_admin` | `memberships` | SetRole, RemoveEmployee, (Join from invitations) | write skew on the last administrator; authorise, then act |
| Card states | `service/profile`, `repository/postgres/profile.go` | `profiles.status` | Publish, Block, archive on removal | a status checked in one statement and written in another |
| Card content and address | same, `domain/slug.go`, `domain/profile.go` | `profiles`, `profile_tags`, `reserved_slugs` | Update, SetAvatar, SetCrop, DeleteAvatar, UpdateSlug | a crop written over a newer photo; addresses that must stay taken |
| Dictionaries | `service/company`, migrations 4 and 5 | `positions`, `tags` | create, rename (positions), delete | a deletion copies the title into the cards that use the entry, beside an update of them |
| Invitations | `service/invitation`, `repository/postgres/invitation.go` | `invitations`, rows of `email_outbox` | Create, Revoke, Resend, Accept | an invitation that changes between its lookup and its use; registration beside acceptance; terms |
| Mail outbox and worker | `internal/worker`, `repository/postgres/outbox.go`, `internal/email/sender.go` | `email_outbox`; a batch in memory | Claim, Send, MarkSent, MarkFailed | leases, retries, restarts, lost replies |
| Avatars, card images | `service/avatar`, `service/card`, `internal/render` | `avatar_key`, `card_key` in `profiles`, objects in storage | Upload, Delete, Render (draws on a miss) | a card read in two statements; a cache filled beside updates and by several at once; a failure between file and row |
| Object storage | `internal/storage` | files or S3 objects | Put, Get, Delete | I/O only |
| Rate limit | `handler/middleware/ratelimit.go` | a token bucket per client, in memory | allow, sweep | a burst and the refill after it; what the sweep forgets |
| Conditional requests | `handler/middleware/conditional.go`, `handler/http/profiles.go` | none | If-None-Match | a tag that changes less often than the page |
| Start and shutdown | `cmd/api`, `platform/httpserver` | processes | run, stop | a stop in the middle of a request or a letter |
| Browser client | the refresh cookie of `handler/http/auth.go` | one cookie for all tabs | refresh, retry | a retry looks like a theft |
| Stateless middleware, configuration, logs, metrics, generated code, tools | `handler/middleware`, `config`, `platform`, `internal/gen`, `cmd/migrator`, `cmd/democard` | none of interest | - | none |

Interactions. Handlers call services, services call repositories; a service
never holds a transaction across calls, a repository method is one statement
or one transaction. Invitations write memberships and cards (`Accept`) and
letters (`enqueueEmail`) in their own transactions. RemoveEmployee archives a
card and deletes a membership in one transaction. The outbox worker shares
only `email_outbox` with the rest. The rules that several writers must keep
are in the database: unique indexes, foreign keys, deferred triggers.

What makes each correct:

- sessions: one live token per sign-in; an exchange is all or nothing; a
  closed sign-in stays closed; an expired token is not exchanged; requests end;
- roles: an administrator always; cards: archived with the membership and not
  opened again, unblocked by administrators only; a member has a card;
- invitations: one open invitation per address; a letter for each link;
  a link works until revoked, renewed, used or expired, and never after; no
  half-applied acceptance; nobody is made a member by somebody else;
- outbox: every letter is sent or given up; no copy and no attempt without a
  cause; a closed letter stays closed;
- cards and dictionaries: a card refers to entries that exist; a deleted entry
  changes no card that shows it; transactions end, deadlocks included;
- card images: what a card refers to is stored; an image shows the content it
  is named after, up to a clash of names; a photo that was replaced stays away;
- rate limit: in any interval a client passes at most the capacity of its
  bucket and what flows in during it; the announced wait is enough, up to
  rounding, and not a second too long; sweeping changes no answer and keeps
  memory bounded.

## 2. Plan

All of it is written: `Sessions` with its abstraction `SessionChain`, `Staff`
and `Invitations` with their common abstraction `Membership`, `Outbox` with its
abstraction `MailDelivery`, `RateLimit` with its abstraction `TokenBucket`,
`Dictionaries`, `CardPicture`; each but the abstractions with an `MC` module and
a `Proofs` module. The components meet in few rows, and each module
has the steps of its neighbours as actions of its own: `Staff.Join` is
`Invitations.Join` and `CompanyRepo.Create`, `Invitations.RemoveEmployee` is
that of `Staff` -- both modules implement `Membership`, which says what such a
step does to the rows that they share -- `Outbox.Enqueue` is the letter of `Invitations`, and
`CardPicture.Edit` is `CommitUpdate`, `CommitDeletion` and `Rename` of
`Dictionaries`.

Worth adding, if the code grows that way: companies that share people (a
person with cards in two of them), the tag of a page once it depends on more
than two columns, a worker whose `Send` has a timeout.

## 3. The modules

A module's variables are the committed rows. A statement outside a transaction
is a step; a transaction is a step per statement, with what it has written kept
in the record of its request until the commit, where another transaction can
tell the difference, and one step at the commit where row locks or unique
indexes make it look so. `req` holds one record per running request: what its
goroutine has read, and where it is. A failure rolls back. Definitions with a
name of the form `CommitSwapped` or `JoinWithoutCard`, introduced as mutants,
are faulty variants of the definition that follows them, and no action uses
them: they show which mistake in the code each property would notice.

**`Sessions`** (`service/auth/service.go`, `repository/postgres/session.go`).
`stored`, `family`, `owner`, `expiresAt`, `used`, `revoked`, `prev` are the
columns of `sessions`; a token stands for its row. `Refresh` reads the clock;
`LookupReused`, `LookupInactive`, `LookupActive` are the three outcomes of
`ByTokenHash` and `Active`; `MarkUsed` is the conditional UPDATE with its row
lock, `InsertNext` the INSERT, `CommitRotation` the commit. A revocation
(`BeginRevoke`, `RevokeRow`, `CommitRevoke`) takes its snapshot first and then
locks row after row, waiting for rotations and re-reading what they left;
`Deadlocked` and `DeadlockVictim` are PostgreSQL's. `Fail` rolls back at any
point. `DeleteExpired` is never called by the program and is left out.

**`SessionChain`** is what a client may rely on: a sign-in has at most one
current token, an exchange replaces it, closing removes it, nothing returns.

**`Staff`** (`service/company`, `service/profile`, the trigger of
migration 8). `role` and `card` are the rows of one company's `memberships`
and `profiles`. `SetRole` and `RemoveEmployee` authorise; `UpdateRole`,
`ArchiveCard`, `DeleteMember` are the statements; `KeepAdmin` is the deferred
trigger, which runs as the commit begins and sees only committed rows; `Commit`
is the commit, a step of its own, because others commit between the check and
it. `ReadCard`, `AuthorizeCard`, `SetStatus` are the three steps of publishing
and blocking: read the card, read the membership, write the status. `Join` is
`InvitationRepo.Accept` as this part of the state sees it. `overlapped`
remembers whether a request has ever begun while another was running: what
holds only of requests that come one at a time is stated under its negation.

**`Membership`** is what the two tables `memberships` and `profiles` promise to
everybody else: who joins has a card from the same moment, who leaves keeps it,
and nothing else happens to either. `Staff` details changes of role and removals,
statement by statement beside each other, and takes an acceptance as one step;
`Invitations` details acceptances and takes a removal as one step. Both are shown
to implement `Membership`, so that neither's simple step is more than the
other's long one can do.

**`MailDelivery`** is the promise of the queue: a letter put in is handed over,
perhaps more than once, and settled; a settled letter is not touched again,
unless its delivery has outlived its lease (`RunLate`).

**`Outbox`** (`worker/outbox.go`, `repository/postgres/outbox.go`). `status`
and `attempts` are columns, `due` the rows whose time has come (`Ripen`: the
backoff or the lease has run out), `worker` the batch and position of each
replica, `sends` what the mail server has seen, `faults` how often something
has failed. `Claim` is the SELECT ... FOR UPDATE SKIP LOCKED with its UPDATE;
`NotRenderable`, `SendOK`, `SendError`, `MarkSent`, `MarkFailed` follow
`deliver`; `SendReplyLost`, `MarkError`, `Restart` are the faults. Nothing in
the code bounds how long a batch takes, so a lease may end under a working
worker; `overran` remembers the letters to which that happened.

**`Invitations`** (`service/invitation`, `repository/postgres/invitation.go`).
`inv` holds the rows, `letters` the links that were put into the outbox,
`account`, `member`, `card` what is known of a person, `clock` time. A link is
a row and the number of its token. `CheckMember` and `Insert` or
`InsertConflict` are Create; `ReadRow` and `Renew` are Resend; `Revoke` is one
UPDATE; `OpenLink`, `FindAccount`, `Join` or `Leave` are Accept. `Register`
and `RemoveEmployee` are the other components' operations as seen from here.

**`TokenBucket`** is the promise of the rate limit: for each key a bucket that
fills with every tick of the clock and gives one token to a request that
passes; nothing is refilled lazily and nothing forgotten.

**`RateLimit`** (`handler/middleware/ratelimit.go`). `bucket` holds the buckets
of both limiters by key: an address alone, or with a strict operation;
`lastSweep` is that of each limiter. A request is one step, `Pass` or `Refuse`,
because `allow` reads the clock and works under the mutex: it sweeps if a
minute has gone by (`Stale`), finds or makes the bucket (`Found`), refills it
(`Refilled`) and takes a token or computes the wait (`Waits`, `RetryAfter`). A
tick is a nanosecond, the unit of `time.Duration`, and a token is `Minute`
units, so that a limit of n a minute gains n whole units a tick. The code keeps
tokens as float64. Where that can change an answer the model has it too: `short`
says that a bucket holds just whole tokens and rounding has left its float below
them (`Shorts`: possible whenever it has been refilled and not cut to its
capacity), and then `tokens >= 1` is false of one token (`Enough`). Rounding
upwards changes no answer, since a token less one unit is still less than a
token. The one assumption is that the roundings of one bucket, between two times
that it is full, stay below one unit together: a unit is 1.7e-11 of a token, a
rounding of at most ten tokens 2e-15. `Waits` is the conversion to Duration: the
fraction of a tick is cut off, and where the exact wait is whole, float division
may cost it a tick. The sweep's own refill time, computed in float64 as well, is
60 seconds sharp for the default limits 100 and 10 and for most others; for some
(23, 31, 33 and about a tenth of all) it is one nanosecond shorter, so that a
bucket may be forgotten a nanosecond before it is full; the model leaves that
out. The clock is monotonic, as Go's is. `watch` is an observer: it starts a window at any
instant for any key and counts what passes, and notes the earliest promise of a
refusal. Buckets last as long as the process, and each replica has its own.

**`Dictionaries`** (`service/company`, `service/profile`,
`repository/postgres/company.go`, `profile.go`, migrations 4 and 5). `slot` holds
what each card has in its place for a position and its places for tags: an
entry, a title, or nothing; `state` and `title` are the rows of `positions` and
`tags`. An update is a transaction: the UPDATE of the card (`Update`), the
DELETE of its tags (`ClearTags`), a foreign key for each reference that it
writes (`Check`), the commit. A deletion locks its entry (`Delete`), its trigger
replaces the references card by card (`Demote`), then it commits. `RowLocked`,
`TagsLocked`, `Shared`, `Deleted` are PostgreSQL's row locks, `Deadlocked` and
`Victim` its deadlock detection. `Touched` is its rule that a key whose value
does not change is not checked: `Update` writes `position_id` always and so
relies on it.

**`CardPicture`** (`service/card`, `service/profile`, `handler/http`). The card
is its `text`, `tags`, `photo` and `crop`; these together are a content.
`Fingerprint` gives a content the name of its file, and two contents may have
the same: the code ends each field with a zero byte and writes the crop, if there
is one, after the last tag, so that a tag "10:20:300" without a crop and a crop
10:20:300 without that tag are hashed alike. The hash itself is taken to tell
apart what it is given. `pictures` is the storage of images: what the file of
each name really shows; `link` is `card_key`. `ReadRow` and `ReadTags` are the two
statements of `ProfileRepo.one`; `Hit` and `Draw` the two branches of `Render`:
it draws anew on any error of reading the file, so that `Draw` may happen though
the file is there. `Store` and `SetCardKey` are its two writes. A photo that
cannot be read is left out of the drawing with its crop (`loadImage`, `Drawn`),
be it that it is not stored or that reading failed; `unread` remembers those that
were stored. `Upload` and `SetAvatar`, `SetCrop` and `SetAvatar`, `DeleteAvatar`
are the owner's operations on the photo, `Edit` any other change of what the card
shows. The logo of the company is part of the text; it is loaded like the photo,
and what PicturesTrue says of the photo holds of it in the same way. `gone`
remembers the photos that have been replaced while no running change of the crop
held them.

## 4. The runs

| Run | Checks | Instance |
|---|---|---|
| `Sessions` | TypeOK, OneLiveToken, UsedHasOneSuccessor, RevokedPrefix, ImplementsChain, ExpiredStaysUnspent, RequestsEnd | 1 user, 3 tokens, 2 requests, lifetime 1, clock to 1, fair |
| `SessionsRevocation` (violated) | RevocationClosesFamily | 1 user, 2 tokens, 2 requests |
| `Staff` | TypeOK, GoneIsArchived, AdminLostOnlyInWindow, ArchivedIsFinal, BlockStands, ImplementsMembership, OnlyInvitedJoin | 2 people, 2 requests |
| `StaffLastAdmin` (violated) | AdminWhateverOverlaps | 2 people, 2 requests |
| `Outbox` | TypeOK, CopiesArePaidFor, AttemptsArePaidFor, ClosedForAReason, ImplementsMail, SettlesForGood | 3 letters (one renderable), 2 workers, 2 attempts, batches of 2, 1 fault, fair |
| `OutboxDuplicates` (violated) | NotSentTwice | 1 letter, 2 workers, no fault |
| `Invitations` | TypeOK, PendingHasLetter, OnePending, ClosedIsFinal, JoinsHimself, LinksDieForGood | 2 people, 2 rows, 2 requests, 2 links per row, lifetime 1, clock to 2 |
| `InvitationsRevoked` (violated) | JoinsByOpenInvitation | 1 person, 1 row, 2 requests |
| `RateLimit` | TypeOK, WindowBound, RetryAfterKept, IdleForgotten, ImplementsBuckets | 1 address, 2 strict operations with limit 1, 1 common with limit 2, files; a minute of 4 ticks, a second of 2, 8 ticks, 2 buckets at a time |
| `Dictionaries` | TypeOK, RefsLive, DeadlocksOverTags, ShownKept, RequestsEnd | 2 cards, 1 position, 1 tag, 2 titles, 1 place for tags, 2 requests, fair |
| `CardPicture` | TypeOK, LinksResolve, PicturesTrue, PhotoStaysGone | 1 text, 1 tag that reads like the one crop, with and without either, 1 photo, 2 requests |
| `CardPictureLink` (violated) | LinkCatchesUp | 2 texts, 1 list of tags, no photo, 1 request, fair |

Why these bounds are enough to be of interest:

- three tokens are a chain with an interior, or two sign-ins one of which has
  rotated; two requests are two exchanges of a token, or an exchange or a
  revocation beside a revocation, or two revocations in a cycle of locks; the
  clock reaches the end of a lifetime while a request is between its lookup
  and its exchange;
- two requests of which one is between the trigger and the commit are what a
  write skew needs; with `overlapped` the same run holds every serial history
  too;
- two workers and a batch of two let one worker's lease run out on the second
  letter while it sends the first; two attempts let a letter fail, be retried
  and be given up; three letters of which two cannot be rendered fill a batch
  and leave one over;
- two rows for two people let an address have a closed and an open invitation;
  two links per row let an old link be used; the clock passes the term of
  every link and of a link renewed after it;
- eight ticks are two minutes: a sweep forgets a bucket that was emptied in the
  first, beside one that was used later; a limit of 2 makes waits that are no
  whole number of ticks and a second of 2 ticks those that are no whole number
  of seconds; two strict operations share a limiter and a sweep but no bucket.
  `FewBuckets` lets TLC go no further from a state with a third bucket: two are
  a pair of one limiter, or one of each. Two ticks of slack are a whole second
  here, and one part in 5e8 of it in the code: the theorem has it for all lengths;
- two cards and two transactions are what a deletion and an update need to wait
  for each other; a title beside the entry's own lets a position be renamed
  while a deletion copies it. Larger instances were checked for the safety
  properties by hand: three requests and two tags on one card, three requests on
  two cards, and owners who type titles (`OwnTitles`) on two cards;
- two lists of tags, with the tag and without, let an edit fall between the two
  reads of a request; the crop that reads like the tag makes two contents with
  one name; one photo may be replaced by itself, by nothing and come back; two
  requests draw at once, with and without it. A second text adds nothing to the
  lists in the safety run, since both are parts of a name, but is what
  `LinkCatchesUp` needs.

The bounds are `MaxClock`, `MaxLinks`, `MaxFaults`, `MaxNow`, `FewBuckets`,
`OwnTitles` and the finite sets; none of them is in the code. `TTL` is the code's and 1 is its
smallest value that has a before, an at and an after. `MaxTags` is 3 in the
code and `Minute` 60 seconds; the theorems hold for those too. The runs of the
outbox may stop, when all letters are settled, and so may that of the rate
limit at its last tick: they do not check deadlock. The other runs do, and
requests never all wait.

Symmetry is used for interchangeable requests, people, rows and strict
operations of safety runs, and never in a run with a liveness property.

## 5. Fairness

`Sessions`: a request that was started proceeds (`SF` for the steps of a
request, because a row lock is given to waiters in turn, though it may be taken
again and again in between), and the database breaks a cycle of waits (`WF`).
No client has to send anything, no failure has to happen, and time does not
have to pass.

`Outbox`: `Run` is a loop on a ticker that always ticks again (`WF` of a
worker's steps); a letter's time comes (`WF` of `Ripen`); `ORDER BY
next_attempt_at` with a batch limit means that a letter that is due again and
again is claimed at last (`SF` of claims that include it). Delivery is fair
because a send is assumed to return: `email/sender.go` sets no timeout of its
own, so a mail server that keeps a connection open in silence stops a worker.
Letters are never obliged to be put into the outbox, and faults, which are
finitely many, never obliged to happen.

`Dictionaries`: a started transaction takes its next step if that is possible
again and again (`SF`): PostgreSQL queues those who wait for a row, so that a
stream of updates of the cards cannot pass a deletion for ever, and it looks
for deadlocks. Nobody has to start anything.

`CardPicture`, for the violated run only: a picture is asked for again and
again, and a step of a request that may fail is not cut off every time (`SF`).
This is more than the code promises, and LinkCatchesUp fails even so.

## 6. What is proved

TLAPS proves the theorems for every set of users, tokens, requests, letters,
workers and so on, and every bound.

- `SessionsProofs`: TypeOK, OneLiveToken, UsedHasOneSuccessor, RevokedPrefix,
  ExpiredStaysUnspent, and that Sessions implements SessionChain. The inductive
  invariant adds: what each stage of a request has read and locked
  (`RequestsOK`), that no row is locked by two (`LocksOK`), that tokens
  promised to requests are distinct and not yet stored (`NextsOK`), that a
  family is a chain from its first token with at most one token not used
  (`FamiliesOK`), and what a revocation's snapshot says of the rows it will
  meet (`SnapshotsOK`). Without the locks two exchanges of one token could both
  pass the guard of the UPDATE, and nothing weaker than the chain gives
  RevokedPrefix. Each commit maps to Open, Exchange or Close, all else
  stutters. Two action properties follow: a sign-in without a token that could
  be exchanged is over for good (OverForGood: what a request read before cannot
  revive it), and a revocation misses only rows committed after its snapshot,
  and revokes either all the others or none (RevocationMissesOnlyNew).
- `StaffProofs`: TypeOK, MemberHasCard, AdminLostOnlyInWindow,
  ArchivedIsFinal, BlockStands, OnlyInvitedJoin, and that Staff implements
  Membership, for any number of concurrent requests; CompanyHasAdmin and
  GoneIsArchived for any number of requests until two have overlapped. For the
  latter the invariant says that until then at most one request is running and
  that what it has read is still so: the condition is needed, finding 2 is its
  violation. For the refinement and OnlyInvitedJoin the invariant adds
  `RowsOwned`: a transaction that has written a membership is the only one that
  has, and the row is there until it commits. Without it a change of role could
  commit after a removal and make a member of somebody nobody invited.
- `OutboxProofs`: TypeOK, ClosedForAReason, CopiesArePaidFor,
  AttemptsArePaidFor and the implementation of MailDelivery, all without an
  assumption on leases. The invariant has two parts. Of every letter: what a
  worker holds at each point (`WorkersOK`), and that what is due is pending. Of
  the letters that never outlived a lease: one worker at most holds one
  (`OneHolder`), what is held is open (`HeldPending`), and where each attempt
  and copy was spent (`CountsOK`): a copy or attempt above the promised number
  is matched by a fault. SettledIsFinal follows: a settled letter is not sent,
  opened or counted again while its leases lasted.
- `InvitationsProofs`: TypeOK, PendingHasLetter, OnePending, ClosedIsFinal,
  JoinsHimself, LinksDieForGood, and that a member has an account and a card
  (NoHalfResult), which is also what makes Invitations implement Membership. The
  invariant adds what each stage of a request has read
  (`RequestsOK`), that letters have been written only for links that exist
  (`LettersIssued`), which makes a renewed link new, and that a row has an
  address, a link and a term or does not exist (`RowsOK`).
- `RateLimitProofs`: TypeOK, WindowBound, RetryAfterKept, IdleForgotten, and
  that RateLimit implements TokenBucket, for any limits, operations, clients
  and lengths of a minute and a second. The invariant adds that no bucket is over
  its capacity or used in the future (`BucketsOK`), how the last use of a bucket
  lies to the last sweep (`SweepsOK`), that what has passed in a window and
  what the bucket holds now together are within the bound (`WindowOK`), that two
  ticks after a promise falls due there will be more than a token (`PromiseOK`):
  more, because just a token may be short; and that until a second before
  there is less, or just one that is short (`TightOK`). `RefusedIsShort` says
  when a request is refused, `WaitIsRight` what the rounded wait brings. The key
  of the refinement is that a bucket unused for a minute is full whatever it held.
- `DictionariesProofs`: TypeOK, RefsLive, DeadlocksOverTags, ShownKept, TagsInOrder, for any
  number of cards, entries, places and transactions. The invariant says what
  each stage has (`Shapes`), that a key that has passed keeps its entry from
  being deleted (`CheckedShared`), that an entry is deleted by one transaction
  (`OneDeletion`), that the row of a card has one owner (`RowExclusive`), and
  that an update that writes a position changes it (`Differs`). RefsLive needs
  all of it: a deletion that reads which cards it must change and an update
  that reads whether the entry exists exclude each other only through both
  locks. DeadlocksOverTags follows a cycle of waits: who waits for an update is
  a deletion, and an update that waits for the deletion of a position has not
  yet touched the rows that this deletion waits for. For TagsInOrder the
  invariant adds that what an update is about to write is in order too
  (`WishInOrder`).
- `CardPictureProofs`: TypeOK, LinksResolve, PicturesTrue, PhotoStaysGone, LinkStands, for
  any contents and requests. The invariant adds what a request has made sure of
  when it writes (`Prepared`): a picture is stored before it is linked, a photo
  before it is set, a drawing shows the content that was read or lacks a photo
  that was stored and could not be read. `OneName` is what PicturesTrue needs of
  the fingerprint: two contents with one name are equal, or one has the other's
  crop for its last tag, and nothing else.

The assumptions on constants are the named ASSUMEs of the modules: that `None`
is none of the members of the other sets, that numbers are numbers, that the
founder of a company is a user, that positions, tags and titles are different
things, and that a minute has at least a tick.

Some of what is proved is in no run, because another property of the run says
nearly the same or because the run would need a larger instance: OverForGood,
RevocationMissesOnlyNew, SettledIsFinal, NoHalfResult, the implementation of
Membership by Invitations, MemberHasCard, CompanyHasAdmin, LinkStands and
TagsInOrder. TLC was given each of them by hand, on the instance of the
component's run, and TagsInOrder on one with two places for tags.

Model-checked only: RequestsEnd (of Sessions and of Dictionaries) and
SettlesForGood. They are liveness properties under fairness; TLAPS has no rules
for WF and SF over ENABLED that its installed backends could apply.

## 7. Findings

What the code does and what is said of it, each with its counterexample.

1. `SessionsRevocation`. `RevokeFamily` is said to close the whole chain
   (`session.go:62`, `auth.yaml:97`). An exchange in flight has marked its
   token used and locked its row; the UPDATE of the revocation waits for that
   row, and does not see the successor that the exchange inserted. After both
   commits the sign-in has a live token. What still holds is RevokedPrefix,
   RevocationMissesOnlyNew, and OverForGood for a sign-in whose last token is gone.
2. `StaffLastAdmin`. A company is said to keep an administrator whatever two
   demotions do at the same time (`docs/database.md:47`, `domain/errors.go:31`).
   The trigger reads without a lock under READ COMMITTED: both checks pass
   before either commit. What still holds is AdminLostOnlyInWindow, and
   CompanyHasAdmin until requests overlap.
3. `OutboxDuplicates`. Replicas are said not to send a letter twice
   (`repository/postgres/outbox.go:34`, `docs/operations.md:341`). The lease of
   a batch starts at the claim and is not renewed; a batch that takes longer is
   claimed by the next worker while the first still sends it. What still holds,
   of letters whose leases lasted, is CopiesArePaidFor
   and SettledIsFinal.
4. `InvitationsRevoked`. A revoked link is said to stop working at once
   (`invitation.go:166`). Accept ignores that its conditional UPDATE changed no
   row, so an invitation revoked (or accepted) after its lookup makes a member.
5. `CardPictureLink`. The address of a card's picture is said to follow every
   change by itself (`profile.yaml:72`). `Render` stores the key only after it
   has drawn: a request that fails between Put and SetCardKey leaves the
   picture in the storage, every later one finds it there and stores no key
   (`service/card/service.go:76`), and the card keeps its old link or none. The
   same happens without any failure when a card returns to an earlier content:
   its picture is found, and the link stays with the later one. What still
   holds is LinksResolve, and LinkStands: a link that was right once goes stale
   only by a change of the card, unless a request that read an older content is
   still to store its key.

Other divergences that the models contain, or that one call shows, and no run
refutes by name:

- `Staff`: the owner's Publish reads the card before an administrator blocks
  it and writes after it, and the block is gone (`profile/service.go:303`;
  `profiles.yaml:280`), which is the exception in BlockStands; a person who
  joins between the archiving UPDATE and the DELETE of his removal goes with
  an open card (`company.go:300`; `companies.yaml:431`); a publication decided
  before the removal opens an archived card (`profile/service.go:307`), which
  is the exception in ArchivedIsFinal; a person who returns keeps an archived
  card, for ever (`invitation.go:306`).
- `Outbox`: when a lease has ended early, a late MarkFailed reopens a letter
  that is SENT (`repository/postgres/outbox.go:124`). SettlesForGood holds even
  so.
- `Invitations`: an expired invitation makes a new one a conflict (the index of
  migration 6 does not know the term; `invitations.yaml:51` speaks of a usable
  one); the revocation of an accepted one is answered 404, where
  `invitations.yaml:124` promises 409. A member who accepts an invitation with
  another role keeps his own and is told the new one (`invitation.go:264`).
- `Dictionaries`: a tag of another company is refused (`profile.go:238`) and a
  position of another company is not. Deletions of positions never deadlock
  with updates one by one, but two of them with two updates may.
- `CardPicture`: SetCrop writes back the photo it read, and so undoes an upload
  or a removal that came in between (`profile/service.go:263`), the exception
  in PhotoStaysGone. A picture drawn without a photo that could not be read is
  found by every later request and not drawn again, and may even replace a
  whole one (`service/card/service.go:99`), where line 73 says that a file
  found is up to date; PicturesTrue grants it, of photos that were stored
  (`unread`), and so does not catch it. The fingerprint writes tags and crop in
  a row (`card/service.go:194`): of a card whose last tag reads like a crop and
  of the card with that crop instead one is served the other's picture, against
  the same line 73. PicturesTrue does not deny that: it names this clash
  (`CropForTag`) and says that there is no other.
- `RateLimit`: `ratelimit.go:94` rounds the wait up so that a client who waits
  that long is not refused again; at the announced instant itself he may be.
  With the default strict limit 10: ten requests pass, one a second later is
  refused with Retry-After 5, and at exactly six seconds the float holds
  0.9999999999999999 of a token. A tick later he is let in there; RetryAfterKept
  says two, for every limit.
- Cards: an update of a published card may take away its name or its tags,
  which publication requires (`profile/service.go:140`); UpdateSlug of a blocked
  card frees the address that `domain/profile.go:15` says is never free
  (`profile/service.go:276`); the entity tag of a page is made of its status
  and `updated_at` and so does not notice a renamed position, company or logo
  (`profiles.go:314`).

## 8. What is not modelled

- Of the modelled parts: formats of tokens, hashes, slugs and letters; reads
  that change nothing (lists, previews, `GetMe`); company requisites; the
  lengths of backoffs and leases; the fields of a card that one UPDATE sets to
  what came; SVG cards and cropped avatars, files with names of their own that
  no row refers to.
- Addresses of cards: one unique index and one trigger decide in one statement,
  and a model would restate them. That an acceptance fails when all ten
  addresses it tries are taken is a matter of how many there are.
- More than one company: rows of different companies meet only in `users` and
  in the uniqueness of addresses.
- Failures of the database between a commit and its answer: a client cannot
  tell, and the program does not retry.
- The browser: `Sessions` lets any request present any token at any time, which
  includes what tabs and retries do; which clients are signed out by it is a
  question about programs outside this repository.
- Conditional requests: a tag computed from two columns, without state.
- Start and stop of the process: what a stop does to the state is in `Fail` of
  every request and in `Restart` of a worker.
- Cryptography, rendering, the paths and requests of the storage, configuration,
  logs, metrics and tools: pure, I/O or write-only.
- The code generated from the OpenAPI documents (`internal/gen`), most of
  the lines of the repository: routing, validation and encoding without state.
