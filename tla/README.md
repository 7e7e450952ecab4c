# Activity library: a specification in TLA+

The activity library is an HTTP API (Go, `src/backend`) over PostgreSQL: people
get in by invitation or by a join request, write games (drafts, published games,
variants of published games), and find them by listing and searching. All state
is in PostgreSQL and in the browsers' cookies; the server keeps none. What is
hard about it is therefore what happens when several requests, each a few SQL
statements at READ COMMITTED, touch the same rows: which rows each statement
sees, which locks it waits for, what a unique index or a foreign key still
catches, and what the answer to the browser does when it arrives late.

The specifications are about that. Paths below are relative to
`src/backend/internal/`; "the schema" is `store/migrations/00001_init.sql`.

## 1. The system

| Component | State | Operations | Interacts through |
|---|---|---|---|
| Accounts, invitations, join requests (`store/users.go`, `invitations.go`, `join_requests.go` and their handlers) | tables `users`, `invitations`, `join_requests` | sign up; invite, revoke, accept; ask, approve, reject | `users.role`, read by the middleware; unique indexes shared by sign-up and acceptance |
| Sessions and middleware (`api/auth.go`, `middleware.go`, `cookies.go`, `routes.go`, `store/sessions.go`) | table `sessions`, the cookie | log in, log out, `requireAuth`, `requireMembership`, `requireAdmin` | reads `users` once per link of the chain; sets and clears one cookie |
| Drafts, variants, publishing (`store/games.go`, `api/games.go`) | `games.publish_state`, `original_id` | create, vary, publish, unpublish | the foreign key from variants to published originals; preconditions on blocks, categories, description |
| Game text, blocks, search document (`store/games.go`, schema triggers) | `games.title`/`description`, `blocks`, `game_search` | PATCH, PUT blocks | triggers that recompute `game_search` after each row |
| Links (`store/games.go`) | `game_categories`, `game_locations`, `game_materials`, `games.no_materials` | three PUTs and a PATCH | the foreign key `(game_id, no_materials)` |
| Listing, paging, search (`store/games.go`, `store/search.go`, `api/params.go`) | none | GET | reads what the others commit |
| Authorship | `game_authors` | written at creation only | checked in front of every write |
| Partial updates, bodies, parameters (`optional`, `api/json.go`, `params.go`) | none | decoding, validation | every handler |
| Error classification (`store/errors.go`, `api/errors.go`) | none | constraint name to answer | every handler |
| Taxonomy | `categories`, `locations`, `materials` | read only | foreign keys |
| Seed (`store/seed.go`, `cmd/seed`) | all tables | one transaction | run beside a server |
| Server and pool (`api/server.go`, `run.go`, `store/db.go`) | connections | start, serve, shut down | every handler |
| Passwords and tokens (`auth`) | none | hash, verify | login, the accounts of the seed |
| Configuration, test helpers, deployment | none | | |

What makes the ones that are modelled correct, and hard to test:

* **Accounts.** One active account per address; one open invitation per
  address; an invitation makes one account, however often its token is sent;
  nobody is in without a decision; decisions are final; an approval is never
  half done. Two transactions of several statements (accept an invitation,
  accept a join request) race with single statements and each other.
* **Sessions.** A handler acts for the owner of the session and with the rank
  of its route, though both were read by earlier queries; a logout is final for
  requests sent after it; no answer costs the browser a live session it was
  asked with.
* **Publishing.** A variant's original is published and no variant; only
  complete games are published. A check in one transaction is acted on in the
  next.
* **Content.** Positions are unique and 0..n-1; the search document is that of
  the game. Two replacements of a list share no lock.
* **Links.** A replace leaves the set it was sent; a game flagged
  `no_materials` has none.
* **Rows and lists.** Every game shows numbers, its own or its original's. A
  client that asks for page after page sees no game twice and misses none that
  was there all the time, though every page is a query of its own and games come
  and go in between.
* **Server.** A client is never told the opposite of what happened; handlers do
  not starve each other for connections; a process that is told to stop stops,
  and leaves nothing open.
* **Seed.** Run over whatever is there, it leaves no row without what it refers
  to; its accounts can be used.

## 2. The modules

| Module | What it is |
|---|---|
| `Membership` | accounts, invitations, join requests, cut at the statements |
| `Admission` | the same operations as single steps: what clients are promised |
| `MembershipProofs` | the invariant of `Membership`, its consequences, and that it implements `Admission` |
| `Catalog` | drafts, variants, publishing, with the foreign key of variants |
| `Shelf` | the same as single steps |
| `CatalogProofs` | the invariant of `Catalog`, and that it implements `Shelf` |
| `GameContent`, `GameContentProofs` | text, blocks and search document of one game; proofs of all its safety and action properties that hold |
| `Associations`, `AssociationsProofs` | the links of one game and `no_materials`; proofs of all its safety properties |
| `Sessions`, `SessionsProofs` | login, logout, the cookie, the middleware chain; proofs of its invariant and of what answers do to the cookie |
| `Spine` | the rows of `games` as readers see them: numbers of its own or inherited, `created_at`, and PATCH with its three states of a field |
| `Listing` | a viewer paging through the list or a search of those rows while they change |
| `Scan` | what a client that pages is promised of a list that changes |
| `ListingProofs` | the invariant of `Spine`, that `Listing` writes by its steps only, and what follows for the numbers shown; the invariant of a walk, and that `Listing` implements `Scan` |
| `Server`, `ServerProofs` | the process, the pool, the handler timeout and the answers; the proof of its safety properties |
| `Passwords` | the format of stored hashes, as operators |
| `Seed`, `SeedProofs` | the development dataset against a database in any state, and signing in to it; the proof that references hold |
| `MC...` | small instances for TLC |

`PROJECT.json` maps each definition to the lines it stands for.

### How a transaction is modelled

The variables named after tables and columns hold what is **committed**. A
request in the middle of a transaction is one record of `req` (`edit` in
`GameContent`): its `pc` says which statement it has completed, and the other
fields what it has read, written and locked. Its own writes become visible to
others in its commit action and nowhere before. Locks are not stored: they are
read off the records (`HoldsInvitation`, `BlockHolders`, `SharesKey`, ...).

* A statement that would wait for a lock is an action guarded by the absence of
  the holder, and looks at the row as it is when it runs: this is what READ
  COMMITTED does when it rechecks a row it waited for.
* A statement that can reach several rows (a DELETE, a multi-row INSERT) is one
  action per row where it can wait between them; its snapshot is taken when it
  starts (`todo`).
* An operation of one statement, or whose statements nobody can see apart or
  make wait, is one action.
* A refused operation changes nothing; inside a transaction the refusal is the
  rollback. `Abort` is every other end without a commit: a failed statement, the
  30 s handler timeout, a lost connection, a dying process. As the server keeps
  no state, a crash is an `Abort` of every request it was running, and a
  committed transaction whose answer is lost is a commit whose client starts a
  new request.
* In `GameContent` and `Associations` transactions can wait in a circle;
  `DeadlockVictim` is PostgreSQL's detector. In `Membership` and `Catalog` they
  cannot. For `Membership` this is checked and proved: `WaitersHoldNothing` says
  that a transaction waits, if at all, for its first lock, and `TransactionsEnd`
  that with fair lock queues each one ends without a detector.

### Correspondence

**Membership.** `role`, `email`, `active` are columns of `users`; `invState`
condenses `accepted_at`/`revoked_at`, and `expired` is whether `expires_at` has
passed. `expired` is copied at BEGIN (`late`) because `now()` in PostgreSQL is
the start of the transaction. `BeginAccept`, `LockOpenInvitation`,
`CreateInvitedUser` or `InvitedEmailConflict`, `MarkInvitationAccepted`,
`CommitAccept` are `store.AcceptInvitation`; `BeginDecide`, `DecideJoinRequest`,
`PromoteOutsider`, `CommitDecision` are `store.AcceptJoinRequest`. The three
partial unique indexes of the schema are `EmailTaken`, `PendingInvitation` and
`PendingJoinRequest`; an uncommitted entry is `HoldsEmail`. No route
deactivates an account, but every query takes inactive accounts into account:
`Deactivate` is the UPDATE somebody runs by hand. That the requester is an
existing account is all the route asks for (`routes.go:45`).

**Catalog.** `parts` is what `publishPreconditions` looks at. `CheckPublish` is
`handlePublishGame` up to its check, `SetPublished` and `CommitState` are
`setPublishState`, which does not check again. `InsertVariant` includes the
check of the foreign key, with its FOR KEY SHARE on the original; `SetDraft`
includes the check from the other side, which is `ErrInUse`. Whoever writes is
an author, and no route changes who that is, so authorship is not in the model.

**GameContent.** `document` is what `refresh_game_search` computes, as the set of
contents with their ranks; contents are the request that wrote them. Each row
an INSERT, UPDATE or DELETE touches owes trigger calls at the end of its
statement, an UPDATE two of them; each call is `ComputeDocument` (a snapshot of
its own, as the functions are VOLATILE) and `UpsertDocument` (which may wait).
`blocks_game_position_key` is deferred: a row that meets another at its position
is `doubtful` and looked at again in `Commit`. Ids in a list are pairs of a
block and a spelling, because `validate` compares strings and PostgreSQL uuids.

**Associations.** A category stands for a location too: `EditGameLocations` is
the same code over a table of the same shape. For categories `ON CONFLICT DO
NOTHING` leaves an existing link unlocked; for materials `DO UPDATE` holds it.
`CommitReplace` takes the rows it deletes out of the snapshots (`todo`) of the
others: a DELETE passes over a row that is gone, and does not see the one that
another request links for the same id in the meantime.
`CheckForeignKey` is the end of the INSERT, where the game is looked up FOR KEY
SHARE with `no_materials = false` in the key; `EditGameInUse` is the same foreign
key from the other side. Quantities are left out.

**Sessions.** A browser has several requests on their way. Each query of the
chain is an action; an answer is a record of what it does to the cookie, and
`Deliver` applies answers in any order. `late` and `barred` (history) are whether
the token had been logged out of, and its owner deactivated, when the request
was sent. Wrong passwords and requests without a cookie change nothing and are
left out. So is `handleMe` clearing the cookie of an account that is not found:
accounts are not deleted.

**Spine and Listing.** Of the two ranges of a game one stands for both: columns
and constraints are the same. `own` is what the row has, `Resolved` what
`gameSource` shows. `Edits` has the three states of `optional.Value`; `Assigned`
is the SET clause of `GameEdit.assignments`, and `RowAllowed` the CHECKs of the
table. A row is `inserting` between its INSERT and its commit, because
`created_at` is the start of the transaction and the game may appear in a list
below rows that were already shown. Publishing is one step here; its
transactions are in `Catalog`. A page is one action (`ListGames`, `SearchGames`):
one SELECT, on a snapshot of its own. `LimitFor` and `FollowingAllowed` are what
the parsers and the stores do about limits and offsets. Everything a search
sees of a text is `rank`, the value of `ts_rank_cd` for the viewer's query. `walk`
also remembers (history) which games were in the result all the time and
whether the result stayed as it was.

**Server.** A handler is the sequence of connections it takes: a query (`read`)
or a write that commits at its end. `Handlers` are what the sequences of the
routes come down to when reads in a row are cut to two before a read and one
before a write (publishing a game is in truth four reads, the write and a read):
a list or lookup, a read behind `requireAuth` and its like, a lone write
(`POST /users`, `POST /invitations/accept`, logout), a write behind the chain, and
one that reads its game back on the pool (`creditAuthor`). A read more is one
more connection taken and given back, which the handlers have already. `committed` is what the database knows, `status` what the client
is told. The 503 of the readiness route is not among `Statuses`: it pings the pool
and writes nothing. `Refuse` sends the error of a statement through `Classify` or
`ClassifyInUse` and `StatusOf`; `Cancel` is the end of the context, by
`middleware.Timeout` or by the client, and leaves a COMMIT that was under way
undecided. A committed write is refused for no other error than one that is
answered 500 (the guard of `Refuse`): no route deletes a game or changes its
authors, so what was written can be read back. Somebody who deletes the game by
hand just then would make the answer a 404, and `AnswersTellTheTruth` assumes that
nobody does. `serve` does not wait for handlers when the listener fails, `Shutdown`
waits for `ShutdownTimeout`, and the deferred `pool.Close` waits for connections
without a limit (`Exit`).

**Passwords and Seed.** A stored string is the record of what splitting it at `$`
gives, and argon2 an injective tuple; `Decode` checks in the order of `decode`.
The dataset is a sequence of rows with the rows each needs; an untargeted `ON
CONFLICT DO NOTHING` leaves out rows that are there and accounts whose address is
taken (`Clashing`), and a row whose need is then missing fails the whole
transaction (`Refused`).

## 3. What is checked

Deadlock is checked in every run: none of these systems may stop.

| Run | Instance | Shows |
|---|---|---|
| `Membership` | 3 accounts (an admin and two to come), 2 addresses, 2 invitations, 2 join requests, 2 transactions; 808,010 states | `TypeOK`, `OneAccountPerEmail`, `WaitersHoldNothing`, `AcceptedInvitationMadeOneAccount`, `MembersWereAdmitted`, `ApprovedRequestersAreIn`, `DecisionsAreFinal`, `RolesOnlyRise`, the inductive `IInv` (with `OneOpenInvitationPerEmail` and `OnePendingRequestPerAccount` in it), and that `Membership` implements `Admission` |
| `MembershipLive` | 3 accounts, 1 address, 1 invitation, 2 join requests, 2 transactions, no symmetry; 106,933 | `TransactionsEnd` |
| `Catalog` | 3 games, 2 parts, 3 requests; 52,729 | `OriginalsArePublished`, `IInv`, implements `Shelf` |
| `GameContent` | a game with 2 blocks, 3 ids in one spelling, lists up to 2, 2 requests; 3.3 million | `PositionsAreUnique`; `EditShowsItself`: the document a commit leaves has what it wrote; `EditAloneIsWhole`: an edit nothing ran beside leaves its list without gaps (if the list names no block twice, see below) and the document of the game, whatever earlier overlaps had left |
| `GameContentLive` | 4 ids, lists up to 1, no symmetry; 204,620 | `EditsEnd` |
| `Associations` | 2 categories, 2 materials, 2 requests, no symmetry; 27,451 | `FlaggedGamesHaveNoMaterials`, `ListedMaterialsStay`, `ReplaceAloneIsExact`, `EditsEnd` |
| `Sessions` | an admin and an outsider, 2 tokens, 2 requests; 363,072 | `ActsWithRank`, `LogoutIsFinal`, `IInv`, `DropsOnlyDeadCookies` |
| `Listing` | a game and its variant of one moment, and one game to come; 2 numbers, 3 ranks, 2 instants, pages of 1 or 2, 4 steps of writers; 545,015 | `ResolvedIsComplete`, `RangesAreInOrder`, `StillWalksAreExact`, implements `Scan` |
| `Server` | 2 handlers, 1 connection, handler limit 2 ticks, shutdown limit 1; 47,073 | `AnswersTellTheTruth`, `PoolGoesOn`, `StopsAreClean`, `SignalsEndIt` |

`EditAloneIsWhole` and `ReplaceAloneIsExact` matter because the unconditional
promises are false (below): they say that the damage of an overlap ends with the
next edit that runs by itself. A record knows whether anybody was in progress
beside it by the history field `alone`.

**Why the bounds are enough to be interesting.** Every race in these modules is
between two transactions, or a transaction and a single statement; two requests
show it, and a third is there where a circle or a queue of three is conceivable
and affordable (`Catalog`). Two addresses and two invitations
allow both a clash and its absence; two join requests of one account, and of
two. In `MembershipLive` two transactions wait for one another's row in the two
ways the code has, an invitation accepted twice (hence two ids for accounts to
come, and a founder who can be deactivated to free the address) and a join
request accepted twice, and two promotions of different accounts are open at
once. A second address and a second invitation would add waiting for an address
with an invitation locked, which `WaitersHoldNothing` excludes in the larger
instance, and for every instance by proof. Two blocks can be swapped, which is what makes rows be locked in opposite
orders and positions collide before COMMIT. Ids are used once; when they run
out an INSERT has no id to take and waits, so the liveness run of `GameContent`
has as many ids as its requests can draw between them. `MaxLength` bounds the
lists a client sends. Three games are an original, its variant and a variant of
the variant (refused). In `Listing` a list of three needs three pages of one, the
walk has a tie to break, a late commit and a rank to lose between any two of
them, and four steps of writers are enough to create, commit and publish a game
and change another; with fewer the late game is never listed. The ceiling
`MaxGameSearchOffset` is 1, so that a search of three games reaches it. In
`Server` two handlers compete for one connection, which is the smallest pool and
the one where starving is easiest; the limits keep the order the code gives them
(shutdown before handler).

**Symmetry** permutes requests, tokens and ids that no definition singles out,
and is used in runs without liveness properties only.

**Fairness** is assumed in the runs of `EditsEnd`, `TransactionsEnd` and
`SignalsEndIt`. SF on the statements of a request: PostgreSQL queues waiters, so one whose lock becomes free again and
again is not passed over for ever (WF would not do, as a lock may be retaken
between). WF on `DeadlockVictim`: the detector runs a second after a wait began.
Nothing is assumed of clients, of `Abort`, of clocks or of `Deactivate`: a request
ends because the system ends it, not because it is given up. In `Server` it is WF
on the clock (`Tick`), on `Cancel` at the handler's limit (`middleware.Timeout` and
the context of every query), on `ShutdownTimesOut` and on `Exit`: nothing is
assumed of statements, which may hang, or of clients. `Tick` does not pass a
limit that has been reached, which is the precision of a timer.

### Where the code and what is said of it differ

Three are runs that find a violation; `PROJECT.json` quotes the lines.

| Run | Property | What happens |
|---|---|---|
| `GameContentStale` | `DocumentTracksGame` | two edits of one game overlap: the second writes a document it computed before the first committed. The game is found by the text it no longer has until it is edited again. `EditShowsItself` (which holds) says how far it goes: the last writer's own words are always there |
| `CatalogRace` | `PublishesOnlyComplete` | the game is emptied between the check of `handlePublishGame` and the UPDATE |
| `Seed` | `OwnersSignIn` | the hash of the dataset's accounts is bcrypt, `auth.Verify` reads argon2id only: signing in to one of them is answered 500. "Sample accounts need something that parses as a hash" (`store/seed.go:121`) |

Seen on the way, and taken into account by the conditions of properties that
hold:

* `editGameBlocksRequest.validate` looks for repeated ids among the strings the
  client sent (`api/games.go:562`), PostgreSQL compares uuids: a list that names a
  block in two spellings is accepted, and leaves a hole in the numbering.
  `EditAloneIsWhole` speaks of lists with `NamesBlocksOnce`. (For a list of
  materials the same passes `validate`, and the INSERT then fails.)
* Two replaces of one set at once leave the union of what they insert
  (`store/games.go:943`), whereas `api/games_categories_test.go:19` says PUT "replaces
  the set rather than adding to it"; two lists of blocks are merged likewise,
  with holes. `ReplaceAloneIsExact` and `EditAloneIsWhole` are about edits nobody
  ran beside.
* An account that is deactivated while its password is being verified is signed
  in all the same (`api/auth.go:51`). `ActsWithRank` says that the session gets it
  past `requireAuth` only.
* A variant may set one end of a range and inherit the other, and nobody
  compares the two: its card can show a minimum above the maximum.
  `RangesAreInOrder` exempts exactly these.
* A published game is emptied again by ordinary edits, as the preconditions of
  publishing are those of the transition only.
* A refusal of a request with an old cookie, delivered after a login, clears the
  new cookie, since a cookie is cleared by name (`DropsOnlyDeadCookies` speaks of
  the cookie a request was sent with, for this reason).
* `store/games.go:214` says that drafts are invisible to `ListGames`; it shows a
  caller their own (`Visible`).
* Seeding a database where somebody signed up with a sample address fails as a
  whole, rather than filling in the gaps (`store/seed.go:13`).
* `api/errors.go:56` names a constraint the schema spells differently (line 269):
  its message is never used. The model of answers has statuses, not messages.

## 4. What is proved

Every safety and action property of a passing run, and every implementation of
an abstract module, is also a theorem. For all values of the constants, under the
`ASSUME`s of the modules (the founders have distinct addresses; `None` is no id,
no row and no document; parts are among the three the handler looks at; the
games, and the blocks and the requests a game can have, are finite; ranks are
numbers and a page's default limit is within its maximum; a shutdown waits less
than a handler may run; the rows at the start are rows the table allows), TLAPS
checks:

| Module | Results |
|---|---|
| `MembershipProofs` | `IInv`, and from it every invariant of the run, `DecisionsAreFinal`, `RolesOnlyRise`, and `Spec => Door!Spec` (implementation of `Admission`) |
| `CatalogProofs` | `IInv`, types, `OriginalsArePublished`, `Spec => Front!Spec` (implementation of `Shelf`) |
| `SessionsProofs` | `IInv`, types, `ActsWithRank`, `LogoutIsFinal`, `DropsOnlyDeadCookies` |
| `AssociationsProofs` | its `IInv`, types, `FlaggedGamesHaveNoMaterials`, `ListedMaterialsStay`, `ReplaceAloneIsExact` |
| `GameContentProofs` | its `IInv` and `EditInv`, types, `PositionsAreUnique`, `EditShowsItself`, `EditAloneIsWhole`, for any number of requests, lists of any length and any spellings |
| `ListingProofs` | the `IInv` of `Spine`; that every step of `Listing` is one of `Spine` or leaves the table alone; `ResolvedIsComplete`, `RangesAreInOrder`; the `WalkInv` of `Listing`, types, `StillWalksAreExact`, `Spec => Pages!Spec` (implementation of `Scan`) |
| `ServerProofs` | its `IInv`, types (with the size of the pool), `AnswersTellTheTruth`, `PoolGoesOn`, `StopsAreClean` |
| `SeedProofs` | `ReferencesHold`, for every dataset whose accounts need nothing and whose rows need accounts and games (`WellFormed`) |

**The argument.** None of the promises is inductive: that two accounts do not
share an address, say, depends on what an acceptance checked two statements
before it commits. Each `IInv` therefore adds three things to the promises.
`RowsAreWhole`: rows that are not there refer to nothing.
`TransactionsKeepTheirGround` (`RequestsKeepTheirGround`): what a transaction
found under its locks is still so, at each `pc`. `LocksAreExclusive`: no two
transactions hold the same row or draw the same id. A step of one request keeps
the ground of another because the guards are the locks and locks exclude each
other; a commit keeps the promises because of the ground it stands on. The
refinement maps every table to itself and forgets the requests: all steps of a
transaction but its commit are stuttering steps, and the ground gives the commit
the guard of the abstract action.

`WaitersHoldNothing` follows from the invariant of `Membership`: two transactions
that held a row each and met at one address would hold open invitations of that
address, of which there is one, and rows are held once; likewise for an account
and its pending request. So whoever waits holds nothing that others wait for, in
whatever numbers they come.

`Sessions` is shorter: the owner of a row never changes, roles only rise, nobody
is activated again, and a token that was logged out of has no row, which is all
`requireAuth` looks at. For the cookie the invariant is `ClearedCookiesAreDead`:
an answer that clears it names a session that was `Dead` when the answer was
written (ended, expired, or of a deactivated account), and `DeadStaysDead` carries
that over whatever happens until the answer arrives.

`Associations` needs, beside exclusive locks, that a flag that is being raised and
a new material exclude each other: whoever holds new materials after the check
of the foreign key shares the key of a game that is not flagged, and whoever
raises the flag found no sharer. `ListedMaterialsStay` then follows because every
asked id is held (inserted or rewritten) from the time the INSERT passed it, and
`ReplaceAloneIsExact` because nobody else moved the table in between.

In `GameContent` the committed positions are unique by themselves; what has to be
carried is who knows of a clash. A row that was written where another one is, or
is about to be, is `doubtful`, and of two transactions that write one position
the later one is; so whoever commits has waited for, or been refused by,
whatever is at its doubtful positions, and nothing is at the others.

`EditShowsItself` and `EditAloneIsWhole` need to know how far each request has
got, which is `EditInv`. The rows it has written are the entries of its list so
far, each at its place (`Placed`); whatever else was its own from before is still
to be deleted or still ahead in the list (`Covered`), and so is everything there
is when nobody runs beside it; the documents it has computed and written show
its text or have an entry for each of its rows (`Shows`), and are those of the
tables it sees when it is alone (`Tracks`). That a document has as many entries
of a request as it has rows is the lemma `OwnEntries`: rows at different
positions have different ranks among all rows, so rows and entries are equally
many, and rows and positions are too. The lemma for the step that writes a row
is where `NamesBlocksOnce` is needed: a block that the list names a second time
would move, and leave the place it had.

In `Listing` a result is a sorted sequence, which is defined by counting: a row
stands after as many rows as come before it. Everything the proofs need of
sequences follows from that without induction: in a strict order places differ
and all are taken (`PlacesDiffer`, `PlacesAreTaken`), and what comes after a row is
the rest of the sequence (`OrderedTail`), which is why a page that starts after a
cursor continues the one before it. `WalkInv` says of a walk that what it has
shown is not below its cursor, and that what was in the result throughout was
shown or is below it (`CursorSplits`), and of a still one that what it has shown
and what is to come are the result (`Exact`). Writers keep it since ids and
`created_at` of committed rows do not change; a page moves rows from one side of
the cursor to the other. The refinement of `Scan` forgets cursor and order: a
page is `Scan`'s step that adds some listed games not shown yet.

`ServerProofs` carries that a handler that waits has no connection, which is the
whole of `PoolGoesOn`, and that one that has committed can only be answered with
success or a 500.

## 5. What is only model-checked, or not modelled

Only checked by TLC: liveness under fairness (`TransactionsEnd`, both `EditsEnd`,
`SignalsEndIt`), which is beyond the prover, and the three violated properties.
The inductive invariants `WalkInv`, `EditInv` and `ClearedCookiesAreDead` were
checked by TLC on the instances above before they were proved.

Not modelled, and why:

* **Authorship.** No route changes who the authors of a game are; the check in
  front of a write answers the same for the whole life of a game. It appears as
  a refusal (`Forbid`) and as a constant (`Authored`).
* **Taxonomy.** Three read-only lists that nothing in the program writes.
* **Bodies and parameters**, but for fields of a PATCH, limits and cursors: pure
  decoding of one request. The same goes for quantities of materials and ids the
  taxonomy does not know.
* **Messages** by constraint name: wording.
* **Migrations** and the settings of idle connections: start-up either succeeds
  or fails before anybody is served (`StartUp`).
* **Tokens** are ids nobody has seen; `VerifyDummy` only takes time.
* **Configuration, test helpers, deployment.** Not part of the behaviour.

## 6. What is left

In order of what it is worth:

1. The composition of `Server` with one of the transaction modules, so that a
   lost answer is followed by the retry of the same request.
2. An abstract module for the content of a game, as `Shelf` is for its state: what
   readers are promised of text, blocks and document while edits overlap.
