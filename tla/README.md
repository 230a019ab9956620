# Serene Bach: specification, model checking and proofs

TLA+ modules of the parts of the Serene Bach weblog engine where requests,
processes, failures and kills meet, the TLC runs that check them on small
instances, and theorems about them that TLAPS checks for every instance.

Serene Bach is one Go binary over one SQLite database. It runs as a server
(every request a goroutine of one process), as a CGI program (every request a
process of its own), or as a command (`build`, `seed`, `backup`, `import`,
`mcp serve`); a cron job may run the commands beside either. What these share is
the database, whose statements are atomic and whose handlers mostly run them one
by one outside a transaction, and the output directory of the static rebuild,
whose renames are atomic and nothing larger is.

## Inventory

| Part | State | Operations | What is hard | What makes it correct |
|---|---|---|---|---|
| static rebuild (`rebuild.Build`, `admin.Rebuilder`) | output directory, staging and backup directories, pages manifest, mutex per process | save + `maybeAutoRebuild`, "Rebuild now", `serenebach build` | promotion unit by unit; an error or a kill between two renames; saves during a build; two processes without a common lock | nothing published is lost; content never goes back in time; a finished promotion is complete; the site catches up |
| flat-page promotion (`promoteExtraDirs`) | tree of page roots, manifest, backup | promote, preserve children, prune | roots inside roots, iteration of Go maps, operators' directories next to pages | published pages served, stale ones gone, nothing else touched |
| flat-page administration | `pages` | create, update, delete | validation and write are separate statements | no slug above, below or equal to another |
| accounts, sessions, login limiter | `users`, `sessions`, `login_failures` | sign in and out, create, edit, delete, profile, password | count-then-write, slow password check, stale rows written back | an administrator remains; no session outlives its password or account; the limiter bounds failures |
| installation | `users`, `weblogs`, `templates`, `categories`, `entries`, mutex per process | `/setup`, `serenebach seed` | several processes, check-then-insert, partial seeds | one founder, who can sign in; a site that can be rendered; samples once |
| entries and tags | `entries`, `tags`, `entry_tags`, preview cards | create, update, publish, delete; ensure and set tags | a save is row, tags, card and webhook, one after the other; a client that hangs up; deletion under a save | an entry carries what its last save resolved; a publication is announced; no card without its entry |
| categories | `categories`, `entries.category_id` | create, update, delete; forms that stay open | forms older than the tree; slugs that look like ids; capped walks over parents | a forest; no entry in a missing category; a permalink leads home |
| templates | `templates`, `template_assets`, files | save, copy, rename, activate, delete; upload, import, delete assets | check, then delete; whole rows written back; file and row are two steps | one active template; edits stay; rows and files agree |
| comments and messages | `messages`, comment counts | post, approve, hide, delete | count-then-insert limit, trust memory, the entry's counter | the counter equals the approved comments; the limit is exceeded by requests in flight only; trust is earned |
| reactions | likes, stamps, counters | like, stamp | repeated and concurrent clicks | one per visitor; the counter agrees |
| webhooks | `webhooks`, `webhook_deliveries` | create, edit, toggle, delete, test; dispatch, record, prune | deliveries on goroutines of their own, no retry; rows read and written back whole; shutdown | settings are what was last asked; the log keeps the newest attempts, each with its outcome |
| links | `links` | create, save, delete, reorder the list or the members of a group | the group is looked up before the row is written; whole rows written back | every link can be reached and keeps its place, or is lost by one race |
| images | `images`, files and thumbnails | upload by form and by MCP, delete, rename, generate an alt text | file and row are not one step; answers that come late | rows name files that exist; other files are traces of failures |
| public pages, feeds, sitemap, search | `entries`, `categories`, `tags`, `entries_fts`; read only but for the index | lists page by page, entries, neighbours, search; `reindex` | each place decides again who may see an entry; a list changes under its reader; an index filled in two statements | a reader reaches every entry; neighbours mirror each other; search finds the published |
| static pages | the files a build writes down | one read of the entries, then queries page by page | saves between the reads; two implementations of each page | what an undisturbed build writes is what the routes answer; its links lead to files |
| importer | all content tables, files, `legacy_*` columns | SB2, SB3, markdown; redirects of old addresses | ids counted from 0 and renumbered; settings in layers; a server that reads its columns once | an import is faithful or not there; old addresses land on the copy |
| MCP tokens and server | `mcp_tokens`, audit log, the content tables | mint, revoke, look up; read and write tools | use against revocation; row, tags and audit line are separate statements | only a granted scope writes; a write has its line, or a reason why not |
| MCP OAuth proxy | codes and tokens in memory | authorize, exchange, forward, sweep | concurrent exchanges, expiry, restart | a code is exchanged once, by the app it was issued to; nothing is forwarded without a token that is |
| analytics | hits | record, clean up | two clean-ups, the trigger counter | old hits go, counted hits stay |
| backup, template engine, formats, guards, settings, AI, OG cards | none, or one row | read, or one statement | little | rendering |

`PROJECT.json` lists each with its sources and what has been done about it.

Interaction: an entry, category or page save ends in `maybeAutoRebuild`
(entries.go 552/600/629/804, categories.go 60/322/362/381, pages.go
442/497/532), which runs a build on the same request; `rebuildPost` runs one on
a click. A build reads the database in several reads, so what it stages may be
of several versions. Flat-page administration decides which roots a build may
meet: `PageAdmin` shows that nesting needs a race, and `PagePromotion` what two
and three roots on one path then lead to. `setupGate` looks at the same `users`
table the accounts screen edits: losing the last administrator re-opens `/setup`.

## Modules

| Module | Models | State ↔ code |
|---|---|---|
| `PublishedSite` | what a visitor of the static site may count on | abstract: version of the database, version each part shows, version it showed last |
| `StaticRebuild` | `Rebuilder.Run`, `rebuild.Build`, `promoteStaging`, the handlers that start them; the mapping to `PublishedSite` (`Visible`) | `db` the committed database; `lock` the mutexes held; `pc`, `plan`, `rest`, `cur`, `held`, `oldRoots`, `outcome` the local variables of a build; `live`, `manifest`, `litter` the output directory |
| `MCStaticRebuild` | instances | |
| `StaticRebuild_proofs` | theorems about `StaticRebuild` | |
| `PagePromotion`, `PagePromotion_proofs`, `MCPagePromotion` | nested page roots and the manifest in one output directory | `tree`, `staging`, `backup` directory trees as functions from paths to files |
| `ContentParameters` | the constants of the content modules that follow, and what is assumed of them | |
| `Entries`, `Entries_proofs` | saves of entries by the form and by MCP, deletion, preview cards, the tag screen | `status`, `tags`, `entryTags` the tables; `cards` the files; `save` the local variables of a request |
| `Categories` | category and entry forms, deletion, sidebar, full names, permalinks | `cat`, `category` the tables; `form` what each browser shows or the request handling it |
| `Responses` | comments, moderation, limit and trust, likes and stamps | `comments`, `reactions`, `count` the tables and counters; `visit` the local variables of a request |
| `PageAdmin`, `PageAdmin_proofs` | concurrent page saves | `rows` the `pages` table; `req` the handlers' local variables |
| `Templates` | template screens, assets, packages | `template`, `asset` the tables; `disk` the files; `job` the local variables of a request |
| `Images` | uploads by form and MCP, deletion, renaming, alt texts, the gallery | `picture` the table; `disk` the tree below `ImageDir`; `task` the local variables of a request; `dispatched` the announcements |
| `Links` | the blogroll: saves, deletion, reordering, admin lists, sidebar block | `link` the table; `saving` the local variables of a save |
| `Content_proofs` | theorems about `Responses`, `Templates`, `Images`, `Categories` and `Links` | |
| `MCContent` | instances of the seven, one of them in focus at a time | `focus` |
| `Accounts` | login, limiter, users screen, profile | `users`, `sessions`, `failures` the tables; `req` the handlers' local variables |
| `Webhooks` | the webhook screens, `Service.Dispatch`, `DispatchOne`, `deliverOne` | `hook`, `log` the tables; `screen` what a request has read; `sender` what a delivery is at |
| `Administration_proofs` | theorems about the two | |
| `MCAccounts`, `MCAdministration` | instances of the two, one of them in focus at a time | `focus` |
| `Install` | `/setup` and `seed` | `admin`, `weblog`, `templates`, `categories`, `entries` the tables; `lock` each process's `setupMu`; `run` the statement each run of `Seed` is at |
| `McpAccess` | minting, lookup and revocation of tokens, the scope gate, write tools with author and audit line, over HTTP and stdio | `credential`, `operators`, `audit` the tables; `call` the local variables of a request; `written` what the tools did |
| `CodeGrants` | what an authorization server owes its apps | abstract: whom each code was issued to, what it is by now, the tokens given |
| `OAuthProxy` | `cmd/mcp-oauth-proxy` in front of `McpAccess`, which it extends; the mapping to `CodeGrants` (`Life`) | `code`, `access` the stores in memory; `form` an open PIN page; `visit` a request to `/token` or `/mcp`; `environment` what the process was started with |
| `Setup_proofs` | theorems about the three | |
| `MCSetup` | instances of the three, one of them in focus at a time | `focus` |
| `Reading` | the public queries as operators over a database, readers that page through lists, `reindex`, saves beside them | `db` the tables; `walk` a reader; `reindex` the command |
| `Snapshot` | what `rebuild.Build` writes down of the pages `Reading` describes | `build` the local variables; `shelf` the files |
| `Importer` | `serenebach import` and the redirects of old addresses | `site` the tables; `cached` the columns the server read; `mount` its base path; `cards` files |
| `Reading_proofs` | theorems about the three | |
| `MCReading` | instances of the three | `focus` |

`StaticRebuild` and `Snapshot` both look at a build: the first at when and how
what was staged is promoted, whatever it is, the second at what is staged,
whenever it is promoted. Neither repeats the other.

Actions have the names of the functions they model; the statements of one
function that another request can separate are actions of their own. An operator
under a comment "Bug: ..." is a mutated form of the definition that follows it,
used by no specification: each property is known to fail for one of them.

### Abstractions

- **Versions.** `StaticRebuild` does not know bytes. A unit (subtree, top-level
  file, page root) holds the version of the database that the rows decisive for
  its own content were read at; sidebars and other surroundings are ignored.
  The top-level files come from several reads and get the oldest one (`envVer`).
- **Failures.** A failing call ends in the error path the code has for it.
  `os.RemoveAll` that fails half-way counts as not started; a staging directory
  that cannot be removed is litter. A failed read in `maybeAutoRebuild` has the
  effect of a switch that is off. A browser that goes away cancels the
  request's context, so failures in the middle of a handler are ordinary.
- **Pages.** Page roots are flat in `StaticRebuild` and nested in
  `PagePromotion`, which in turn has one build at a time.
- **Accounts.** A name stands for the account it belongs to, a password for the
  number of its changes, the two roles that may not manage users are one. The
  limiter is modelled while its store answers (it lets everything through on a
  store error). The acting administrator may have lost the role meanwhile.
- **Content.** Text, dates, sort orders and pins of entries and templates are
  left out, and of a category form what is neither parent, slug nor the hidden flag. A statement
  of an entry save fails when the client hangs up, for its context is the
  request's; failing statements are left out of `Categories` and `Responses`.
  The AUTOINCREMENT counters are kept: ids that come back are a bug form.
  In `Entries` a request that owes the webhook of a publication is in `owing`, and
  one that had read "published" when another took the entry back is in `outrun`.
  `Descendants`, `Listed` and `Fullname` compute the fixed point or the capped
  walk of the code's loops level by level.
- **Images.** A file is named after the upload that made it, for its random name
  never repeats (`writeNewFile` opens with `O_EXCL`). Size and dimensions are checked
  before anything is written. A failing call of the disk or the database is a
  slip, of which `MaxFaults` bounds the number; the errors that DeleteFiles
  drops leave any part of the files.
- **Links.** A row has kind, group, place and the hidden flag. A list is put in
  order from a page that may be older than the table.
- **Reading.** An entry has a state, a day, a slug, a category, tags, the pin
  and the noindex flag; titles and bodies are what the search index holds,
  taken as one token. The queries are operators of the database, so that a
  build can ask some of them of a copy it read before.
- **Importer.** The old site is a record of its tables; a column that is not a
  number is `Garbled`. Character sets, dates and markup are left out. The import is
  one transaction; the cards a markdown import draws are files after it.
- **MCP.** What a tool writes is a row with an author; what becomes of an entry
  is `Entries`'. A random token is the row it hashes to, and an app of the proxy
  stands for its PKCE verifier. Time passes by actions that expire a code or a token.
- **Webhooks.** Of a subscription the switch and the secret are kept; the URL,
  the events and the format are written like the secret but from the form
  alone. What the receiver answers is not told apart, for the code records it
  and does nothing else with it (there is no retry). Rows are ordered by their
  ids, which stand for the time they were made. Ids of webhooks and rows are
  AUTOINCREMENT counters.
- **Install.** A row is known by the run that inserted it. The kill of a process
  with several requests is a `Fail` of each.
- **History variables** (`pub`, `touched`, `tracked`, `raced`, `acct` and `pw`
  of a session, `made`, `lost`, `untidy`, `want`, `overtaken`, `written`, `late`, `owing`, `outrun`,
  `adrift`, `arranged`, `drifted`) record what the properties speak of and guard no action.

## Runs

| Run | Instance | Shows |
|---|---|---|
| `rebuild_server` | 2 requests of one server, 2 subtrees, 3 files, 1 page, 1 save, 2 faults, 1 kill | builds are serialised; nothing is lost; a finished promotion is complete; parts never go back in time (also as an implementation of `PublishedSite`); undisturbed builds withdraw unpublished pages and leave no hidden directory |
| `rebuild_hosts` | 2 requests of one server and 1 process beside it, 1 file, 1 page, 1 save, fair | whatever saves a running build makes the server skip, and whatever builds of the two processes take from each other, the site keeps reaching what the database says |
| `rebuild_torn` (violated) | as the server, 1 fault | "leave the previous snapshot intact" does not hold across units |
| `rebuild_orphan` (violated) | as the server, 1 fault | a page promoted by a failed build and then unpublished is served for ever |
| `pages_nested` | pages `/a`, `/a/b`, `/a/b/c`, `/o/p` with at most two on one path, operator directories `/o`, `/o/s` and, inside a page, `/a/s`, 3 builds, 1 fault or kill | pages served; what goes is stale, what is outside stays |
| `pages_chain` (violated) | `/a`, `/a/b`, `/a/b/c` together | putting back `/a/b` after `/a/b/c` wipes the latter |
| `content` | 2 requests on each table family in turn, see the focuses below | tags, announcements and cards of entries; the category tree and its links; counters, limit and trust; the active template, edits and assets; page slugs: each holds, or is lost only by the race its property names |
| `administration` | see the focuses below | the last administrator goes only by a race; sessions and limiter; webhook settings, and the log of their deliveries |
| `accounts_admins` (violated) | 2 requests, 2 accounts | two administrators remove each other |
| `setup` | see the focuses below | one founder, told the truth; only granted scopes write, and each write is in the audit log or was cut short; codes and tokens of the proxy, which implements `CodeGrants` |
| `reading` | see the focuses below | readers reach every entry they may see, and no other; the static pages agree with the routes and link to each other; the index; imports and the addresses they leave |
| `reading_home` (violated) | same | the static home page shows entries of a hidden category |

**The focuses of `content`.** The modules share no table but the rows of
`entries`, of which each keeps other columns, so a behaviour exercises one of
them and the others rest. Each focus narrows the inputs to what its question
needs; all have two requests.

| Focus | Bounds | Question |
|---|---|---|
| `tags` | 1 entry, 2 names, 2 tags, 3 requests by MCP; renaming and deletion of tags | what an entry carries in the end |
| `publish` | 2 entries, 1 name, 3 requests by form and MCP, clients that hang up, deletion | announcements, preview cards |
| `tree` | 2 categories, no slugs, two forms open | cycles |
| `menu` | 3 categories of which the first may be hidden, one form open, names of at most 2 parents | sidebar and full names over any tree, dead and hidden parents included |
| `links` | 2 categories, the slugs `s` and `2`, two forms | permalinks |
| `posts` | 1 category, 2 entries, two forms | dead categories |
| `comments` | 2 comments of one email, every mode, deletion | counter, trust |
| `flood` | 3 comments without email, a limit of 1 | the limit |
| `reactions` | 2 browsers, the like and a stamp, deletion | counters |
| `design` | 2 templates, edits of the first | the active template, edits |
| `assets` | 2 templates, 1 file name, 1 failure or kill | rows and files |
| `pages` | 2 rows, `/a`, `/a/b`, `/a/b/c` | slugs |
| `pictures` | 2 uploads, the first an author's, 1 slip or death, pages of 1 | rows and files, alt texts, the gallery |
| `blogroll` | 3 rows of which the first is a group, 2 saves of one link or 1 save, reorderings of 2 rows | lists, sidebar, order |

**The focuses of `administration`**, whose parts share no table:

| Focus | Bounds | Question |
|---|---|---|
| `accounts` | 2 requests, 2 accounts, 2 tokens, 1 password change, limit 1 | administrators, sessions, limiter |
| `settings` | 1 webhook, 1 secret or none, two screens | what edits and toggles leave behind |
| `log` | 2 webhooks, 2 goroutines or CGI requests, 3 rows of the log of which 1 is kept, 1 kill or failing statement, one screen | retention, outcomes |

**The focuses of `setup`**:

| Focus | Bounds | Question |
|---|---|---|
| `install` | 2 requests of one server, 1 of another process, 1 `seed`, 2 names, 1 failure or kill | founder, answers, samples |
| `mcp` | 2 agents, 2 authors, 1 token, 2 writes, 1 failing statement or lost client | use against revocation, the audit log |
| `proxy` | 2 apps, 2 redirects, 2 codes, 2 access tokens, 2 starts (the second with a PIN), a sweep above 1 token, 1 expiry | the exchange, what is forwarded |

**The focuses of `reading`**, over every database of 3 entries (a walk may see
a fourth appear) of the shapes named in `MCReading`, pages of 2:

| Focus | Bounds | Question |
|---|---|---|
| `walk` | plain, filed and pinned entries, 1 save between two pages | every entry is reached, neighbours mirror each other |
| `build` | the same with a slug, a draft and a closed entry, 1 save between two reads of the build | static pages and routes |
| `links` | entries of one day, slugs that are words and numbers | what the written pages link to |
| `search` | a reindex that may be cut short, 1 save | the index |
| `import` | sites of 2 categories, 3 entries, 3 comments, in layers of settings; 2 directories of markdown; 2 imports, 1 move | faithful copies, old addresses |

**Why the bounds are enough to be interesting.** A build meets at most one other
writer at a time in every hazard listed; two requests give every pair of
interleaved steps, one save separates "before" and "after", and two faults reach
the error path of an error path. Three builds are what a page needs to be
promoted, unpublished and pruned; two roots on one path are what a race of the
page screens can produce, three are what `pages_chain` is about. Two accounts
are the least in which administrators can remove each other, and an id is left
for a row created later. Requests, tokens and names that differ in their name
only are declared symmetric, in runs of safety properties only.

**Fairness.** Only `rebuild_hosts` needs it. Weak fairness of a request's own
steps is the Go scheduler running a runnable goroutine; weak fairness of the
click is the cron job or `task build-site` that the help pages (docs/help/en/11-rebuild-publishing.md:68)
and docs/deployment.md:300 recommend. Nobody has to save anything, no lock
has to be fair, and a request that finds the mutex taken gives up, as it does in
the code. Faults and kills are excluded there: after a fault the site catches
up with the next build, which the safety properties describe.

**Deadlock** is checked everywhere except in `setup`, `content`, `administration` and
`reading`, where requests, rows, tokens and saves are used up.

## Proofs

All proofs are by induction on the steps of the specification, for any number of
requests, processes, units, rows and so on, from the assumptions named in the
modules. Every property of a passing run is stated by a theorem, except those
under "Only model-checked". Each bullet names a theorem and what the invariant
that proves it adds to the property.

`StaticRebuild_proofs`

- `TypeCorrect`.
- `SerialisedPerHost`: a request that builds and has a mutex holds its own
  host's (`LockInv`), and `Start` needs every holder of the host gone. It
  needs no assumption on the commands, which are hosts of their own.
- `NothingIsLost`: with CGI, i.e. without any mutual exclusion. A build only has
  set aside what it is about to put back (`StagedInv`), and what was never placed
  is not up (`PublishedInv`).
- `ServerNeverOlder`: with one host (`OneHost`). What a running build has read
  lies between what is published and the database (`FreshInv`), for which mutual
  exclusion is needed; under CGI it is false, see below.
- `ServerPromotesClean`: with one host. What a loop of `promoteStaging` has
  visited is in place, what the swap at hand moves is where the swap expects it,
  and of the files that switches control those that are off are gone
  (`LoopInv`, `HeldInv`).
- `ServerIsPublishedSite`: with one host, `Spec` implements `PublishedSite` under
  the mapping `Visible`, which shows a part as it was while a swap has it between
  its two renames, and `Floor`, the last version it showed. Initial states map
  to initial states; each action is one step of `PublishedSite` or a stutter
  (`SiteInv` gathers what the steps need).

`PageAdmin_proofs`

- `PagesTypeCorrect`; `SlugsAreUnique` (ids are below the counter, the index decides
  the rest); `ConflictsAreRaces`: while no two requests overlapped, one request at
  most is between validation and write, and what it validated still holds
  (`AloneInv`).

`PagePromotion_proofs`

- `PromotionTypeCorrect`: the type and the shape of the trees. The live output is
  closed under parents because each rename puts a subtree below a directory that
  is there (`Shape`).
- `OnlyStaleGoes`: with no call cut short, every file below a page root is of this
  build or of a root of the last one that the build has not got to (`FilesInv`).
- `PagesAreServed`: a root already promoted has its file in the tree, or in the
  backup of the one root above it, from where `restore` puts it back
  (`ServeInv`). Its hypothesis `NoChains` says that no three published roots lie
  on one path: validatePageSlug stores no two, `PageAdmin` shows that a race may,
  and the run `pages_chain` that three would break the property. The theorem is
  about two and fewer, which the run `pages_nested` instantiates.

`Entries_proofs`

- `EntriesTypeCorrect`; `TagsAreThoseSaved` (what a request or an entry has resolved still
  means the same tag, `TagsInv`, because ids do not come back; a live entry has
  join rows exactly for what it was given, `JoinInv`); `PublicationsAreAnnounced`
  (a request owes a webhook from the statement that takes the row to published
  until it has sent it; while a request that has read "published" is about to
  write, the row is still published or gone, or somebody has taken it back and
  outrun the request, `PubInv`); `CardsGoWithEntries` (a request at an
  entry that is gone was there when it went, `CardInv`).

`Administration_proofs`, of `Accounts` and `Webhooks`

- `TypeCorrect`; `SessionsNameTheirAccounts` (an id is never given twice, so a
  stale session row has no account to stand for); `PasswordChangeEndsSessions`;
  `AdminsAreLostOnlyByRaces` (a request about to take a role away has read that
  another administrator is there, and nobody wrote a role since);
  `LimiterOvershootBounded` (a cardinality argument over the attempts in flight).
- `WebhooksTypeCorrect`; `SettingsAreAsked`: what a subscription is asked to be and
  what it is change in the same statement, unless that statement writes back a
  row that is no longer the one it read (`ScreensInv`).
- `LogIsComplete`: an attempt has no row only when as many newer rows as the
  retention are there, and there are more rows than the retention only while a
  sender is at the subscription or since one was cut short (`LogInv`). That one
  pruning restores the bound is a fact about the newest elements of a finite set.
- `AdministrationRunsTheParts`, and from it `AdministrationTypeCorrect`: what
  `MCAdministration` runs is behaviours of `Accounts` and of `Webhooks`.

`Setup_proofs`, of `Install`, `McpAccess` and `OAuthProxy`

- `InstallTypeCorrect` with the mutex invariant `LockInv`; `OneRunFounds` and
  `LoginWorksWithinAProcess` from `ClaimInv` (whoever is past the administrator
  found one, and inside the mutex no other request of the process can have
  inserted it); `SuccessMeansRenderable` from `RenderInv` (what a run has passed
  is there, whoever wrote it); `SerialRunsFurnishOnce` from `AloneInv` (what a
  lone run is about to insert is not there).
- `McpTypeCorrect`; `WritesAreGranted`: an admitted call carries the scope and the
  author of its token, which never change, and was admitted before the token was
  revoked (`CallInv`); what an update finds is a row that a `create_entry` made
  under its own number, so its author is the one who made it (`WriteInv`).
- `AuditIsFaithful`: of each kind of write there are as many as lines and calls
  that still owe theirs, together or more, and the difference is lapses
  (`AuditInv`); every step is one of three kinds: nothing that counts, a write by
  a call that then owes a line, a call that pays or lapses.
- `ProxyTypeCorrect`; `GrantsAreSingle`: a code leaves the store before anything is
  given for it, together with the only request that took it (`VisitOk`), and an
  access token names such a code and its app (`AccessesOk`).
- `ProxyKeepsPromises`: under the mapping `Life` the proxy implements `CodeGrants`.
  A code is a "code" while it is fresh and in the store or in hand (`InHand`), and a
  "token" while a stored, fresh token names it. Taking it from the store is a
  stutter (`TakenInHand`), `HandleToken` the one exchange (`TokenGiven`),
  and a refusal, an expiry, a sweep and a start end what they end
  (`EndedIf`). A code never is both, because no token has been given for
  one that is stored or in hand (`UnusedYet`).
- `EndpointBehindProxy`: the proxy is, to the endpoint, one of its clients
  (`ProxyIsClient`): the two together implement `McpSpec`, so writes are granted
  and audited behind the proxy too.
- `SetupRunsTheParts`: what `MCSetup` runs is behaviours of `Install` and of
  the proxy with its endpoint, so all of the above hold of it.

`Content_proofs`, of `Responses`, `Templates`, `Images`, `Categories` and `Links`

- `ResponsesTypeCorrect`; `CountersAgree`: the tables are finite, and an id names one
  comment, so a step changes a counter by what it adds to or takes from the set
  that is counted (`CountInv`).
- `CommentGate`: the requests past the limit are among the clients, and a request
  let through in moderated mode has an email that is known for ever (`GateInv`).
- `TemplatesTypeCorrect`; `DesignIsSound`: ids are not given twice (`IdsOk`); one
  template is active, or none since a deletion hit the active one (`ActiveInv`);
  an asset that nothing disturbed has at most one request at it, which knows which of
  row and file are there (`AssetsInv`).
- `EditsAreKept`: an edit that no other one has overtaken holds the row as it is,
  but for the field it brings (`EditsInv`).
- `ImagesTypeCorrect`; `PicturesAreKept`: a file is held by one row, or by one request
  in flight, or was left behind by a slip, which leaves two at most (`OwnInv`,
  `LooseInv`); that every picture is on exactly one page of the gallery is a fact
  about the ranks of a finite set of ids.
- `CategoriesTypeCorrect`; `TreeIsKept`: of any set of rows one has its parent
  elsewhere (`Forest`), from which it follows that no walk over parents comes
  back. A form that nothing has outdated knows a set of rows, closed under
  children, that has its own row and neither its parent nor anything it offers
  (`Keeps`): so the parent it saves is not below it, whatever was moved elsewhere
  meanwhile.
- `CategoriesAreReached`: the sidebar goes down from the roots over the categories that
  are visible and have entries; the full name goes up from the row over the map
  it is given; both stop after `MaxDepth` levels. With the map of a build they
  agree on every table, cyclic ones included, because the k-th row of the walk
  up is reached k levels down, and conversely. The map of a served page holds
  its own category only, so there the walk up ends at once (`NameStays`).
- `LinksTypeCorrect`; `BlogrollHolds`: the parent of a row is a group unless a late
  save wrote the row (`LinkRowInv`), for which a save that is not late must still name a group
  and the kind of a row must never change (`LinkSaveInv`). `PlaceInv` is the
  order itself, with the rows it orders still there.
- `ContentRunsTheParts`, and from it `TypeCorrect`: what `MCContent` runs is
  behaviours of each of the seven modules, so the theorems about them, here, in
  `Entries_proofs` and in `PageAdmin_proofs`, hold of it.

`Reading_proofs`, of `Reading`, `Snapshot` and `Importer`

- `ReadingTypeCorrect`; `SearchIsTrue`: the rows of the index are of entries that are
  there, and a row is missing only where the reindex at work will yet write it,
  since it was cut short, or where it was written while the entry was new (`SearchInv`).
- `ReadersReach`: the place of an entry in a list is the number of entries before it.
  While nothing left the list and nothing changed places, places only grow, so
  what was before the page at hand has been seen (`PagerOk`), and the last page
  ends behind the last place (`WalkOk`). Neighbours are next to each other in a
  strict total order, whose ranks are what `Ranking` is about.
- `SnapshotTypeCorrect`; `SnapshotIsFaithful`: two tables that agree on what is
  published, on its categories and its tags answer every public query alike
  (`Agree`), and a build beside which nobody saved holds such a copy (`ReadInv`);
  what it has written so far is what the routes answer (`PagesInv`, `ListsInv`),
  and what it links to is an entry it has read, or a list it has written or will
  (`LinkInv`). The build runs beside the saves of `Reading`: `SnapshotSpec`
  implies `ReadingSpec` but for a walk, which rests.
- `ImporterTypeCorrect`, from the shape of the tables (`TablesInv`), and
  `ImportIsFaithful`, from `ImporterAlways`: what an import inserts gets numbers
  that no row has, one each, because rows are numbered by their ranks in an order
  (`ByNumber`, `CatCopies`); a copied category is below the copy of its parent from the same
  run (`TreeOk`), a copied entry in the copy of its category until a file is
  imported over it (`FiledOk`), and no two comments are copies of one
  (`MessagesOk`), so that a judgement moves the counter and the set it counts
  by the same (`CountsOk`). Every step is one of few kinds: it adds copies, edits
  a column or two, or takes a row with its comments.
- `OldAddressesLand`: a row with an old id has the save name of that entry, and no
  two rows have one slug (`LandOk`). The rest is about the operators: what
  each form of an old address asks for, and that a row's address leads to that row.
- `ReadingRunsTheParts`, and from it `TypeCorrect`: what `MCReading` runs is
  behaviours of each of the three modules, over any of the databases they allow.

**Assumptions.** Bounds are natural numbers and sets of requests are finite where
something is counted; ids are positive numbers. The others say what the code
guarantees: `RateLimit`, 3 in comments.go:32, and `MaxDepth`, 16 in content/site.go:137,
are at least 1, `HostOf` gives every
request its process, seeds and requests are different runs; the ids of an old site
count from 0, its parents are numbers or garbage, and the files of a directory
have one of the three states that front matter is read as. `MCReading` has an old site
to look at and the base path `/` among those it may be mounted at. TLC evaluates all of them on the instances of the runs.

**Induction over data.** The libraries' induction principles take an operator as a
parameter, which the installed provers cannot instantiate. Where a proof needs
one (levels of the category walks, pages of a list) it takes the least number
for which the claim fails, by a lemma on non-empty sets of natural numbers
(`LeastNumber`), and refutes it.

**The runs and the parts.** `Setup_proofs`, `Administration_proofs`, `Content_proofs` and
`Reading_proofs` extend the MC modules: a run follows one
part at a time within bounds, so its specification implies that of each
part (the theorems `...RunsTheParts`), and the invariants proved of a part hold in the run on
every instance, not only on the one TLC explores.

**Only model-checked:** the liveness property `EventuallyCurrent` (fairness is out
of the prover's reach).

## Disagreements between the code and what is said of it

Five are shown by runs and listed in `PROJECT.json` as findings: `rebuild_torn`,
`rebuild_orphan`, `pages_chain`, `accounts_admins`, `reading_home`. Without a run
of their own, but in the reach of the modules named in front:

- `PageAdmin`: two page saves that validate together store `/a` and `/a/b`,
  which validatePageSlug is there to refuse (comment at pages.go:240-242);
- `Categories`: two open forms make two categories each other's parent, which
  content/site.go:132-135 says categoryUpdate forbids: it compares the parent
  with the row itself only;
- `Categories`: the sidebar starts at categories without a parent, so used
  categories under an unused, hidden or deleted parent are not listed;
- `Categories`: `{category_fullname}` is the "full name with parent chain"
  (docs/help/en/06-templates.md:272, comment at content/site.go:100-112). A
  served category page looks parents up among the categories of its own entries
  (public/list.go:43, 169-176), so it never shows one; the page a build writes
  does, as far as the parents have entries (`RouteDropsParents`);
- `Entries`: a publication by the MCP tools sends no webhook, though
  `entry.published` is documented for the transition itself;
- `Entries`: a save that read a published entry and writes after another save
  made it a draft publishes it as `entry.updated` (entries.go:586, 601-606), and
  two saves that both read the draft announce it twice, where
  docs/help/en/14-webhooks.md:17 ties `entry.published` to the transition;
- `Entries`: tags that fail are logged, and the form answers that it has saved;
- `Templates`: a template activated between the two statements of its deletion
  is deleted, and no active one is left;
- `Templates`: a rename and a save that overlap take each other's change back;
- `Links`: a save that looked its group up before the group was deleted stores
  the id of a row that is gone. The list of the admin leaves such a link out as a
  member, no group shows it, and the sidebar skips it, although DeleteLink says
  members "survive as ungrouped root-level rows" (links.go:139-142);
- `Install`: a second process that proposes the same name is told the site is
  ready and sends its user to a login that refuses the typed password;
- `Categories`: a slug made of digits is taken for an id by the category route
  (public/assets.go:110), so the link of one category may show another; the
  same goes for entries;
- `Snapshot`: the static feeds and `llms.txt` include entries of hidden categories
  (rebuild.go:1029, 1055), and the static `llms.txt` has no limit where the
  route has 500; the static sidebar has no links block; the page of an entry in
  a hidden category links a category page that is not written, and so do
  `/profile/` links;
- `Reading`: the public search leaves out drafts and entries of hidden categories, which the
  admin's search box and `search_entries` find (docs/help/en/17-search.md:9:
  "the three surfaces always agree on what matches");
- `Importer`: comments of Serene Bach 2 are inserted as approved without
  `comments_count` (domain.go:437), so counters trail and may go below zero;
- `Importer`: redirects of the static addresses never fire when `SB_BASE_PATH` is
  the base of the old site, for the prefix is stripped first (main.go:194); and
  the columns are read when the server starts, so it has to be restarted;
- `McpAccess`: an audit line that cannot be written is only logged, and a tool
  whose tags fail returns before it writes one (docs/architecture.md:200: "Every
  write operation lands in an audit log"); the tokens of a deleted author keep
  working;
- `McpAccess`: update_entry and publish_entry keep the author of the row, where
  mcp/server.go:36 and tools_write.go:22 speak of the token's author;
- `Images`: `upload_image` announces no image to the webhooks.

Met while reading:

- docs/importing-legacy-sb.md: the default of `log_path` is said to be empty and is
  `log/`; tags are said to be made from SB3 keywords and none are; `/sb.cgi` is
  said to be free on a fresh install and is always mounted (app.go:323);
- a category of Serene Bach 2 that is not a number becomes category 0;
- expired authorization codes of the proxy are never swept, only refused;

- an attempt whose payload is too large is logged but prunes nothing
  (docs/architecture.md:213: the dispatcher prunes past 200);
- the page of deliveries lists 50 attempts (docs/help/en/14-webhooks.md:139 says
  200);
- a killed build leaves `.sb-build-*` and `.sb-backup-*` behind for ever, where
  rebuild_test.go:834-836 expects none;
- under CGI two clicks build at once (docs/deployment.md:294 describes the mutex
  of the server), and the later to finish wins whatever it read;
- an emptied stylesheet leaves the old `style.css` in place (comment at
  rebuild.go:338-339; promoteTopLevelFiles skips what was not staged);
- an operator's directory inside a page root goes with the backup of the root
  (comment at rebuild.go:1258-1260);
- a profile saved from a stale form restores the role it was loaded with
  (profile.go: "The existing row's role stays put");
- without an administrator `/setup` opens again (docs/deployment.md:273: "returns
  404 for the rest of the install's life");
- two seeds past the administrator leave two active templates
  (migrations/0003_templates.sql:10: "only one per wid expected");
- a seed that died after the administrator is completed by a seed of the same
  name only; another name is told "skipping" and exits with success.

## Not modelled

Rendering and parsing (the template engine, entry formats, the text of feeds) are functions of
one request and have no state to interleave; of the pages only which entries
they show and what they link is modelled. Guards of single requests (CSRF,
origin, Turnstile, address checks of webhooks) are predicates. Settings and custom
tags are single-statement writes where the last one wins. AI calls store
nothing but the alt text (`Images`) and an audit line. A kill between the deletion of
an entry's row and that of its card (entries.go:699) leaves the card.
`create_entry` and `update_entry` of MCP store any `category_id`
(tools_write.go:84, 433), beside the forms that `Categories` is about. Analytics counts hits and
deletes old ones; a backup is one statement of SQLite and a zip. SQLite, goose and
the file system are used as given: a statement, a transaction and a rename are
atomic.

## Plan

1. Analytics: the clean-up every so many records; the custom slugs, pins and
   bulk actions of entries; what the reading tools of MCP answer, against
   `Reading`.
2. Bounded checks of the pure algorithms that carry decisions: slug
   normalisation, CIDR matching, the ruby and inline markup of entries.
