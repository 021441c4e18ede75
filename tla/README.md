# Verification of google-cli-common

google-cli-common is the library that Google command-line tools (`gro` and its
siblings) are built on: it stores one OAuth token per profile in the system
keyring, moves what earlier releases left behind into it, builds authenticated
API clients, and implements the commands. Here are TLA+ modules of its core,
TLC configurations that check them on small instances, and theorems that TLAPS
proves for every instance: about the token migration, the accounts, a whole
invocation, the relocation of the config directory, the drive cache, the API
client, and the mail commands: drafts and how they are read back, bulk changes
and downloads.

    tlc -config <run>.cfg <module>.tla      # the table under "Runs" pairs them
    tlapm LegacyMigration_proofs.tla        # likewise the other *_proofs.tla

`PROJECT.json` maps each definition to the source lines it stands for, and lists
components, runs, the slip of the code that each property detects, hazards,
findings and theorems.

## 1. Inventory

The CLI is a short-lived process. What makes it hard is that several processes
share the keyring and a few files **without any lock**, that each may be killed
between two system calls, and that an earlier release's leftovers may be found
at any time. Only the API client is concurrent within one process.

| Component | State | Operations | Hard behaviour | What makes it correct |
|---|---|---|---|---|
| `keychain`: store | keyring entries, one `oauth_token` per ref | Open (migrating), OpenRef, OpenForIngress; Token, SetToken, DeleteToken | the ref is resolved on every open | writes go to the ref that was announced |
| `keychain`: token migration | legacy keychain / secret-tool items, `token.json` files | discover, plan, SetBundle, deleters, SaveConfig | no lock, deletes after the write, torn deletes, failing reads | no token lost, no self-made conflict, it ends |
| `keychain`: file migrations | `credentials.json`, client JSON, `config.json`, `config.yml` | install the client JSON, promote the config | truncate-then-fill writes, look-then-act | client JSON and settings survive |
| `keychain`: token source | the current access token, a mutex | Token | goroutines refresh at once; persisting may fail | each rotation written once, in order |
| `migrationsink`, `output`, `rootutil` | the recorded notice | Record, Take, flush | taken before it is written; many ways to end | shown exactly once |
| `config` | two config directories, two formats each | LoadConfig, LoadConfigForRuntime, SaveConfig, detector and copier of the relocation | every command decides anew which file counts | settings never change unnoticed |
| `initcmd` | – | obtain a client JSON; gate, describe, check, verify, re-authenticate, store, record | minutes pass between steps; a wizard with retries | acts on the profile it named, ends with a usable token |
| `profilescmd`, `setcred`, `configcmd` | – | `profiles use`, `profiles list --check`, `set-credential`, `config clear [--all]` | run beside the above | a switch sticks; a probe touches only its profile; a clear leaves nothing |
| `auth` | the ref and token a client captured | GetHTTPClient, the refresh persister | persists long after it read | a refresh only updates |
| `identitycache` | one file for all profiles | Load, Put | read-modify-write of the whole | shows accounts a profile has held |
| `cache`, `refreshcmd` | the list of shared drives, caches of earlier releases | carry, read, fill page by page, clear | carry cut short or done twice; drives change under the paging | a served list is true of the account; a carry replaces nothing newer |
| `gmail`: client | label cache, RWMutex | FetchLabels, GetLabelID, InvalidateLabels | the lock is held across an API call | fresh cache, no deadlock |
| `bulk`, `mailcmd`: bulk commands | – | resolve ids, ModifyMessages in chunks | a chunk fails, an answer is lost, mail arrives | only what was asked for; how far it got is known |
| `mailcmd`: attachments, `zip` | the output directory | list, name, fetch, save, unpack | equal names, names that look made up, sizes that lie | every reported file is there, whole; limits hold |
| `gmail`: drafts, `mailcmd`: draft | – | `mail draft` | many flags, some derived from a malformed source | threaded and addressed right |
| `mailcmd`: quoted replies | – | elide quoted history | lines and trees of any shape | nothing the author wrote is cut |
| `calendar`, `contacts`, `drive`, `people` | – | API calls | RSVP is read-modify-write | – |

How they interact: every command applies the overrides (`rootutil`), loads the
settings (`config`), opens the store (`keychain`, which first runs both file
migrations and then the token migration, recording a notice in `migrationsink`
that `output` or `rootutil` shows at the end), and gets an HTTP client (`auth`)
whose token source writes back to the keyring. `gmail` and the other clients
send their calls through it. `init`, `set-credential`, `profiles use` and
`config clear` write the settings and the keyring directly; `config clear --all`
also removes the directories that `cache` uses.

## 2. Modules

### TokenCustody, LegacyMigration, LegacyMigration_proofs

`TokenCustody` is the promise of the token migration: each legacy place holds
its token until it is *released*, which happens one place at a time, after the
keyring has taken the token in, and only if the places agreed.

`LegacyMigration` is `keychain/migrate.go` per I/O step. A process goes through
`Prelude` (load settings, open the keyring), `ReadSource` (one place of
`discoverLegacyTokens`), one of the plans of `planMigration` (`PlanNothing`,
`PlanConflict`, `PlanCleanup`, `PlanStore`), `Store` (SetBundle), the deleters
(`Zero` and `Delete` are the two steps of `secureDelete`) and `Save`; then it
uses the store (`SetToken`, `DeleteToken`, `Close`). `Abort` is an I/O error or a
kill at any step. `mode` is how the store was opened: migrating, `--overwrite`,
or without the migration. The refinement mapping to `TokenCustody` reads
`held` off the places that still hold what they held at the start.

### FileMigration, Invocation, Invocation_proofs

`FileMigration` is the two file migrations inside Open, and the loads and saves
around them: the settings loaded first are saved last when a token was migrated.
`Truncate` and `Fill` are the two halves of `os.WriteFile`; `SaveConfig` is temp
file plus rename, hence one step. The old and the new directory are one here
(Linux). `Invocation` composes it with what surrounds it in one run of the CLI:
`Record` puts the notice into the sink where the token is stored, `WriteJSON`
(`output.JSON`) or `Flush` (the deferred `FlushMigrationNotice`) takes it out;
between the two Opens of `init` comes `ensureCredentials` (`Ensure`, `Offer`,
`Check`, `ImportTruncate`, `ImportFill`): a file named on the command line, the
one that is there, one of a sibling CLI, or the wizard's attempts. A process may
fail in every step and be killed anywhere; its memory, the sink included, goes
with it. Two failures are not errors to the code: a `credentials.json` that
cannot be read is nothing to migrate (`CredentialsUnread`), and a target that
cannot be read is one that is missing (`TargetUnread`; `unread` remembers that a
usable one was taken for missing). `oneFile`: the user's `oauth_client_path` is
`credentials.json`.

### Relocation, Relocation_proofs

The old and the new config directory of macOS and Windows, with four files
each: `Kind` is `detectRelocation`, `Load` is `LoadConfigForRuntime`, `Gate` and
`CopyFile` are init's gate and `ApplyConfigRelocation`, and the commands that
save or remove settings follow. One command at a time, killed anywhere. `wanted`
remembers what the user chose; `SaveBlindly` is the init that cannot read the
settings when it records the scopes and saves empty ones, which `upset` remembers
until the next full clear.

### Accounts, Accounts_proofs

Several profiles, processes and accounts: init step by step from the migration
to the recorded scopes, `profiles use`, `profiles list --check`,
`set-credential`, `config clear` and any API command with its refresh. Each step
that opens the store resolves the ref anew, as the code does, and may find the
settings or the keyring not answering: some steps then end the command, others go
on with less (`DescribeFails`, `HasTokenFails`, `CheckScopesFails`, and `LoadFails`,
after which init saves empty settings). The migration is one step here. A token is
alive or not and lets in to some scopes: of those that a login asks for the user
may grant fewer, and init records them all. A *setup* says which commands each
process may run, which scopes this CLI requests, what a login may yield and which
tokens there may be at the start; one run of TLC starts from several. `upset`
remembers that an init could not read the settings it then saved, or that a switch
came between its reading and its saving.

### DriveCache, DriveCache_proofs

`Probe` to `Rmdir` are `New` with `migrateLegacyCacheDir`, one step per system
call; `Read` is GetDrives, `Page` a round of the loop in ListSharedDrives, `Store`
SetDrives (temp file plus rename, dated when it is written), `Clear` the command's,
`Reset` and `ResetLegacy` the cache part of `config clear --all`. `open` holds the
processes whose `os.WriteFile` has the present `drives.json` open: what a late
writer writes goes into the file that it opened, which may since have been
replaced. Drives come and go (`Change`), the clock ticks.

### ApiClient, ApiClient_proofs

One `*gmail.Client` used by several goroutines. `Token`, `Refresh`, `Persist` are
`PersistentTokenSource.Token` under its mutex; `Peek`, `Peeked`, `Recheck`,
`Fill`, `Release` are the double-checked locking of `FetchLabels`; `Resolve` is
the lookup under a second read lock; `Invalidate`, `Clear` are
`InvalidateLabels`. Every API call asks for a token, also the one FetchLabels
makes with the label lock held. The labels are abstracted to the version of the
account's label set they were listed from, access tokens to their order. The
token cache that oauth2 keeps in front of the source is left out; it only
spares calls.

### BulkModify, BulkModify_proofs, Attachments, Selection, MailCommands, MailCommands_proofs

`BulkModify` is a bulk command from the command line (`command`) through
`ResolveLabel`, `ResolveIDs` (arguments, stdin or a search, exactly one) and
`Send`, one chunk of `ModifyMessages`, to its end, and the same command line
`Again`. `SendFails` may or may not have changed the chunk: an answer can be lost
after the change was made. `Arrive` and `Move` are the world outside.

`Attachments` is `mail attachments download`: the tree of parts and the paths
through it, the choice of names, the saving, and `zip.Extract` with what an
entry declares and what it holds kept apart. A file name is a base, the suffixes
made up for it, and an extension; names are told apart as they are, files by the
path that `Clean` gives a name (`./a.pdf` is `a.pdf`) and `Join` an entry of an
archive. An archive named `.zip` is unpacked into the output directory, over what
is there. `UnpackStops` and `CopyStops` are the ways an entry ends the extraction:
before its file is made, and after, with any part of it copied. The walk of `extractAttachments` is a recursive
function over `Parts`, the parts that messages are made of. `Selection` is what
the loops that filter a slice return, here and in `MailDraft`. `Height` says how
deeply parts are nested; no action uses it.

`MailCommands` composes them with `MailDraft`: an invocation is one of the three,
and they share nothing but the account.

### PlainReply, QuotedReply, MailDraft, Reading

`PlainReply` and `QuotedReply` have the two elision algorithms as operators, for
plain and for HTML bodies. A line is one of the classes the code tells apart
(blank, quote, attribution or a part of one, history marker, header, forward
banner, other text); an HTML body is its parse tree with tags reduced to what
the code asks of them, and a flag for "the tokenizer found the tags balanced".
What the code does by recursion on the tree goes level by level here, as
functions on the numbers up to `Deep`, the nesting at which golang.org/x/net/html
gives up: `Levels` are the nodes of each level, `Descent` the kids of the last
meaningful node of each, which is the way `terminalHTMLQuote` goes. It stops at
the first level that ends in a quote (`Min(TerminalHTMLQuote(kids))`), and `CutAt`
puts the cut level back into those above. A body that is deeper does not parse
(`Parses`): it is shown whole, and quoted as escaped text.

`MailDraft` is `mail draft` from the flags to the stored draft (`Problems` is every
refusal before any I/O; `Derive` is `deriveReplyDefaults` with the quoting;
`BuildFails` is `buildMIME`), followed by `mail read` of the draft or of its
source (`Read`). Addresses are values with a lower-case form; header
syntax, markdown and MIME encoding are reduced to succeeding, failing or
holding a line break.

`Reading` has the properties of what is read, on `MailCommands`. `ReadBack` joins
the two sides: what one writes as a quote the other recognises. It says exactly
what is shown, the user's text, a blank at most, and the mark, and names what
makes it otherwise: a forward banner, tags that do not match or nest too deeply,
and `ClientMarks`, at which a body may be cut: a line that is a history marker, a
client's divider, or an attribution element, which goes with the quote when it
comes right before it.

## 3. Runs

The MC module gives the constants their values; each `.cfg` names the instance.

| Run | Module | States | Shows |
|---|---|---|---|
| `migration_safety` | MCLegacyMigration | 1.6 M | no token is lost: two processes, every mode, failing reads, torn deletes |
| `migration_commands` | MCLegacyMigration | 89 k | an Open that succeeds leaves nothing behind; no step makes later runs fail; a fresh token is not rolled back; `TokenCustody` is implemented; repeated runs end with the legacy gone |
| `migration_torn` | MCLegacyMigration | violation | finding 1 |
| `files` | MCInvocation | 1.5 M | with two faults, failing reads among them, a usable client JSON and the settings survive the file migrations and init's import; the notice is shown exactly once; `credentials.json` goes unless both client JSONs are unusable, and `config.json` goes or lies unread beside `config.yml` |
| `relocation` | MCRelocation | 1.4 M | all files in both directories, every command, one crash: settings never switch silently (but after an init that could not read them), a full clear resets, a relocation that is not cut short takes the client JSON along |
| `relocation_crash` | MCRelocation | violation | finding 2 |
| `accounts` | MCAccounts | 2.0 M | with overrides and with probes, three processes: each touches only its own profile, the identity cache names only accounts a profile has held, a switch sticks but for what `upset` remembers; every command, one at a time, for two lists of requested scopes: what init has verified lets in, a refresh only updates, legacy tokens go to the configured profile |
| `accounts_switch` | MCAccounts | violation | finding 3 |
| `client` | MCApiClient | 351 k | two goroutines, two refreshes, one label change: every rotation persisted once and in order; fresh cache; one listing; every call returns |
| `cache` | MCDriveCache | 2.4 M | two processes: a served list is young and true of the account, New leaves no old cache, nothing older takes the place of a list, a reset holds, the paging ends |
| `mail` | MCMailCommands | 1.7 M | 95,634 command lines and messages of `mail draft`; bulk commands over every source of ids; downloads of trees of parts with equal names or paths, and archives at each limit, with each way an extraction ends |
| `mail_attribution` | MCMailCommands | violation | finding 4 |

**Bounds.** Two processes are the smallest number that interleave; no step of
the migration tells more than one other process from several, and the theorems
hold for any number. One keyring item and one file are one place of each kind
of deletion; two tokens are enough to disagree, one issued token is a fresh one.
`MaxFaults`, `MaxCrashes` bound failures: two let a recovery fail as well. In
`files` two client JSONs and two settings tell what was there from what came
instead, and two attempts of the wizard are a first one and a last. In
`accounts` two profiles and two accounts let a token land in the wrong
profile or be of the wrong account; the third process only switches or lists.
A token lets in to all, to all but the profile or to nothing, or is dead.
In `cache` two drives on pages of one make a listing of two pages, between which
one drive comes or goes; with a TTL of 0 and a clock of one day, a list is fresh
or expired, and one fault or kill is met by a second process that carries the
same cache. In
`client` two refreshes are needed for a late writer to undo a newer token, one
change for a listing to be stale. In `mail` three messages in chunks of two make
a full chunk and a rest, pages of two leave one for the second run, and three
attachments with nine names (one another's made-up name, one the path of
another, one below an archive's directory, `.zip`) and a fourth let names and paths
collide in each way, before and after an archive is unpacked; archives are at each
limit and one past it. Bodies are all sequences of up to
four fragments (a header block is one fragment) and all trees of up to two nodes
with two children each, plus those of three small nodes and of one more level:
an attribution spans at most three lines and the descent looks at one level at
a time. `Deep` is 4, and one body (`TooDeep`) nests one level deeper than the
parser goes. `CHECK_DEADLOCK FALSE` is set only where a command ends for good.

**Fairness.** `migration_commands`, `files`: a process that has started runs on
(the code has no wait between its steps but for init's wizard, where the user
answers or leaves) and commands keep being run; faults are bounded, so a run
without one comes. Nothing is assumed about users' `SetToken`
or `DeleteToken`. `client`: a goroutine that can go on does, and an API call
returns; taking a lock is strongly fair, because `sync.Mutex` hands over to a
waiter that has starved and `sync.RWMutex` lets waiting readers in between two
writers. No run assumes that a call succeeds.

## 4. Proofs

Each theorem holds for every value of the constants that satisfies the named
assumptions of its module, which TLC evaluates in every run of that module, and
under no others than those stated here.

### LegacyMigration_proofs

For any set of processes, places and tokens, any modes and any number of faults.
The places have an order in which every non-empty set has a first
(`RankAssumption`), the two kinds of place are disjoint, and `Absent` and `Zeros`
are not tokens.

* `TypeCorrect`: `TypeOK`, and with it `Planned`: a process about to call
  SetBundle has found something, all of it equal. Without it the value it stores
  would have no type.
* `TokensKept` (`NoTokenLost`). Not inductive by itself: a deleter acts on what
  planning read, maybe long before. `LossInv` adds `Genuine` (a legacy place, and
  what a process read of it, is the original, zeros or nothing) and `Banked`
  (what is in the keyring is in the vault, and so is the original of every place
  that a process is about to delete or has seen as zeros). A place changes only
  in `Zero` and `Delete`, and there `Banked` is what is needed.
* `MigratedWhenOpen` (`OpenMeansMigrated`): assumes that reads of legacy places do
  not fail (`ReadFaults = FALSE`); without this it is false (see 5). `SweptInv`
  adds `Swept`: the places a process has left behind are empty. They stay so
  whatever the others do, since nothing fills a legacy place (`EmptyStays`).
* `FreshKept` (`FreshTokenKept`): assumes that no process runs in the overwrite
  mode, which `NoForce` carries along. SetBundle refuses an occupied keyring,
  however stale the plan.
* `CustodyImplemented` (`ImplementsCustody`): again with `ReadFaults = FALSE`, so
  that planning has seen every place. Initial states map to initial states
  and each step to one of `TokenCustody` or a stutter. `CustodyInv` joins
  `LossInv` and `SweptInv` with `Agreed` (once a place was touched, or a process
  carries a value, the originals agree) and `ZerosTrace` (zeros are seen only
  where an original was overwritten, and that place never shows it again).

* `NeverWedged` (`NoWedge`): assumes that reads do not fail, that no run is killed
  between an overwrite and its remove (`TornDelete = FALSE`, else finding 1), and
  that no command skips the migration, which could store a token beside a
  legacy one. Overwriting and stale migrations are not excluded. `WedgeInv` adds
  to `LossInv`, `SweptInv` and `ZerosTrace` that zeros are seen only in a place
  some process is about to remove (`Guarded`). Then no step makes a conflict: a
  deletion leaves fewer places to disagree (`DeletionsKept` says which steps start
  or end one), and what a late SetBundle stores is what the places it has not yet
  deleted still hold.

### ApiClient_proofs

For any set of goroutines and any bounds on refreshes and changes.

* `TypeCorrect` (`TypeOK`): with the types, who holds the mutex, who waits for the
  label lock and who has it, and at which steps. All the others rest on it: a
  lock with one holder is what makes the rest inductive.
* `RotationIsPersisted` (`RotationPersisted`): no call is sent with a token that
  was not handed to the persister, and each is handed over once. `TokenInv` adds
  `Ahead` (only the mutex's holder, between refresh and write, may have a token
  newer than the current one) and `HandedOver` (every token up to the current
  one was handed over, no later one).
* `NeverStoredBack` (`StoredForward`): the keyring only moves to newer tokens,
  from `Ahead`.
* `CacheIsFresh` (`CacheFresh`) and `ListedOnlyOnce` (`ListedOnce`): `CacheInv` adds
  `Listing` (a listing under way finds the cache empty, and its answer is no
  older than the changes that InvalidateLabels has followed, which waits for
  it) and `Recent` (nobody has seen labels yet to come; what is loaded is recent).

### Invocation_proofs

For any client JSONs and settings, any number of faults and attempts.

* `NoticeShownOnce` (`NoticeOnce`), for any number of processes. `NoticeInv` adds
  `Tried` (the wizard has an attempt left when it asks, the store is open only
  while it is asked for) and `Pending`: before the end nothing is shown; then the
  recorded notice is still in the sink, or shown.
* `SettingsAreKept` (`SettingsKept`), for one process (`Alone`); with two it is
  false (see 5). `CarryInv` adds `Carried`: the settings are in `config.yml` or
  still in `config.json`, a process that has loaded them carries them, and
  removes `config.json` only once they are saved.
* `ClientIsKept` (`ClientKept`), for one process and two files. `CustodyInv` adds
  `Safe` (the two files hold nothing usable but what they held; a usable target
  that could be read stays, and `credentials.json` stays until the target is
  usable), `Moving` (what the migration carries is what `credentials.json` still
  holds, and it is written only over a target that is unusable or could not be
  read) and `Installing` (init installs a file nobody named only where there is
  no usable one).

### Relocation_proofs

For any settings that users have written, any refs and commands and any number
of crashes; one command at a time, as in the module.

* `NeverSwitched` (`NoSilentSwitch`). `Opened`: what a process has loaded and will
  save are the settings in force. `Copying`: as long as config files are copied,
  those not yet copied are absent, and the old directory has the settings in
  force; a `config.json` that arrives before its `config.yml` makes a conflict or
  means the same. `Clearing`: what the reset has removed is gone. Nothing is said
  of the settings in force while `upset` holds.
* `ClearedForGood` (`ClearResets`), from `Clearing`.
* `ClientCarried` (`RelocationCarries`). `Carrying`: behind the config files the
  settings in force are the old directory's, so the client JSON is looked for
  where the old one's path points.

### Accounts_proofs

For any processes, profiles, accounts and commands. `AccountsInv` is one
invariant for all six theorems.

* `TargetsKept` (`ActsOnTarget`) and `AddressesEarned` (`IdentityEarned`) assume
  `SteadySetups`: one process runs commands, or every init has an override.
  Without it the first is false (`accounts_switch`); the four setups of the run
  `accounts` meet it. They rest on `Fixed` (from the announcement to the end,
  the ref an init would resolve is the announced one, but after it has saved
  settings that it could not read) and `Earned` (a profile
  has held the token it has, the address in the identity cache, and what a
  process has read and is about to write there).
* `SuccessIsUsable` (`InitMeansUsable`) and `RefreshOnlyUpdates`
  (`RefreshUpdates`), for a process on its own: `Undisturbed` says that what it has
  seen of the keyring is still so, and what it has verified still lets in.
* `SwitchSticks` (`UseSticks`), for any number of processes: `Kept` says that, as
  long as nothing is `upset`, the last switch stands and every init about to save
  has loaded the ref that is there.
* `LegacyGoesHome` (`LegacyHome`): `Program` says at which steps which command can
  be, and that one under an override never comes to the migration.

### DriveCache_proofs

For any processes, drives, page sizes and TTL, any number of faults and kills.

* `NothingLeftBehind` (`CarriedOnce`), whoever else carries or resets. `InTurn`: a
  process deals with the old caches in turn; `Behind`: behind one whose steps have
  not failed nothing is left. This stays so because no step puts an old cache
  back (`NoneComesBack`).
* `ListIsKept` (`ListStays`), one command at a time (`Single`). `Ordered`: no list is
  from the future, the one that is there when a process asks for another is
  older than its question, and there is none while it carries.
* `ResetStands` (`ResetHolds`), one command at a time, where there is one place
  for an old cache. `StaysAway`: after the reset there is nothing to serve and
  nothing to carry.
* `CacheServesTrue` (`ServedTrue`), with any number of commands at a time.
  `Listing`: a refresh knows the drives up to its token, the cached file all of
  them (`Knows`). A page keeps this by `NextPage`: it has every drive between its
  token and the next one, which rests on a page's drives having a greatest
  element (`Extremes`, from the well-foundedness of the naturals). A drive that
  comes or goes during the paging does so after the refresh began to ask.
* `PagesAdvance` (`PagingAdvances`), by `NextPage`.

### BulkModify_proofs

For any finite mailbox, positive chunk and page and any command lines
(`BulkConstants`), of BulkModify's own specification.

* `ChunksTouched` (`TouchedPrefix`). `Progress`: what a run has changed are the
  chunks it is through with, and at most one more when it has failed.
* `AskedOnly` (`OnlyAsked`). `Asked`: a run that has ids has them from its only
  source, and a label or category that exists.
* `PageByPage` (`Drains`). `Shrinks`: while nobody else changes the mailbox, what is
  left to match is what was listed less what has been changed, and the ids are
  as many of it as fit a page, all different.

### MailCommands_proofs

For any command lines, messages and archives that have the types of
`DraftConstants`, `BulkConstants` and `Limits`.

* `BulkChunks`, `BulkAsked`, `BulkPages` (`BulkTouchedPrefix`, `BulkOnlyAsked`,
  `BulkDrains`): each step of MailCommands is one of BulkModify or leaves its
  variables alone, so that the theorems above carry over (`SameBulk` identifies
  the two instances).
* `UnpackingBounded` (`DownloadBounded`). `UnzipInv`: while an archive is unpacked,
  the bytes of its files are no more than were counted, the files no more than the
  entries passed; once that has ended, the same holds of all but the file at which
  it ended (`EndsWithin`). A file that replaces one of its name adds to the count
  and not to the bytes, hence "no more" (`BytesGrow`).
* `DownloadsWhole` (`DownloadIntact`). `NamesInv`: no more names are taken than
  attachments were named, and a taken name that is some attachment's own is had
  by an attachment whose own it is. Hence a suffix is always found in the range
  in which `Suffix` looks (`SuffixFree`, by counting), and no made-up name is ever
  another attachment's. `ReportsInv`: each report has a name to itself, and the
  attachment that is being saved has one no report has. `DiskInv`: the directory has
  the data of every report that is `Undisturbed`, and what is unpacked is a reported
  archive, so that its entries are among those `Undisturbed` looks at. That each attachment has a path of its own that leads
  back to its part is `ListingLeadsBack`, by induction on `Height`, which `Limits`
  has grow with the nesting of parts: a message is a finite tree. tlapm has no
  induction for a formula, so `Induction` and `StrongInduction` state it for a set of
  numbers, from the well-foundedness of the naturals; `Stepwise` and `ListedUpTo`
  show by it that the recursive functions `current` and `extract` (and
  FlattenSeq's) exist, and `Extracted`, `OneFurther`, `FlattenKeeps` what they do.
* `DraftAsAsked` (`DraftFaithful`) and `CopiedOnce` (`EveryoneOnce`). `DraftInv`: from
  `Compose` on the draft is what the flags say (`Composed`), from `Derive` on it is
  `Complete`, and a stored one has passed the guard. `FilterSelfKeeps` says what
  the filter loop returns: one address of each spelling class, none of the
  user's. `ReferencesKept` shows when a chain has the Message-Id twice:
  `BuildReferences` looks at the last entry only, so that a chain with the
  source's id further up gets it again. The property excludes such chains, and
  the run has one.
* `PlainElision`, for every plain body: what is elided is the end of it;
  eliding once more changes nothing (`NoCutLeft`: what precedes the first cut has no
  cut of its own); a body that ends with text below the quote is kept whole,
  unless it has a history marker.

* `ElidedSafely` (`ElisionSafe`), for every body: lines, or a tree of nodes of any
  depth. For a tree it compares the leaves of what is shown with those of the
  body, in their order (`Content`). `ForestShown` says that at each depth the
  opening of the cut forest is a front of that of the whole, and the mark: so at
  the level that is cut (`CutOneLevel`: a front, the mark, and blanks), and then,
  upwards, at each level that holds it (`AroundShown`), since nothing meaningful
  stands behind the node that the descent goes into. It rests on `OpeningApart`
  (side by side, forests open apart) and `OpeningFurther`. `HTMLBottom`: a body
  that ends with text at its top has no quote on the way down.
* `ReadsBack` (`ReadBack`), for every text and source. `ReadInv`, beside `DraftInv`:
  the source of a reply is kept as fetched, a draft's body is what was composed
  with the source quoted below (`WholeBody`), and what is shown is the elision of
  a body. `ReplyCut`: in a plain reply whose text has no history marker the only
  cut is at the attribution that `mail draft` wrote. One in the user's text is
  followed by that line, which is no quote, and one that the text leaves open
  does not reach it, past the blank line between. `ReplyBlockCut`:
  an HTML reply ends at its top in the block that quotes the source, which has
  content (`BlockHasContent`).

  Both need that the recursive functions of the model exist (`OpeningLevels`,
  `DescentLevels`, `CutLevels`, `LevelsAre`), again by `Induction`.

### Only model-checked

Liveness (`Converges`, `FilesSettle`, `EveryCallReturns`): fairness and ENABLED are
beyond the prover. Every invariant and action property that a passing run checks
has a theorem.

## 5. Findings and known limits

Findings, each with a run that TLC ends with a counterexample:

1. `migration_torn`: a run killed between secureDelete's overwrite and its remove
   leaves NUL bytes that every later run reports as a conflict.
2. `relocation_crash`: init killed after copying the config file never copies the
   client JSON; the next run sees two equal directories.
3. `accounts_switch`: `profiles use` between init's announcement and its write
   sends the new token to the other profile.
4. `mail_attribution`: a line of the author's that begins with "On", right above
   "On ... wrote:", is elided with the quote.

Known limits: what the models also show, on instances that no run keeps.

* Two processes and the settings: one looks for `config.yml` before and for
  `config.json` after the other has promoted it, loads the defaults and, if it
  migrates a token, saves them. `SettingsKept` holds with one process at a time.
* Two processes and the client JSON: one truncates the installed file and is
  killed after the other removed `credentials.json`. Without a crash two
  processes keep it.
* A usable client JSON at `oauth_client_path` that cannot be read counts as
  missing: a valid `credentials.json` is installed over it. If
  `oauth_client_path` names `credentials.json` itself, the migration removes the
  only copy, and the one that init then installs as well.
* A run killed between saving `config.yml` and removing `config.json`, or a start
  with both, leaves `config.json` for ever; nothing reads it again.
* A legacy place that cannot be read counts as empty, so an Open may succeed
  with a legacy token left; hence `ReadFaults = FALSE` for `OpenMeansMigrated`.
* After a relocation the old directory stays; once init has recorded scopes the
  two differ, and the gate refuses every later init. A runtime command before
  the first init may create the new directory, so that nothing is relocated.
* In a conflict `LoadConfig` does not try `config.json` in the new directory.
* `recordIdentity` and the recording of scopes resolve or load anew: a switch of
  the active profile in between records an address under the wrong profile, or
  is itself undone (`upset`). `IdentityEarned` is checked where no command without
  an override races a switch.
* If init cannot read the settings when it comes to record the scopes, it saves
  empty ones: the active profile is the default one again, and init goes on to
  verify that one's token (also `upset`).
* If the keyring does not answer when init names its target, it names the
  configured ref, whatever the override; `ActsOnTarget` speaks of targets that the
  store has named.
* `granted_scopes` is one field for all profiles, and holds what was requested:
  init notices a scope that the user did not grant only if it is Gmail's or the
  profile's. A token that lets in elsewhere but not to Gmail ends every init with
  an error, and none of them offers a new login.
* The refresh persister writes unconditionally: a token cleared meanwhile is
  stored again.
* `set-credential` under the environment override, and `init --profile` that
  names the configured profile, skip the migration and store a token beside a
  legacy one: the next command reports a conflict.
* After `profiles use work` the next init moves the default account's legacy
  token to `work`.
* A carry of an old drive cache in one process may overwrite a list that another
  has just fetched (the reader then takes it for a miss), and a refresh in
  flight while another process clears re-creates the cache. `ListStays` and
  `ResetHolds` are checked for commands run one at a time. The cache is one for
  all profiles and accounts. A list is dated when it is written, so it may be
  served for the TTL plus the time that its listing took.
* `config clear --all` removes two of the three directories a cache may be in:
  on macOS and Windows an old one beside the old settings is carried back by the
  next command (the comment at `cache/cache.go:70` counts on this command).
* The notice says "legacy original removed" before anything is removed, and also
  if the removal fails. It is lost with an answer that cannot be written, and
  with a kill.
* init takes a client JSON that is there for granted, even a truncated one: only
  `--credentials-file` repairs it. With an unusable `credentials.json` beside an
  unusable client JSON every command stops at the migration error, also `init
  --credentials-file`.
* A bulk command over a query that its change does not make smaller (`mail
  markread` of everything from a sender) lists the same first page again: only
  `Drains`' commands get through by repetition. `categorize` adds the category
  and removes the others in one call.
* Downloads overwrite files of the same name that were there before. Two names
  that clean to one path (`a.pdf` and `./a.pdf`), or differ only in case where the
  file system does not tell case, are one file, and the later one stays. An
  archive named `.zip` is unpacked over the attachments, `a.zip` and `a.ZIP` into one
  directory. `Intact` exempts a report only if another name that was given, or an
  entry of an archive, has its very path. A partial extraction stays, and so does
  a file one byte over the limit if it cannot be removed. An attachment with neither a name
  nor a body cannot be saved.
* `GetLabelID` may say "not found" of an existing label when `InvalidateLabels`
  falls between its fetch and its lookup.
* `--reply-all` may list the sender in To and, if they were copied, in Cc.
* A body with several Zimbra dividers on one level is cut at the last of them.
* A draft whose answer was lost is stored; running the command again makes two.
* A reply to a message whose References hold its own Message-Id, but not at the
  end, lists that id twice.

## 6. Not modelled

Path resolution per operating system; keyring backends (the keyring is a value
per ref that can be written, refused or fail); parsing and printing; the choice
of a body among a message's parts; the browser consent (a choice of account);
`chmod` failing after a file was written; deletion of messages while a bulk
command runs; the answer to an invitation (`calendar`: one read and one write, a
lost update between two attendees is the service's to refuse); `people`, `drive`,
`contacts` and the commands that print the result of one call; generated
constants and error wording.
`PROJECT.json` says so for each component.

## 7. Plan

Done, in order of importance: the token migration and its proofs; the file
migrations, composed with the notice and init's import, and their proofs; the
relocation with its proofs; the accounts with the probes of `profiles list
--check`, and their proofs; the API client and the drive cache with theirs;
drafts, bulk commands, downloads and quotes with theirs.

Next:

1. **Rsvp**: the attendee list read, changed and written by two clients.
2. **Bodies** (`gmail/messages.go`): which part of a tree is shown, against a
   reference definition.
3. The mapping of contacts and of Drive's search terms, as pure functions.

To keep the list of runs short, pure algorithms share one run, and a run whose
question another one answers is merged into it.
