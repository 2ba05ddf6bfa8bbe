# GramPacker in TLA+

GramPacker keeps packing lists for hikers: a gear library, lists that draw items
from it, bags ("packing locations") that items are packed into, a food plan, and
public read-only share links. A Node server (Hono, SQLite through Drizzle,
better-auth) serves a React client that keeps an optimistic cache (TanStack
Query). This directory holds a TLA+ model of the parts where order, concurrency
or failure decide whether the program is right, the TLC instances that check it
and the TLAPS proofs about it.

Paths below are relative to the root of the repository.

## The system's parts

The server is one process with one SQLite connection. A repository method is one
synchronous immediate transaction, so two requests interleave between
transactions and at the waits of a handler (reading a body, better-auth, the mail
provider), never inside a transaction. The client is one page per tab: a handler
runs to its next wait, and requests, their answers and the timers of the query
library come in between in any order. React runs a handler with the state of the
last render, so what a click sees may be older than what the click before it set.
Server and client share nothing but requests and answers, each of which may fail, be
late, or be lost after it took effect. The deploy script works on the server's
data directory from outside, and may stop at any step.

| part | state | operations | module |
|---|---|---|---|
| Packing cohorts: `server/repos/pack-reorder.ts`, `packing-locations.ts`, `list-items.ts`, `food.ts`, `lists.ts`, `gear-items.ts`, triggers in `migrations/0000_baseline.sql` | location and rank of every list item and food item, the item behind a bag | add, patch, move, reorder; create and delete a location; delete rows, gear, lists; create, import, duplicate a list | `PackCohorts` |
| Food plan: `server/repos/food.ts`, `src/lists/FoodView.tsx`, `FoodItemDialog.tsx` | days, meals, slots, placements; the page's copy, the day box, the editor | set the day count, create, patch, remove; read; ask before a trim | `FoodPlan`, `FoodTables` |
| Lists and share links: `server/repos/lists.ts`, `public-shares.ts`, `src/lists/PrivacyPanel.tsx`, `ListsPage.tsx` | lists, slug, flags; the page's cache and controls; what visitors were shown | create, copy, delete, flip a flag, reset the link, open a link | `Shares`, `PublicLinks` |
| Lists index and document order: `server/repos/append-sort-order.ts`, `reorder.ts`, `src/lib/use-reorderable.ts` | `sort_order`; the cached index | create, rename, copy, delete, drag | `ListsIndex` |
| Gear library: `server/repos/gear-items.ts`, `categories.ts`, `src/gear` | gear, categories; three caches, select mode | single and bulk writes, category writes, import | `Library` |
| Weights and sections: `src/lib/weight-breakdown.ts`, `grouping.ts`, `src/lists/WeightTable.tsx` | none: computed from the caches | draw the page, draw the share | `ListWeights` |
| Dialogs of the library: `src/gear/GearLibraryPage.tsx`, `GearItemDialog.tsx`, `InlineCreateCategory.tsx`, `use-gear-import-flow.tsx` | the surface that is open, saves and creates out | open, close, submit, answers | `GearDialogs` |
| Rate limiter: `server/middleware/rate-limit.ts` | one counter row per bucket | charge, peek, sweep | `RateLimit`, `MagicLink` |
| Authentication and users: `server/auth.ts`, `server/repos/users.ts`, `src/auth`, `src/settings` | users, sessions, verification rows; a parked delete | send and redeem a link, delete the account, prove who one is | `AccountDeletion`, `MagicLink`, `BrowserTabs` |
| Session guard and local pointers: `src/layout/session-cache-guard.tsx`, `src/lib/last-list-path.ts` | the documents of a browser's tabs, the last-list pointer | teardown, Back, sign-out, redirect | `BrowserTabs` |
| Session revalidation: `src/lib/session-revalidation.ts` | the check under way, whether another is owed | a 401 arrives, a timeout, an answer | `SessionCheck` |
| Optimistic cache: `src/lib/queries`, the action hooks | cached rows, writes and reads under way | every edit of a list's items; invalidate; read | `ListCache` |
| Editors and removals: `src/lib/guarded-save.ts`, `src/lists/ListDetailPage.tsx`, `ListDialogs.tsx`, `list-item-removal.ts` | the open dialog, the save out, the removal's preflight | open, type, save, discard, remove, answers | `ListEditors` |
| Inline inputs: `src/lib/use-commit-once.ts` and its five users, `InlineWeight.tsx`, `WeightInput.tsx`, `InlineQuantity.tsx` | the draft, the arbiter, the emitted value | keys, blurs, presses, renders, toggles | `InlineEdit`, `WeightEdit` |
| Pack drag and drop: `src/lists/use-list-dnd.ts`, `packing-dnd.ts`, `list-reorder-plan.ts`, `pack-rows.ts`, `packing-tree.ts` | the three caches of a page, the writes out | drops in both views, moves, delete a bag, ticks | `PackDrag`, `PackView` |
| CSV import and export: `src/lib/csv`, `src/lib/export`, the import flows | the flow's dialog, the planned request | read a file, plan, send, report, export | `CsvImport` |
| Migrations, startup, deploy: `server/db/migrate.ts`, `server/node.ts`, `deploy/grampacker-deploy` | images, data directory, rollback directories, maintenance mode | deploy, roll back, maintenance, restart, migrate | `Deploy` |
| HTTP layer, request schemas, mail, rendering, build and CI | none of their own | filtering, validating, drawing | none |

### What is hard, and what makes each part correct

- **Packing cohorts.** Gear and food of one bag live in two tables with one unique
  rank index each, but are shown as one merged order. Five writers and two trigger
  families compute ranks; worn rows keep a rank while they are hidden; bags nest;
  one DELETE cascades row by row through bags. Correct: no writer ever meets a
  unique index or the end of the rank space, no row loses its bag or its list, no
  bag is in itself, and only a reorder changes the order the user sees.
- **Food plan.** The day count fills and trims a product of days and meals under
  placements that point into it, while other devices plan meals. Correct: the grid
  is whole, a shorter trip deletes planned meals only when asked, the editor writes
  only what was touched, no late read undoes a confirmed length.
- **Lists and share links.** A slug is drawn, may collide and is retried; two clicks
  fall between two renders. Correct: a link answers exactly while its list is
  shared under that slug, and what the owner asked for happens once.
- **Gear library.** A category goes while gear is filed under it; a list that
  embeds gear is fetched while the gear changes; one id of many is gone. Correct:
  every cache comes to rest on the server's rows, a request is done whole, and the
  sections and sums drawn from two caches of different times add up.
- **Dialogs and inputs.** Answers arrive when something else is open; Enter and the
  blur it causes come for one render. Correct: an answer touches only what it
  belongs to, an edit is sent once, as typed, or not at all.
- **Rate limiter.** Buckets with windows of different length sweep each other's
  rows; three buckets are charged across waits in two libraries. Correct: bursts
  are bounded, nobody is refused without cause, junk does not drain the quota
  that everyone shares.
- **Accounts.** Links are asked for, stored and redeemed in the turns between the
  steps of a deletion; the session of a browser changes under its tabs. Correct: a
  deleted account stays deleted and is the one that was confirmed; no account's
  rows are on screen under another.
- **Optimistic cache.** Overlapping writes, reads that cross them, refusals, lost
  answers, pages that go away. Correct: what the page shows once everything has
  settled is what the server has, and a tick is not taken back by its sibling.
- **Session revalidation.** Checks that are aborted, answered before the 401 that
  asked for them, or never answered. Correct: a page of a dead session learns it,
  nobody is signed out for nothing.
- **Drag planning.** A drop is planned over the rows on the screen, whose neighbours
  may be hidden, from three caches that may disagree. Correct: what was dropped is
  what stands, the server accepts what was planned, and a failure takes back its
  own rows only.
- **CSV import.** The plan is made from rows read some time ago and one bad cell
  would have the whole file refused. Correct: what is sent is well formed, nothing
  is imported twice, and one's own export restores what is gone.
- **Deploy.** A script stops between any two steps, and the host restarts. Correct:
  no code on a schema that is not its own, no traffic while data is copied, no
  write lost for good.

## The modules

| module | models | checked in run | proofs |
|---|---|---|---|
| `PackCohorts` | packing cohorts, every writer of their columns | `pack_bags`, `pack_union`, `library` | `PackCohorts_proof` |
| `ListCache` | the cache of one list's items and the writes against it | `cache_writes`, `cache_left` | `ListCache_proof` |
| `RateLimit` | the fixed-window counters | `accounts`, `rate_quota` | `Accounts_proof` |
| `MagicLink` | asking for a sign-in link; extends `RateLimit` and implements it | `accounts` | `Accounts_proof` |
| `SessionCheck` | the coalescer of session checks and the atom it drives | `accounts` | `Accounts_proof` |
| `AccountDeletion` | deleting an account against links under way | `accounts` | `Accounts_proof` |
| `BrowserTabs` | the tabs of a browser and the accounts signed in there | `accounts` | `Accounts_proof` |
| `Deploy` | the deploy script, the container and the migrations | `accounts` | `Accounts_proof` |
| `Library` | gear, categories and the three caches of them | `library` | `Library_proof` |
| `ListWeights` | the sections, footers and summary drawn from those caches; extends `Library` | `library` | `Library_proof` |
| `GearDialogs` | the surfaces of the gear page and what answers do to them | `library` | `Library_proof` |
| `CsvImport` | both import planners, their flows, and the export | `library` | `Library_proof` |
| `Sorting` | putting a set or a sequence in order, and moving one element | with `ListsIndex`, `PackDrag` | `Sorting_proof` |
| `ListsIndex` | the order of the lists | `library` | `Lists_proof` |
| `FoodPlan` | the plan, its page and other devices | `list_page` | `ListPage_proof` |
| `FoodTables` | the tables of the Food view; extends `FoodPlan` | `list_page` | `ListPage_proof` |
| `PackDrag` | drops, moves and ticks on the list page | `list_page`, `drag_worn_bag` | `PackDrag_proof` |
| `PackView` | the sections of the Pack view; extends `PackDrag` | `list_page`, `header_mark` | `PackDrag_proof` |
| `ListDrawn` | what both views draw of one list, in one property; extends them | `list_page` | `ListPage_proof` |
| `ListEditors` | the dialogs of the list page, guarded saves, removals | `list_page`, `edit_frozen` | `ListPage_proof` |
| `InlineEdit` | the five inputs that edit a value in place | `list_page` | `ListPage_proof` |
| `WeightEdit` | the weight and the count input | `list_page` | `ListPage_proof` |
| `InlineInputs` | what both promise, in one property; extends them | `list_page` | `ListPage_proof` |
| `PublicLinks` | abstractly, what share links promise | `list_page` | |
| `Shares` | lists with their links, the owner's page, the visitors; implements `PublicLinks` | `list_page` | `Lists_proof` |

`MCPackCohorts`, `MCListCache`, `MCRateLimit`, `MCPackDrag` instantiate one module.
`MCAccounts`, `MCLibrary` and `MCListPage` instantiate several that share no state:
the variable `part` says which of them moves in a behaviour, and the others stay as
they start. So each is checked for itself, and properties of several modules share a
run. Modules that do share state are joined by EXTENDS, so that their properties
speak of one state: `MagicLink` charges the rows of `RateLimit`, `ListWeights`
draws the caches of `Library`, `PackView` those of `PackDrag`, `FoodTables` the copy
of `FoodPlan`. A proof module extends the modules that share a run, for the same reason
and to the same end.

Definitions that begin with the comment `Fault:` are plausible mistakes in the
definition that follows them (a dropped check, an off-by-one, a clock read too
early). No specification uses one; put in the place of the definition it
imitates, each makes a property fail, which shows that the property can.

### PackCohorts

A *cohort* is all rows of one list in one location (or in none: Unassigned).
`loc` and `rank` are `packing_location_id` and `pack_sort_order`, `container` is
`container_list_item_id`, `worn` is `is_worn`. One action is one repository call,
with the statements it runs: `AddItem` (`addExisting`, `quickAdd`), `AddFood`,
`UpdateItem` (patch and move, with the transitive nesting check), `UpdateFood`,
`ReorderPack` (any subset of a cohort, any ranks that pass `validateHalf`),
`CreateLocation`, `RemoveLocation` (append in display order, or number densely
when the ranks would run out), `DeleteFood`, `CreateList`, `CreateFromSelection`,
`ImportFromCsv`, `Duplicate`, `RemoveList`.

The one thing finer than a call is a DELETE of list items. SQLite deletes row by
row, and a row that backs a bag takes the bag with it by foreign key, whose
triggers re-rank its contents before the next row goes. `StartDelete` marks the
rows of the statement (`doomed`), `CascadeItem` deletes one, in any order, and
nothing else runs in between (`Idle`).

The unique indexes and the range triggers are not guards: that they are never met
is the claim. A refused call (404, 409, cap reached) changes nothing and is an action
that is not enabled. Names, quantities, packed and ready flags and the document order
of rows are left out: nothing here reads them.

### ListCache

A document maps row ids to Boolean fields; `server` and `cache` are the two
copies. A write is one of eight operations, of six kinds by what a failure rolls
back and when it invalidates. `Begin` and the action of its kind are `onMutate`:
cancel the read under way, keep a snapshot, show the effect. `Serve` is the server's
transaction (with an answer that arrives or is lost), `Refuse` a refusal or a request
that never arrived; the page cannot tell it from a lost answer (`failed`). `Settle` is
`onError` and `onSettled`: roll back, cell by cell (`ByCell`) or the whole document
(`ByWhole`), then invalidate; of updates only the last to settle does. `Elsewhere` is
another tab. `fetch` and `stale` stand for the query library: a read is asked, is
served from the rows of that moment, and arrives later; an invalidated query restarts
its read only while a page is mounted (`page.open`), and data written by hand counts as
fresh. `page.user` is what the user of a behaviour does: it stays on the page, or only
ticks but leaves and returns as it likes, or does anything and leaves.

Assumptions. The query is loaded when the page starts. Another tab writes only
while a write of this one is under way: what happens while this page rests is
not this cache's promise. A page that mounts again reads only if the rows are
marked, which is the stricter case, as it may also read when the data is old.
By the time the client sees a failure, the request has been carried out or never
will be.

### RateLimit and MagicLink

`row` is the `rate_limits` row of each bucket. `Charge` is one upsert and, when it
began a window, the sweep of rows dead for the longest rule (`Dead`). `log` records
the charges; only the properties read it. `Spent` is `peek`. The sweep of expired
verification rows rides on the same charge and is left out: those rows are dead
already.

`MagicLink` extends it: `Arrive` charges the host, the request then waits for its
body, `CheckAddress` charges the address and looks at the shared quota, `Validate`
is better-auth (external) refusing an address or storing a token, `SendMagicLink`
charges the shared quota and hands the mail over. Any number of other requests run
between two of these. `told` is the Retry-After of a refusal; `seen` remembers, for
the properties only, what the look at the quota saw.

Assumptions. The clock is not set back. A caller reads it in the turn in which it
charges, as the code does on purpose after the wait for the body. Addresses are the
keys they are normalised to.

### SessionCheck

`inFlight` and `trailing` are the module variables of `session-revalidation.ts`;
`inFlight = "turn"` is the time between the end of a wait and the continuation.
`Unauthorized` is a 401 (of a dead session, or a proxy's), `StopWaiting` the timeout,
`Continue` the continuation of `run`. `session` and `check` are better-auth's atom
(external): a new check aborts the one before, only the server's 401 ends the
session, focus starts a check of its own. `sound` is settled at the start: whether
the server answers every check.

### AccountDeletion

`AskForLink`, `StoreLink`, `ConsumeLink` and `Redeem` are the four turns of a link
from the request to the session; better-auth's are external. `AskToDelete`,
`BeforeDelete`, `DeleteUser` and `AfterDelete` are the delete-user route with its two
hooks, each purge of which may fail: the first refuses the deletion then, the second
only logs. The header names the account that was confirmed; the session may have
become another's (`AskToDelete` takes both). Addresses are folded by `lower`; stored
links hold them as typed. One browser, and one deletion at a time.

### FoodPlan and FoodTables

`plan` is the database: the slots of the grid, and of each food item the slots it is
placed in and one amount that stands for its other columns. `foodPage` is the cached
copy, `foodRead` the read in flight. The days box looks at the plan before it trims
(`Looked`) and asks if meals would go; the editor keeps what its user touched, and
`FoodItemPatch` sends the difference only. `ver` numbers the states of the plan, so
that a property can say which of two copies is the older. Other tabs and devices
write the same plan at any moment.

`FoodTables` draws `foodPage`: a table for every day, one for what is not scheduled,
and the weight of all food. A container that several meals share is split among
them, hence `Parts`, the fraction in which grams are counted. Placing food by drag
and the order of meals and of foods are left out.

### Shares and PublicLinks

`shareRows` is the lists table; `shown`, `listRead`, `listStale` the page's cache.
`Started` begins a write with the rows it will put back, `Commit` is the transaction
with its slug draws, `Settled` and `Failed` the answer. `painted` is what the page last
drew as busy: a control may be clicked again before it is drawn disabled, and then
only the mutation cache (`NotPending`) stands between one click and two requests.
A list has the number of the write that makes it, so no id is used twice. `tally` and
`meant` serve the properties only.

`PublicLinks` has the link of every list and the set of public ones, and changes one
list at a time: born private, gone, flipped, relinked. A visitor is shown the list
that has the link and is public at that moment. `Promise` maps the columns of `Shares`
on it.

### Library and ListWeights

`gear` and `cats` are the tables; `held` has the rows of three caches, the gear, the
categories and one list that embeds gear. `Begin` is `onMutate` of every write: drop the
reads of the caches it shows in (`FanOut`: a list only if it holds the gear), keep
their rows, show the effect. `LibCommit` is the transaction, `LibConfirmed` and
`LibFailed` the answer; `SettledKeys` is what is read again. `OtherDevice` deletes gear or
a category. The foreign key from gear to categories is left out, to show that the
transactions do not need it.

The user goes from page to page (`Visit`): the gear page uses the gear and the
categories, a list's page all three, other pages none (`mounted`). What settles is
invalidated: `marked` until rows come, and read at once where a page uses it
(`Invalidated`). The query library restarts no read of a cache that no page uses, nor the
first read of a cache (`Restarted`); such a read, if it was answered before the write,
lands after it (`LeftToLand`), clears the mark and is held fresh on old rows. So bulk
writes and category deletes, which are made on the gear page, may leave a list's read to
land on rows of before them. `missed` names the caches this happened to, those of which
another device changed something, and those an import without an answer leaves to the
user; only the properties read it. `CachesAgree` and `AtRest` claim nothing of them until
they are read again, and everything of the others. What the case costs is the finding
`cache_left`.

`ListWeights` computes, from `held`, the sections of a list with their footers and the
summary (`GearBreakdown`, `ListBreakdown`, `ListSections`, `SummaryOf`, after
`weight-breakdown.ts` and `grouping.ts`), and the same from the server's rows for the
share, which is told only of the categories its gear is in. Neither a section nor the
summary adds up its own rows: both come from one breakdown, and `PageAddsUp` says that
they fit whatever the two caches hold. Worn and consumable rows and the food have
buckets of their own. Rounding, units, sorting and the reuse of unchanged groups
between renders are left out; owner and share have the same food.

Where a page knows gear of a category that its other cache does not have (a delete shown
before it is confirmed, or one of two reads still out), the library draws that gear in no
section. `GearInSight` claims it of a library at rest only. A comment in
`src/lists/LibraryPanel.tsx` (83-87) calls orphaned categories unreachable because of the
foreign key; that speaks of the tables, not of the caches.

### GearDialogs

`dialog` and `flow` are the two unions of the gear page, `inline` the category editor
in the toolbar or in the form. Surfaces have identities; a save or a create remembers
the one it came from, and `Inert`, `Settles` decide what a late answer may still
touch. An answer's update may be queued when the next answer arrives (`ready`).

### PackDrag and PackView

`seen` is what the page's three caches hold, `kept` what the server does. A drop is
planned by the operators named for the functions of `packing-dnd.ts`,
`list-reorder-plan.ts` and `pack-rows.ts` over the rows on the screen; the page checks
its own payload, shows the result, and sends it. The server's checks are those of
`PackCohorts` that a page can meet. `asked` and `clean` record, for the properties, what
the drop asked for and whether another write overlapped it. `PackView` draws the sections
of the Pack view from the same caches: the tree of bags, the fallback of rows whose bag
is not drawn, the counts of the headers.

Left out: reordering bags and sections, creating and promoting bags, the filters other
than "hide packed". A request that failed is not served later. Ready checks are drawn as
Packed ones are.

### ListEditors, InlineEdit, WeightEdit

A dialog is an object with an identity; `ListEditors` has the dialog that is open, the
save out with the object it was submitted from, and a removal, which may have to look
up whether its row backs a bag (`Preflight`) in a cache that is cold, stale or being
read (`believed`, `fresh`, `lookup`; `holds` is the server's). The page makes, undoes and
renames containers (`LocalWrite`): it patches the cache at once, ends the read under way,
and removals that waited for it (`checks`) are decided by what the cache held before; a
failure puts the whole old array back (`was`). `MadeElsewhere` is another device's.

`AskedFirst` says that no container goes with its row unasked (`blind`), with two
exceptions, which `asked` and `foreign` delimit; only the properties read those two. A
container that this page itself asked to make, or to undo, may go while no read that
landed with no write of the cache out has come since: a crossing rollback may hide it. And one that
another device made may go, until such a read shows it, when the removal is decided by an
array the query library holds for current: a cache in its stale time, a read answered
before, or what an optimistic write found. The last is more than `list-item-removal.ts:40-45`
admits ("A tab holding a stale result would keep answering "not a container" after another
device promoted a row to one"): a rename of any location makes a stale array count as
fresh, and the removals that waited for a new read go by that array. No run exhibits it;
with `foreign` left out of what `LocalWrite` excuses, `list_page` does.

In `InlineEdit`, `shownField` is the state of the last render and `next` that of the
coming one: a handler reads the first and sets the second. Every value but an added row
is patched in the cache at once and put back when its write is refused, the notes too.
`WeightEdit` scales numbers down: an ounce is `OzGrams` grams, and a conversion rounds.

### CsvImport

`Files` are tables of cells by meaning (a name, a weight with its unit, a price), their rows
by line; a row that is dropped for want of a name leaves its line out. The categories of a
library are names by id, in the order of the ids. The
planners are modelled cell by cell: matching by folded name, weight and category,
prices and their columns, flags that exclude each other, limits. The request is carried
out against the rows the server has by then. `saved` is an export, read back in. A list
file with no named row, which the server refuses, is not among the files; decimals and
the cut of long names are abstracted (`TooLong` is empty in the instance).

### ListsIndex

`indexed` is the table by id, `cached` the array of the page. Every write but a copy
shows its effect in the array at once and puts the whole array back when it fails. A
reorder assigns the places its rows already have (`AssignSortOrderSlots`); a new list is
appended after the greatest (`AppendSortOrder`). Another device deletes, creates, or swaps
two lists.

The places of a reorder are those of the cache, and nothing in the database keeps two lists
from having one. `crossed` remembers, for the properties only, that a drop was planned on
places that were no longer the server's (`PlacesServed`), or that another device's reorder
overtook one that was sent. `NoTies` is claimed where neither happened. That the exception is
reached without any other device was found by the proof and not by the bound of two writes:
create a list, drag it, delete one, and drag again, all before the reads are back, and two
lists get one place. The server then shows them by name; no comment or
document of the repository says otherwise.

### BrowserTabs

A document has the account its session atom names, the accounts whose rows it holds,
and whether it is leaving; `frozen` are documents kept for Back. The cookie and the
pointer are the browser's. `parked` is a delete waiting for a proof of identity. `from` is
the account whose session answered the last read of rows, which need not be the one that the
atom names: a tab learns of a sign-in elsewhere at its next check. `PointerKept` speaks of an
account's pointer to its own list while no tab is in that gap. The
hint in local storage only chooses what is drawn while the session loads and is left
out.

### Deploy

A database is its ledger of migrations and the writes it holds; an image carries a `Journal`
of `Migration`s, and the instance has three: one, one with a migration more, and one that was
built from other files. A command is a list of
steps (`DeploySteps` and the like), any of which can be the last; the container checks the
ledger before it serves. Two operators, the CI job and a person, issue commands under
one lock. `torn` says that a rollback was cut short: only the schema check is claimed
after that. `caddy-update` and the ssh wrapper's parsing are left out.

## The runs

Most properties are conjunctions: the table names what they say.

| run | instance | shows |
|---|---|---|
| `pack_bags` | 1 list, 3 items, 2 bags, ranks 0..2 | no bag in itself, ranks in range, order kept by all but reorders |
| `pack_union` | 1 list, 2 items, 2 foods, 1 bag, ranks 0..3, and a list that stays empty | gear and food merged: indexes never met, merged order kept and arrivals last, slots of worn rows reserved |
| `cache_writes` | 1 row, 1 field, 2 writes, each of any of the eight operations; or two ticks, and the user may leave and return | `CacheInv`, `Converges`, `SiblingsCompose` |
| `accounts` | links: 3 requests, 2 hosts, 2 addresses and a junk one, shared window 3, 4 instants; deletion: 3 links, 3 accounts, link life 2, 4 instants; checks: 4 denials, 2 focus events; one tab with 4 clicks or two with 2, 2 accounts; 3 images, 3 commands, 1 outage, 1 write | `LimitsHold`, `LinkInv`, `QuotaEdge`, `RefusalsEarned` of the buckets; `DeletionInv`, `DeletionKept`; `CheckInv`, `ChecksEnd` (liveness); `LeavesRight`, `DeleteAsConfirmed` of tabs; `ServesItsSchema`, `NoWriteLost` of the site |
| `library` | 3 gear, 2 categories, cap 2, 2 writes; 3 surfaces, 2 creates; a file of 4 rows, a second import or another device; 3 lists (2 equal names), 2 writes; the packs of 2 lists with 2 items and 1 bag each | `LibraryHolds`, `PageAddsUp`, `AllOrNothing`; `DialogsKept`; `ImportTold`, `ImportsOnce`; `IndexRight`; `PackInv` |
| `list_page` | 2 foods, 2 days, 1 meal, 2 writes; 3 items (one worn), 1 food, 2 bags, 2 writes; 1 row in editors with its container, and 2 rows in removals with another device, 2 writes; 5 keys, 4 keys; 3 slugs, 2 tries, 2 writes | `PlanHolds`, `EditsAsMeant`; `DropsLand`, `QuietAgrees`, `RollbackLocal`, `NoBagInItself`, `DrawnAddsUp` (`PackDrawn` and the food's `DaysAddUp`); `EditorsSafe`; `InputsKept`; `OwnerObeyed`, `LinkPromise` (refinement) |
| `pack_list_delete` | as `pack_bags` | **violation**: a list that cannot be deleted |
| `cache_left` | 1 row, 2 fields, 2 writes (updates, moves), the user leaves | **violation**: a late read undoes a tick |
| `rate_quota` | 6 requests, 1 bucket with limit 3 and window 2, 5 instants | **violation**: a day of the provider sees two windows |
| `header_mark` | 3 items, 1 food, 2 bags, 3 writes | **violation**: "All packed" over unpacked food |
| `drag_worn_bag` | the same, the item of a bag worn, 1 write | **violation**: a bag dropped into itself |
| `edit_frozen` | 1 row, 2 saves | **violation**: a weight typed during a save is dropped |

Why these bounds are enough to be interesting. The rank spaces are as small as the
caps allow, so that every append near the end takes the dense branch; three items
and two bags are the least in which bags nest and a gear delete goes through both
(items 1 and 3 of a list are the same gear). In `cache_writes` all writes
set one and the same field, which is more interference than the page has, and the
temporary rows of inserts come on top of the one row. Buckets of `accounts` have one slot
and windows of 1 and 3, so the short ones begin windows, and sweep, inside the long
one. `SessionCheck` allows a denial in each of the states of the coalescer and one
more. A link can be stored before the first purge of a deletion, between the two and
after the second. Two writes are what it takes for one to overtake, roll back over, or
be planned on the effect of another; every part that has a write bound has at least
two (three tries of a slug are two draws and a refusal). The one item that is worn and
the bag inside a bag are in every drag instance. The files of `CsvImport` differ from
the library and from themselves only in case, and hold a price out of range, a row
without a name and flags that exclude each other. Every command of `Deploy` can stop at
each step and be followed by a command of either operator, with a restart of the host in
between; three images are one with a new migration and one built from other files.

In `library`, of the three caches only the list's refetch may fail: that keeps the
instance small, and the other two caches do not differ in the code of a failure; so do these:
no rows are asked for again because they have aged; the user goes to and from the gear page
while no read of its two caches is in flight, goes to the list when it is marked or not held,
and enters select mode while no write is in flight; a bulk move is to a category; and nothing
is ticked once the bound would let no write begin. Only the first list of the index is
renamed or copied, and in the packs only the gear both lists have first can be worn.
In `list_page`, the editors and the removals are two parts of `ListEditors`. With the editors
open there is one row, a container, and no other device: one write of it at a time is out, its
removal or the undoing of its container. With two rows and another device the editors stay
shut; only the first row's container can be undone, and only the second row can be made one,
here or elsewhere. There no removal begins while another is out, but two that waited for one
fetch begin together. The panel that resets a link and the form of a new list are open one
at a time.
Places of `PackDrag` that two writes cannot reach, above all a cycle of bags in the
cache, are not visited.

Symmetry is used where no definition orders or chooses among the permuted values
(rows and writes of `ListCache`, requests of `RateLimit`), and never with liveness.
Deadlock is not checked where the instance really ends: the clock, the requests or the
writes run out in `accounts`, `library`, `list_page`, `rate_quota` and the runs of
`PackDrag` and `ListEditors`.

### Fairness

Only `SessionCheck` states any, and `MCAccounts` restates it for its part. A timer that
was set fires and a continuation that is due runs (`WF` of `StopWaiting` and `Continue`):
the runtime of the page promises both. In `ChecksEnd`, a `sound` server answers and its
answers arrive; of an unsound one nothing is assumed, and the part of `ChecksEnd` that
says that the coalescer is never wedged holds of it too.

## What the runs found

- **A list with nested bags may be impossible to delete** (`pack_list_delete`).
  SQLite deletes the list's locations in creation order while its items are still
  there. When an outer bag goes, its trigger deletes the items in it; a nested
  location that such an item backs goes with it, but SQLite does not run the same
  trigger again inside itself, so the nested contents drift to Unassigned with their
  ranks kept. Two such rows on one rank meet
  `list_items_pack_unassigned_uq`, and the request fails. `CascadeCollides` is the
  guard of `RemoveList`, so the other properties hold of what remains.
- **A late read can undo a tick after the page is left** (`cache_left`). The
  invalidation that a settling write makes does not restart the read of a query that
  no page observes. A read that was served before the tick was written then lands
  last and is held fresh. The food view cancels its reads when it goes away for this
  very reason; the item list does not.
- **The mail quota is guarded over a window, not over the provider's day**
  (`rate_quota`). A fixed window with a limit of 90 lets 179 mails through in a
  span as long as itself, against the 100 a day that its comment speaks of. The bound
  that does hold, one short of two limits, is `BurstBound`.
- **A bag's header says "All packed" over food that is not** (`header_mark`). The header
  counts the gear of the whole subtree but the food of its own bag only, while the
  comment asks for everything inside it.
- **A bag can be dropped into itself through a worn bag** (`drag_worn_bag`). The tree that
  the exclusions are read off leaves worn items out, so what a worn bag holds is
  missing from its holder's subtree. The page shows the bag in itself and the server
  refuses the move. The other runs of `PackDrag` have no worn bag.
- **The row editor's weight field stays live while its save is out** (`edit_frozen`). Its
  other fields are disabled for that time, and `GearItemDialog.tsx` explains why: what is
  typed then is in no request, and a success closes the dialog over it.

Three smaller ones that no run states. A removal may go by an array that an optimistic write
made current, see `ListEditors` above. A comment in `food-packing.test.ts` says that only
a direct delete reaches the trigger that re-ranks food; deleting the item that backs
a bag reaches it too (`CascadeItem`), and then orders the food by its own table. And the
comment of `LibraryPanel.tsx` about orphaned categories, see `ListWeights` above.

## The proofs

All are of the specifications as TLC checks them, for every value of the constants
that satisfies the assumptions of the module. Each follows one scheme: an inductive
invariant that says why the property holds, a lemma for each action (or for the actions
that change one thing), and the temporal step last. What each invariant adds to the
property is the interesting part.

- **`PackCohorts_proof`** proves `PackInv`, and from it `CohortRanksUnique`,
  `RanksInRange` and `NestingAcyclic`. None of them is inductive alone. An append
  stays in range only because the cohorts fit the rank space (`RowCaps`, and
  `CapsAssumption`, which the code's caps of 300 and 200 against a billion satisfy)
  or because the dense branch is taken; dense numbering is injective because display
  order is total on ranks that are unique; a cascade re-ranks only what
  `ReferencesHold` says is on the same list; and a move keeps nesting acyclic because
  `ContainerAncestors` is closed under parent. `PlaceFacts` (the place of a row is
  below the number of rows, and distinct rows have distinct places),
  `AppendOrDenseFacts` and `RerankFacts` carry the arithmetic; one lemma per action
  does the rest.
  The action properties `TableOrderKept`, `PackOrderKept` and `WornSlotReserved` follow
  from that invariant: each writer keeps the rows it does not move (`OthersStay`), adds
  one past the maximum (`OneArrives`), or numbers a set in display order, which
  keeps the order in the set and puts it behind what was there.
- **`ListCache_proof`** proves `CacheInv`, then `Converges` where no user both
  leaves and does more than tick, and `SiblingsCompose` for ticks. `ReadsCurrent` is the
  strengthening: with no write under way, an answered read carries the rows as they
  are, and while a read is under way the mark is still there. That it can fail when
  the user leaves while a read overlaps a write is `cache_left`, hence `NoLateRead`.
- **`Accounts_proof`**. Of `RateLimit` it proves `RateInv`, `BurstBound`, `RefusalsEarned` and,
  in the form that the runs check, `LimitsHold`.
  `WindowsApart` is the core: windows of one bucket do not overlap, each begins with a
  charge that passed, and a swept row counted nothing that could still matter
  (which needs `MaxWindow` to be no shorter than any window). A span as long as a
  window meets at most two of them, and both in full would take the first charge of
  the first: one short of two limits. Then of `MagicLink`: it implements `RateLimit`
  (`LinksAreCharges`: a step is a charge, a tick, or a stutter), so the bounds carry over
  (`LinkBursts`, `LinkLimits`); `LinkInv`: only requests that host and address let through,
  and that can be mailed, store a token or touch the quota; and `QuotaEdge`: a token that
  nobody is sent was raced for. For the last, a request remembers between its look at the
  quota and its charge that a slot was free (`SlotSeen`), so whoever took it is in the log.
  Of the deletions, `DeletionInv` (one account an address, and the
  deletion under way stays of the account it was begun for) and from it `DeletionKept`:
  only the account that was confirmed is deleted, and no link stored when its last purge
  ran brings it back. The heart is that a purge that fails before the deletion refuses
  it, and that the second purge folds the spelling of the address as the first does.
  `CheckInv` of the session checks. And of the tabs, `LeavesRight` and `DeleteAsConfirmed`
  from `TabsInv`: whatever is true of a document must be true of the documents kept
  for Back too (`DocOk`), which is why the guard tears a restored page down; a document
  that stands has the rows of its account alone, and one delete at most.
  Of `Deploy` it proves `ServesItsSchema` and `NoWriteLost`. `DeployInv` goes through the
  scripts step by step: from the stop to the start nothing runs and nothing writes, the
  directory of a rollback holds what it was made from, an image that is set or about to be
  set can serve the database. `MigrationFits` says why a failed start can go back to the image
  before: a ledger only grows, by rows that agree.
- **`Sorting_proof`** proves no property but what three of the others rest on. Sorting is
  stated by counting (`Sorting`), so that a sorted sequence is known by what it does
  (`InOrderIs`, `SortByIs`: every element once, in the order of the keys); `ArrayMoveIs` says what
  `arrayMove` does to the places. A sum is a fold over a set in an order that is CHOSEN, so what
  is proved first is that the order does not matter: `TotalComes` (a sum is its first
  element and the sum of the rest) by a set of the least size that fails it, then
  `TotalTakes` (any element will do for the first), `TotalByGroup` (the sum over a set is the
  sum of the sums over its parts) and `TotalExchanged` (two sums change places).
- **`Library_proof`** proves `LibraryHolds` and `AllOrNothing`. `CategoriesExist` is inductive
  by itself: each transaction looks the category up again or takes the references with it,
  and nothing but a transaction touches the tables. That the caches come to rest on the
  server's rows needs `PageInv`: a cache that no write under way will ask for again and that
  missed nothing has been told (`Told`) of all there is: a read that was answered says what
  the server has, and where there is none the rows do, or are marked. `SettleTold` is where
  the reads that an invalidation leaves alone come in: they are missed by definition, and
  all other reads of the caches that settled are asked anew. What is drawn of caches at rest, and the
  agreement with the share, follow without a fold being computed, since both sides
  compute it of the same rows.
  `PageAddsUp` does compute, with the sums of `Sorting_proof`. `TableAddsUp` applies
  `TotalByGroup` to the footers of a table; that every row is in one section is `KnownCategory`, which files a row whose category the page does not know
  with those that have none. `ListInv` says that no copy of the rows has gear that is not
  on the list.
  `DialogsKept` of `GearDialogs` takes little more than itself.
  Of `CsvImport`, `ImportTold` and `ImportsOnce`, for any files, texts and libraries. `PlanAccepted` says
  that what is planned is well formed: a row that brings a category matches no gear
  (`BringerIsNew`), so every temporary id that is declared is used. `CsvInv` keeps ids below
  `nextId` and names apart by id, the page's included (`SameNames`), says that rows that are warm hold the
  gear the page was told of (`HasConfirmed`), and that an export says of its rows what it
  holds (`ExportOk`). `LandedFacts` then finds for every row the transaction writes the line
  of the file it came from, under the category that line names, however its temporary id was
  resolved. `ImportTold` is proved where no category of a file is too long
  (`TooLong = {}`), the one cell the code does not cut.
- **`Lists_proof`** proves `IndexRight`. `NoTies` and `IndexAgrees` come first (`IndexAtRest`):
  `PlacesInv` says that a reorder on its way hands out the places of its lists, each once,
  or names a list that is no more (`Rearranges`), and survives every other write while
  `crossed` is false. `DropHolds` and `OthersKeepOrder` are about sorted sequences: `PlanMade`
  says that a drag hands the rows, in the order they are dropped in, the places they have,
  rising. `IndexHeld` carries that from the drop to the server:
  copies of the index name no list twice, the placeholders of lists being made have ids that no
  copy has had before, and a reorder under way is the plan of one drag of the rows it was
  made on (`WasPlanned`).
  Of `Shares` it proves the refinement, `SharesSpec => LinkPromise`. The invariant says
  that slugs are apart, that no browser keeps an answer (`StoreInv`), and that the id of a
  list that is being made belongs to no row and to no other request (`JobsInv`): without
  the last one, a late create could overwrite a list and publish or relink it in one step.
  One lemma for each function of the repository maps it to a step of `PublicLinks`.
  `OwnerObeyed` is the owner's side: `IntentInv` (one request of a control at a time, and
  it carries what was asked last), `HeldInv` (with nothing under way a read, or the cache
  unless a read is to come, is the rows) and `CountInv` (what may still be counted was not
  counted yet).
- **`PackDrag_proof`** has the drags.
  - `QuietAgrees` from `DragInv`, which names for every row, order and bag that
    the page shows otherwise than the server holds it the write or the read that will settle
    it (`RowsOwed`, `OrderOwed`, `BagsOwed`); `RollbackLocal`; and `NoBagInItself` where no
    bag is worn (`NoWornBag`), by way of `AloneInv`: a move that no other write overlaps is
    the only write of placements there is. The hypothesis is the very exception that
    `drag_worn_bag` exhibits.
  - `DropsLand`, that what was dropped is what is shown, sent, accepted and confirmed, in four
    steps. *What a drop plans*: the slots that any planner hands out do not fall along the
    rows the drop asks for, and rise where they are dense or where the ranks were apart
    (`Plans`, `UnionPlan`, `CategoryPlan`, `DocumentPlan`); so the rows stand as they were
    dropped (`DropStands`). *What both checks look at*: a plan takes ranks that no row which
    stays in the bag has in its table (`Fits`), and that is enough for the check of the page
    (`FitsPage`) and for that of the server (`FitsServer`). *What the tables keep to*:
    `StoredInvariant` shows without any hypothesis that no writer of this model leaves a row
    in a bag that is gone or two rows of a table on one rank of a bag, so the foreign key and
    the unique indexes never have to step in. *That the page knows it*: `ReorderClean` and
    `MovesClean` say that, under a write which nothing overlaps, the page shows what the
    server has but for that write, hence the planned ranks are apart on the server too. The
    hypotheses are that no bag is worn and, for the document only, that no two rows of
    a category start with one `sort_order` (`UntiedStarts`): no index keeps them apart, and a drop
    hands out the places that the rows have. `TiesInv` shows that drops then tie none. One refusal
    stays: a bag whose ranks reach `RankCap` takes no more rows, and the page does not foresee it.
  - What is drawn of the rows takes `RanksInv` (ranks and places are numbers
    in both copies and in every write under way: without it nothing is sorted, and nothing is
    handed out twice) and the tree of bags. `AllDrawn` climbs from a bag by its parents: there
    are not enough bags to climb for ever without meeting one twice (`FS_PigeonHole`), one
    that is met twice is on a cycle (`ComesRound`), and the members of a cycle are roots. So
    every row that is not hidden has one section (`OnceWhen`), and a drop plans over the rows
    that are drawn there (`PlannedAsDrawn`).
- **`ListPage_proof`** has the rest of the list page, part by part.
  - Of the food plan, `PlanHolds` and `EditsAsMeant` from `FoodInv`: every copy of the plan
    was the plan once (`PlansInv`), no copy that may still reach the page is older than what
    the page was told (`VersionsInv`), and what the days box will trim unasked it saw to be
    empty (`BoxInv`). Of its tables, `DaysAdding`: the grams of the days are regrouped from
    meals to foods and cut in as many shares as a food has meals (`SharesWhole`), which come
    out even because `Parts` is a multiple of every number of meals there can be.
  - What both views draw, `DrawnAddsUp`: of the pack it is `PackDrawing` of `PackDrag_proof`, of
    the food `DaysAdding`.
  - Of the dialogs, `EditorsSafe`: a dialog with a save out is the frozen editor it was
    submitted from, and what a confirm would restore has none (`SavesInv`). The locations cache
    misses no container but those in `asked` or `foreign` (`KnownInv`), and neither does any
    array that a write would put back (`OutInv`); a read that has been answered misses those
    being made and another device's alone, which is why what waits for it is excused less.
  - Of the inputs, `InputsKept`: an arbiter that is used up has let an edit be closed
    (`ArbiterInv`), and the draft of a weight is what was typed meant, or an earlier text in
    its limits that a toggle rewrote (`TypedInv`).

Assumptions on constants: ids are numbers and disjoint, no two bags
are the same item (the schema has them unique), sets of rows, foods, meals, bags,
writes, requests, gear, tabs and accounts are finite; limits and windows are positive and no
window is longer than `MaxWindow`; the caps fit the rank space; there is a slug, and at
least one try; a trip is no longer than `DayCap`; the lists of an index start untied;
the rows of a pack start in bags of the list with their ranks apart, as the
foreign key and the unique indexes of `app-schema.ts` have them; an ounce is more than a gram; nothing is worn and consumable both; a file has finitely many rows, only
the empty text is empty in lower case, escaping a cell never empties it, and what an account starts
with is what the request schemas let in. `Nobody`, `NoImage`, the mark of `Unread` and the
blank values are none of the values they stand beside.

The `PackInv` that the run `library` checks is that of an instance of `PackCohorts` with two lists, which
`PackInvariant` covers.

Only model-checked: `ChecksEnd`, the liveness of the session checks. Liveness under fairness is
out of the prover's reach.

## Not modelled

- better-auth, TanStack Query, Hono and SQLite are modelled only where the code
  relies on them; passkey ceremonies, the freshness gate and cookies' attributes not at
  all, and so is the list of passkeys.
- A link request whose token is still being hashed when the second purge runs stores
  its link afterwards. `SECURITY.md` accepts that gap; `DeletionKept` speaks of
  the links that were stored by then, and of redemptions not yet begun.
- A write from another device between the look of the days box at the plan and its
  request: its day goes, and a comment in `FoodView.tsx` accepts it. `TrimAsked` speaks of
  what was planned when it looked.
- HTTP filtering that keeps no state, request schemas (the models draw their inputs from
  what they admit), mail bodies, formatting, rendering and styles, build and CI.
- A rollback cut short in its copy (`grampacker-deploy:206`) may leave no data directory,
  or half of one. The script has no answer to it; `torn` ends the claims there, but for the
  schema check.

Hazards met in the code that no property speaks of:

- A quick add reads the rows again only when it is confirmed, so an answer that is lost
  leaves the row unseen until a reload (`use-list-item-actions.ts:243`), and two updates of
  one field may reach the server in either order (`:143`).
- Ticks of food have no gate like `MayInvalidate`: settling one reads the rows while its
  sibling is out (`use-list-food.ts:77`).
- The sweep of the rate limiter is as right as its longest rule
  (`rate-limit.ts:320`; `MaxWindow` is an assumption of the model).
- A check that fails for another reason than a 401 is not repeated
  (`session-revalidation.ts:129`): the page learns of a dead session at its next request.
- The question of a removal is replaced when another is asked meanwhile
  (`ListDetailPage.tsx:510`), and the pages' selections can name rows that have gone
  (`GearLibraryPage.tsx:794`).
- Pages leave while an import is being planned (`use-gear-import-flow.tsx:84`), and the
  page that follows the deletion of a list is chosen from a cache that may be behind
  (`DesktopListsPanel.tsx:161`).
- A category name longer than the server takes is the one cell of a CSV file that is not
  cut (`parse-common.ts:92`): the file is refused.

## Where to go on

1. The statements inside a pack reorder and a location delete, with the parking of rows at
   negative ranks, shown to implement one step of `PackCohorts`.
2. One model of `PackDrag` and `PackCohorts`, in which the server's half of a drop is the
   one that is proved about.
3. Creating and promoting bags and the order of sections in `PackDrag`; placing food by
   drag in `FoodPlan`.
