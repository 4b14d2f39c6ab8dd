# Tailscale Traffic Dashboard: specification and proofs

TLA+ modules of the traffic dashboard in `src/`, TLC configurations that check
them on small instances, and theorems about them that TLAPS checks for every
value of the constants.

Contents: [the system](#the-system) · [modules](#modules) · [runs](#runs) ·
[bounds](#bounds) · [fairness](#fairness) · [proofs](#proofs) ·
[where code and documents differ](#where-code-and-documents-differ) ·
[not modelled](#what-is-not-modelled) · [plan](#plan).

## The system

Two containers on one host share `data/traffic.db` (SQLite), `data/log.db` and
`config.yaml`:

* the **collector** (`app/collector_main.py`, host network, root) runs
  `Collector.collect` in an endless loop, and, in a second thread, captures the
  metadata of DNS, TLS and HTTP packets;
* the **dashboard** (`app/main.py`, FastAPI in one process with one event
  loop) shows what the collector has written and edits the rules.

They never call each other. The collector learns of a rule by reading the
tables in its next cycle; the dashboard learns of an enforced rule by reading
the same tables. The kernel (iptables, ipset, conntrack), tailscaled and other
programs that edit iptables change things between any two steps of either.

### One cycle of the collector

`collector.py:59-86`; every line can raise, and then the cycle is cut short
and the next one starts from the top (`_loop`, `collector.py:116-131`).

| step | what it does | module |
| --- | --- | --- |
| `tailscale.peers()` | snapshot of the peers in the status | TrafficLedger, Enforcement |
| `firewall.ensure()` | chains, rules, sets, and the two jumps first in FORWARD | Firewall, ForwardJumps, TrafficLedger |
| `firewall.counters()` | dumps the counter sets, one entry after the other | TrafficLedger |
| `unresolved_addresses`, `whois` | asks tailscaled about unidentified addresses; one that fails is skipped | TrafficLedger |
| `sync_peers` | one transaction: identities, devices, presence, moving usage | TrafficLedger |
| `apply_policies` | `blocked_addresses` from the rules, `set_blocked` into the kernel | Policy, PolicyReading, Enforcement, BlockSets, Firewall |
| `record_counters` | one transaction: growth of every counter into usage rows | TrafficLedger |
| `website_collector.collect` | conntrack's flows into domains, daily cleanup; fails on its own | WebsiteFlows |

### Components

State, operations, what is hard about each, and what makes it correct.

**Traffic ledger** (`database.py`: `sync_peers`, `record_counters`,
`unresolved_addresses`). State: `identities`, `devices` (address → identity and
device id), `usage_daily`, `device_usage_daily`, `counter_state` (the baseline
of every kernel counter). Operations: bind an address to whoever tailscaled
says holds it; book a counter's growth; give a counted address without a row an
`unknown:<ip>` identity of its own. Hard: addresses are counted before they are
identified, identified by two sources, renamed, and handed to another node;
counters restart from zero when the host does; either transaction can fail.
Correct when no byte is booked twice, every byte is booked in the end, both
ledgers (per user, per device) account for the same bytes, and usage can always
be found from an address.

**Limits and access blocks** (`database.py`: `quota_rules`, `access_blocks`,
`policy_states`). Operations: set, switch, unlock and delete a limit or a
block, alone or as a bundle; `quota_state` (what the page shows) and
`blocked_addresses` (what the collector enforces) decide from them. Hard: the
verdict is written twice, in Python and in the collector's query, and depends on
a calendar nobody calls; three tables describe one rule; the collector reads
two of them in two statements while the dashboard edits. Correct when both
verdicts agree, no switch outlives its rules, and a list mixed from two states
of the rules blocks nobody whom no state of them blocked.

**Block sets** (`firewall.py`: `set_blocked`). State: two kernel sets per
family, an active and a staging one. Hard: a dozen commands that can each fail,
in a kernel that remembers what a dead collector left. Correct when the kernel
never drops by half of a list or by a mix of two.

**Counting chains and FORWARD jumps** (`firewall.py`: `ensure`,
`_ensure_rule`, `_ensure_forward_jumps`). State: the rules of TSM_UPLOAD and
TSM_DOWNLOAD, which have to drop before they count, and the order of the
FORWARD chain, edited by tailscaled and Docker too. Hard: `iptables -C` and
`-D` run unchecked, and a cycle can stop between any two commands. Correct when
a packet is counted once, a blocked one is not counted, foreign rules are
untouched, and in the end the jumps come first and drop what is to be dropped.

**Enforcement**, the composition of rules and block list in the collector's
cycle:
correct when a reached limit is dropped in the end, and a released address is
forwarded again, whatever fails and whoever edits the rules meanwhile.

**Website details** (`database.py`: `record_website_flows`,
`cleanup_website_history`; `website_collector.py`: `collect`). State: a baseline
per conntrack flow, daily and recent rows per domain. Hard: conntrack reuses
keys, it counts before the firewall drops, and four tables expire on different
clocks. Correct when no byte is booked twice, blocked bytes are not booked, and
no row loses its domain.

**Metadata capture** (`website_collector.py`: the thread, `DnsCache`,
`FlowDomainCache`, the parsers). Two threads share two locked caches with a
limit and expiry times.

**Dashboard sessions** (`main.py`: middleware and `/api/auth`, `/api/setup`,
`/api/login`, ...; `database.py`: `authentication`, `auth_sessions`). Hard:
requests are admitted by the middleware and handled later; a handler is several
transactions. Correct when one visitor sets the first password, a sign-in is
not trimmed away by its own limit, and a password change ends the sessions of
the old one.

**Start of the processes** (`config.py`, `Database._initialize`,
`_migrate_legacy_audit_logs`). State: `config.yaml`, read and written by both
processes under `flock`; the audit log in `log.db`, at most 5000 entries; and in
`traffic.db` the tables of an older version, whose contents `_initialize` moves
there (`app_config`, `audit_logs`) or into a new column (`quota_rules.enabled`).
Hard: both processes do it at the same time and can be killed anywhere; the file
is created before the lock can be taken and truncated before it is written; a
move between two databases is no transaction. Correct when settings, switches
and entries survive, and nobody reads half a file.

**tailscaled client** (`tailscale.py`): HTTP over a Unix socket, and what it
makes of the answers. **Collector process** (`collector_main.py`): signals and
heartbeat. **Dashboard queries**: read only. **Browser interface**: display.

## Modules

| module | models | states and actions |
| --- | --- | --- |
| `TrafficLedger` | the collector's cycle as far as counting goes | `db` is the committed database and `tx` the open transaction; one action per step of `collect`, and inside the two transactions one per peer and one per counter. `Abort` and `Reboot` come between any two. |
| `Meter` | abstract: bytes are counted, booked once and charged at once, and only what an unidentified address was charged moves | `Count`, `Book`, `Identify`; `TrafficLedger` implements it |
| `Sums` | sums over the rows of a table, as the number of a set's elements | no state |
| `Policy` | the rule tables, every operation of the dashboard on them, and the two verdicts | one action per method; `ShownBlocked` is `quota_state`, `BlockedAddresses` is `blocked_addresses`. `Sync` and `Book` are a cycle's effect on one address; an address nobody has identified has no row here, and what was booked on it comes with its `Sync` (`UnknownUsage`). |
| `PolicyReading` | `blocked_addresses` table by table, while the dashboard edits | EXTENDS `Policy`; `Begin`, `ReadQuotaRules`, `ReadAccessBlocks`, and `Edit` between any two |
| `BlockList` | abstract: a family's list changes as a whole, to its part of the latest verdict | `Decide`, `Install`, `Clear` |
| `BlockSets` | `set_blocked`, command by command | one action per `ipset` command, `Fail`, `Reboot`; implements `BlockList` |
| `Enforcement` | the cycle from the rules to the dropped packets | EXTENDS `Policy`; its `Install` of one family is the atomic step `BlockSets` is shown to implement; `EnforcesAtomically` proves that it is used as one |
| `ForwardJumps` | `_ensure_forward_jumps`, command by command | one action per `iptables` command; `PutFirst`, `Withdraw` are other programs |
| `Firewall` | `ensure` and `set_blocked` as a cycle runs them | EXTENDS `BlockSets` and runs an instance of `ForwardJumps`; `EnsureRule` is `-C` followed by `-I` or `-A`; `CutShort` and `HostReboots` act on all parts at once |
| `WebsiteFlows` | sampling of conntrack, booking per domain, retention | `RecordFlows` is one transaction over all sampled flows, `Cleanup` the daily one |
| `DashboardAuth` | password and browser sessions | `sessions` are the rows of `auth_sessions`; a later token is a later row; `Admit` is the middleware, then one action per handler; `SetupStops`, `ChangePasswordStops` and `GivesUp` are handlers that stop between two transactions |
| `Settings` | abstract: settings that change as a whole | `Save`, `Load`, `Stop` |
| `Startup` | both processes starting at once on an older version's data, then saving settings and writing the audit log | one action per statement or system call another process can notice; `Kill` between any two; implements `Settings` |

`MCx` gives a module the constants of its runs; `xProofs` holds its theorems.
Definitions that start with `\* Mutant:` are plausible mistakes in the
definition that follows them. No other definition uses them: they document that
the properties notice the mistake.

How the modules fit together: `TrafficLedger` has the cycle in full detail on
the side of counting and leaves the rules out; `Policy` has the rules in full
detail and what the cycle does to one address in one step; `PolicyReading`
splits the reading of the rules into its statements; `Enforcement` puts the
rules into the cycle, with addresses that have one holder for good; `BlockSets`,
below it, justifies that `Enforcement` installs a family at once; and `Firewall`
runs the block sets together with the chains and jumps that make a packet meet
them. `WebsiteFlows`, `DashboardAuth` and `Startup` meet the others in the
database only and stand alone.

History variables, which the code does not have, are named as such where they
are declared: `sent`, `reboots`, `moves`, `unread` and the column `booked` in
`TrafficLedger`; `edited`, `ever` and `always` in `PolicyReading`; `sent`,
`passed`, `opened`, `booked`, `skipped` and `visits` in `WebsiteFlows`; `missed`
in `ForwardJumps` and `misread` in `Firewall`; `cut` and the field `password` of
a session in `DashboardAuth`; `found`, `before`, `torn`, `unfilled`, `accepted`,
`saves` and `kills` in `Startup`.

### What the actions abstract from

* **Transactions.** `Database.connect` commits at the end of its block and an
  exception or a kill rolls back (`database.py:57-67`). A transaction over
  several rows that reads nothing anybody else writes in between is one action
  (`WebsiteFlows`, `DashboardAuth`, `Policy`), or a copy of the database that a
  commit makes visible (`TrafficLedger`, where a failure in the middle of it is
  the point). Python's `sqlite3` commits an ALTER or DROP at once, which is why
  `Startup` is finer than the blocks it models. Writers are serialised by SQLite
  and wait up to the busy timeout; running into it is one of the failures.
* **Readings.** `Enforcement` decides in one step. `PolicyReading` has the
  statements of it; `ReadingIsSound` says how far a list can be from an answer
  given at once, and the next cycle decides afresh.
* **Cut cycles.** In `TrafficLedger` and `Enforcement` a cycle that fails or is
  killed sets `pc` to `"cut"`, one that ends sets it to `"idle"`. Only the
  fairness assumption tells them apart.
* **Amounts.** Bytes are small numbers. Days, the upload and download columns
  and the packet columns of a usage row are summed where every statement treats
  them alike. The 5-minute tables get and move the same amounts as the daily
  ones and are left out.
* **Entries that read zero.** An entry of a counter set is made by one rule
  (`--add-set`) and counted by the next (`firewall.py:160-217`), so a dump can
  show one that has counted nothing. `ReadCounter` puts a counter above zero into
  `dumped` and one at zero, or leaves it out; addresses are looked up and
  counters booked for what is in `dumped`.
* **Time** is a tick count; a month, a day and a bucket are numbers of ticks.
* **Identities, names, tokens, passwords** are model values or numbers. That a
  token or a password cannot be guessed is assumed.

## Runs

Passing runs. For every property there is a mutant with which TLC finds the
property violated under the same configuration.

| run | module | shows |
| --- | --- | --- |
| `ledger_tailnet` | `MCTrafficLedger` | two addresses of an owned and an ownerless node are counted before they are identified, found by the status or by WhoIs, unlisted and handed over, with cycles cut anywhere: the two ledgers account for the same bytes (`LedgersAgree`), a user and a device are charged exactly what their addresses were booked (`UsageExact`), nothing stays under `unknown:` (`NoUsageLeftUnknown`), usage is reachable (`DeviceUsageReachable`), references hold (`ReferencesKept`), and to its readers `traffic.db` is a `Meter` (`ImplementsMeter`): what is committed books each byte once, charges all of it, and never charges an identified account less |
| `ledger_counters` | `MCTrafficLedger` | one counter over several cycles and a reboot, in which the counter restarts below its baseline: no byte is booked twice (`NeverOvercount`); once cycles stop failing every byte is booked (`EverythingBooked`) and the address is identified (`EventuallyIdentified`) |
| `policy_rules` | `MCPolicy` | every operation on a user's and a device's rules over two months, also while they are read: what is shown is what is enforced (`ShownIsEnforced`), no switch is orphaned (`NoOrphanedState`), a list mixed from two states of the rules blocks nobody whom none of them blocked and, with one edit in between, misses nobody whom both blocked (`ReadingIsSound`) |
| `firewall` | `MCFirewall` | cycles that fail, are killed or misread a rule, other programs that rewrite FORWARD, and reboots: `set_blocked` implements the atomic block list (`ImplementsBlockList`) and has installed both families when it ends (`InstalledWhenDone`), a chain drops before it counts (`DropsBeforeCounting`), no packet is counted twice (`CountedOnce`), foreign rules keep their order (`OthersLeftAlone`), and an address that every call is to block is dropped in the end and for good (`EventuallyDropped`) |
| `enforcement` | `MCEnforcement` | traffic is booked only when its verdict is in force (`BookedUnderVerdict`), a reached limit is dropped in the end (`LimitEnforced`), a release takes effect in the end (`EventuallyReleased`) |
| `website_flows` | `MCWebsiteFlows` | bytes are accounted for exactly up to the last sample (`ExactUpToBaseline`) and never twice (`FlowNeverOvercounted`), a connection is at most one visit (`OneVisitPerConnection`), no row loses its domain (`DomainsReferenced`) |
| `dashboard_auth` | `MCDashboardAuth` | two browsers with requests admitted before the other's took effect: the first password is set once (`SetupOnce`), who signs in is signed in (`SignedIn`), no session of an earlier password is left when all transactions of a change commit (`OnlyCurrentPassword`) |
| `startup` | `MCStartup` | both processes start on an older version's data and are killed anywhere: the old settings or later ones survive (`SettingsKept`), so do the switches of rules (`SwitchKept`) and the newest audit entries (`EntriesKept`); `config.yaml` implements settings that change as a whole (`ImplementsSettings`), and what stays in it is what every process works with in the end (`SettingsApplied`) |

Runs that end in a violation on purpose, because the program differs from what
a document or comment says: `ledger_reboot`, `enforcement_hidden`,
`flows_blocked` and `settings_migrated`
([below](#where-code-and-documents-differ)).

## Bounds

Every bound is a constant whose name starts with `Max`, or a small set.

* `ledger_tailnet`: two addresses, so that a device has two and one can be
  freed while the other stays; an owned and an ownerless node, because the two
  get different identities from the status and from WhoIs; two bytes per
  counter, one before and one after an identification; one change of the
  tailnet (`MaxMoves`), during or between the cycles. No reboot: the tables do
  not depend on where a delta came from.
* `ledger_counters`: one counter, three bytes and one reboot: two bytes are
  booked, then the counter restarts and is sampled at one, below its baseline.
  With two bytes that branch would not be reached. Counters of different
  addresses do not meet outside the tables, which the other run covers.
* `policy_rules`: one user and one device with one address (the two kinds of
  target an address has), one limit, one duration and two months of one tick: a
  block and an unlock both end within a reading. The edits during a reading are
  not bounded.
* `firewall`: an address of each family and a public one, which must be left
  out; one chain, of the family "4" (`ensure` treats each alike); the rules of
  two other programs, so that their order is something to keep; every order of
  FORWARD, older placements included, and a chain that cannot block yet are
  initial states. `MaxMissed` bounds the deletions that leave their rule and
  `MaxMisread` the rules that are there and not found, each of which adds a
  copy. Failures and reboots are not bounded.
* `enforcement`: a friend with an address of each family, one limit, permanent
  blocks, two months. `policy_rules` has the temporary blocks: to the cycle they
  are one more way for a verdict to change without a call.
* `website_flows`: one flow key with two connections one after the other, one
  byte per direction, four days with a two-day baseline, a three-bucket recent
  table and one day of retention. Both directions are there because one of them
  alone decides that a connection is new. Flows of different keys share nothing
  but the rows of a domain, of which only the existence matters.
* `dashboard_auth`: two browsers, at most two sessions, four tokens, three
  passwords, two ticks, of which a session lasts one: the limit is exceeded, and
  sessions expire between admission and handling.
* `startup`: the two processes; a first start that finds no `config.yaml` or the
  one of the repository; two old audit entries in a log of two, two new ones, so
  that each old one can be trimmed while it is still to be moved; two saves of
  different settings, so that one waits for the other's lock; two kills, so that
  a process that starts again can be killed again, or both once.

## Fairness

`Spec` has no fairness; safety is checked without it wherever a run has only
safety properties. `FairSpec` adds:

* `WF_vars(Collect)`: `_loop` starts `collect()` again after every success and
  every failure (`collector.py:116-131`), and `restart: unless-stopped` in
  `docker-compose.yaml` starts a collector that was killed. The loop waits
  `interval` seconds between cycles, which is the time the environment gets.
* `<>[](pc # "cut")`: from some time on no cycle is cut short. What makes calls
  raise (tailscaled or the database being away, a busy xtables lock) is assumed
  to pass. Without it nothing follows, since every cycle may fail. It is a
  statement about states and not about the action `Abort`, because a last step
  of a cycle that has nothing to write leaves the same variables as a failure.
* `SF_vars(WhoisAnswers(a))` in `TrafficLedger`: WhoIs is asked in every cycle
  and answers one of infinitely many times. `WhoisFails` stays possible in
  every cycle.
* `WF_firewallVars(Cycle)` and `<>[][~(CutShort \/ HostReboots \/
  OthersRewrite)]_firewallVars` in `Firewall`: the loop again, and other
  programs restart, and commands fail, finitely often. The jumps lose their
  place whenever another program puts a rule first, so without this nothing
  would stay dropped.
* `WF_vars(Proceed(p))` for each process in `Startup`: `restart: unless-stopped`
  starts it again, its steps are not blocked for good (only the holder of the
  lock makes others wait, and it goes on or is killed), and both processes load
  the settings again in every cycle and request. The kills are bounded.

No fairness is put on traffic, on the dashboard or on the clock.

## Proofs

TLAPS checks these for every value of the constants that satisfies the modules'
`ASSUME`s. The assumptions say no more than that the bounds are natural
numbers (that of the passwords and the limit of sessions not 0), that node and
address names differ, that the placeholders (`NoRow`, `NoRule`, ...) are not
real values, that the given maps (`OwnerOf`, `FamilyOf`) are functions between
the given sets, and that the tailnet, the foreign rules and the old audit
entries are finite. Bounds of counters occur in guards only, so the theorems
hold for bounds of any size.

Sums, counts and orders are stated without recursion, so that they can be
proved about: `Total` is the number of elements of the set `Bytes`, `Copies` the
number of a rule's places in the chain, `SameInOrder` an order-preserving
bijection between two sets of places, `Trimmed` a comparison with how many rows
are newer.

`TrafficLedgerProofs`

* `TypeCorrect`: usage columns and baselines are natural numbers. The case that
  is not plain is `RecordCounter`, by `DeltaType`: the reset branch is what keeps
  a delta from being negative.
* `NoOvercount` (`NeverOvercount`). That the booked bytes are at most the counted ones is not
  inductive: after a reboot it says nothing of the baseline. `OvercountInv`
  splits what was counted at the last boot: either a counter's bookings all
  belong to earlier boots, or its baseline belongs to this one, is at most the
  counter (and at most the sample waiting to be booked), and the bookings are
  at most the earlier bytes plus the baseline. `BookingSound` is the arithmetic
  of both branches of the delta; the invariant is kept for the committed tables
  and for the open transaction, so a rollback needs no argument.
* `DeviceUsageAlwaysReachable`, `NothingLeftUnknown`, `ForeignKeysHold`, from
  `LedgerInv`, which adds to the three that an address's unknown row is its own
  (`UnknownIsOwn`): otherwise identifying one address could empty or strand the
  usage of another. One lemma per helper (`SyncedPeerInv`, `EnsuredUnknownInv`,
  `BookedCounterInv`, `MarkAbsentInv`), then the step.
* `LedgersAlwaysAgree` (`LedgersAgree`). `TotalAdd` says what one entry of a
  column does to its sum, `TotalMoved` that moving an entry onto another does
  nothing, which is where `MoveUsage` has to add and to delete; the property of
  the committed tables and of the open transaction (`SumsAgree`) is inductive.
* `UsageAlwaysExact` (`UsageExact`). By itself it is not inductive: identifying
  an address moves everything charged to the old row's identity and device, and
  this must be what was booked from that address. `SettledInv` therefore adds
  `BoundToHolder`: as long as addresses stay where they are, a row is the
  address's own or names the node that holds it, so an unidentified row is
  shared with no other address (`SyncedPeerExact`), and the peers in the
  collector's hands say so too. `Exact` also speaks of the unknown identities
  and of addresses without a row, from which nothing was booked
  (`EnsuredUnknownExact`). `RowBooked` is the arithmetic of one address changing
  its row.
* `LedgerIsMeter` (`ImplementsMeter`): `TrafficLedger` implements `Meter` under
  the mapping `counted <- sent, booked <- db.booked, charged <- db.usage`.
  Nothing happens to the meter before a commit: `SyncCommit` is `Identify`,
  `RecordCommit` is `Book`, and everything else but `Traffic` stutters. `TxInv`
  says how far an open transaction may be from the committed tables: in
  `sync_peers` it has booked nothing and taken from unidentified addresses only
  (`SyncedPeerTakes`), in `record_counters` it has only added
  (`BookedCounterAdds`), and outside of both it is the committed database. The
  other conjuncts of `Book` are `NeverOvercount` and `LedgersAgree`.

`PolicyProofs`

* `PolicyTypeCorrect`: the rule tables keep to their schema, with one step per
  operation.
* `DashboardAgreesWithCollector` (`ShownIsEnforced`): a consequence of the type
  invariant. The one thing the two verdicts do differently is to ask whether
  the target exists and whether it is present, and presence implies existence.
* `NoStateOrphaned` (`NoOrphanedState`): inductive with the type invariant,
  which says that switching a rule does not make it disappear.

`PolicyReadingProofs`

* `ReadingTypeCorrect`, `ReadingAgrees`, `ReadingOrphansNothing`: a reading only
  reads, so its behaviours are behaviours of `Policy`
  (`ReadingKeepsPolicy`), and the theorems of `PolicyProofs` carry over.
* `ReadingSound` (`ReadingIsSound`). The upper bound is plain: what either
  statement finds some state of the rules blocks. The lower bound rests on
  `OneEdit`: no single operation both puts an address on the list by its limit
  and takes it off by its block, so an address blocked before and after the edit
  is found by the statement that runs on its side of it. `ReadingInv` says what
  a reading has so far relative to the answers since it began. With two edits
  the lower bound is false, and the property does not claim it.

`FirewallProofs`, first of `BlockSets` alone:

* `TypeCorrect`: the locals of a call, and that only addresses of Tailscale's
  ranges get into a set.
* `SetBlockedIsAtomic`: `BlockSets` implements `BlockList` under the mapping
  `verdict <- decision, blocked <- active`. `StagingInv`: while a family is
  filled its staging set holds exactly what was added of this decision, whatever
  an earlier call left there. Only `Swap` moves the abstract state.
* `InstalledAtEnd` (`InstalledWhenDone`), from the same invariant.

and of the cycle:

* `CycleInstallsAtomically` and `CycleInstalls`: a step of the cycle is a step
  of `BlockSets` or leaves its variables alone, so the refinement proved there
  holds in the cycle too.
* `DropsFirst` (`DropsBeforeCounting`): with the type of the chain inductive by
  itself; the argument is where a rule at the top or at the end puts the others
  (`RuleAtTop`, `RuleAtEnd`, `AddRuleStep`).
* `FirewallTypeCorrect`: the chains that other programs, `-D` and `-I` make are
  sequences of rules, and no part is at work outside its step.
* `NothingCountedTwice` (`CountedOnce`). That a jump has at most `1 + missed`
  copies is not inductive, since `Insert` adds one. `CopiesInv` adds that
  between its deletion and its insertion in one call (`Gone`) a jump has at most
  `missed`: `Delete` has taken one copy or found none, or left one and counted
  it. No other program adds a jump. `NumberDeleted`,
  `NumberInserted` and `NumberWithout` say what a deletion and an insertion do to
  the number of copies.
* `CycleLeavesOthersAlone` (`OthersLeftAlone`): a step of the cycle that changes
  FORWARD takes out a jump or puts one first; in both cases the foreign rules
  map to their new places in order (`OrderWithout`, `OrderBehind`).

`EnforcementProofs`

* `TypeCorrect`, which carries the schema of the rule tables through the cycle.
* `BooksUnderVerdict` (`BookedUnderVerdict`): `InForce` says that a family done
  in this cycle drops this cycle's part of the verdict, whatever the other one
  still drops; with both done it is the verdict.
* `EnforcesAtomically`: `Enforcement` implements `BlockList`, too, under the
  mapping with which `BlockSets` does. What the composition takes for granted of
  `set_blocked` is thus what is proved of it. No run checks this one.

`StartupProofs`

* `TypeCorrect`, which includes that the lock is held exactly by a process
  between truncating the file and filling it.
* `NoEntryLost` (`EntriesKept`). `LogsInv` adds that a process about to drop the
  old table has copied everything in it (`Saved`), which stays true while the
  log is trimmed because ids only grow.
* `SwitchMigrated` (`SwitchKept`): with the column there and nobody killed, the
  switch is set or some process is about to set it.
* `SettingsSurvive` (`SettingsKept`). `FileInv` follows what a process carries
  from step to step: one that may still create the file has the old settings or
  found the table gone, and the table is gone only when the file is there.
* `FileIsSettings` (`ImplementsSettings`): `Startup` implements `Settings` under
  the mapping `content <- IF writer = NoOne THEN Parse(file) ELSE before`. Only
  `Write` and a kill inside a save move the abstract settings; a load needs the
  lock to be free, which is when file and settings agree.

`WebsiteFlowsProofs`

* `TypeCorrect`, in which `DeltaType` is the case that matters: the reset branch
  keeps a delta from being negative. `DomainsHold` (`DomainsReferenced`).
* `NeverOvercounted` (`FlowNeverOvercounted`). `BytesInv` says of every live
  connection that whatever the next sample takes its counters for, a new
  connection or the old one continued, there are enough counted bytes for it,
  and the same again for the time between listing and booking (`Covered`,
  `CoveredAfter`). A baseline that expires
  does no harm, because it is that of a flow the listing did not have.
* `VisitsCounted` (`OneVisitPerConnection`): `VisitInv` keeps, for a connection
  that is not counted yet, its own opening in reserve.
* `BaselinesExact` (`ExactUpToBaseline`): `ExactInv`, with the flow that has not
  been booked and the one being booked as cases of their own.

`DashboardAuthProofs`

* `TypeCorrect` (`AuthTypeOK`), whose part that matters is the limit of sessions:
  of more rows than the limit those are kept with fewer newer rows than the
  limit, and that there are not more of them than the limit is `TrimmedLimit`,
  by counting from the oldest row that is kept (`Oldest`).
* `OldPasswordsSignNobodyIn` (`OnlyCurrentPassword`). `AuthInv` adds that there
  are no sessions before there is a password: otherwise a first setup, which
  deletes nothing, would leave sessions of another one. One lemma for handlers
  that delete rows (`SamePassword`), one for those that sign in (`SignInKeeps`).
* `FirstSetupWins` (`SetupOnce`), by actions: only a change of the password
  changes one that is there.
* `SignInHolds` (`SignedIn`): the row just inserted has the newest token, so no
  row is newer and the limit, which is not 0, keeps it (`SignInStep`).

Only model-checked: liveness (`EverythingBooked`, `EventuallyIdentified`,
`LimitEnforced`, `EventuallyReleased`, `EventuallyDropped`, `SettingsApplied`),
which needs fairness and ENABLED. Every other property of a passing run is a
theorem.

## Where code and documents differ

* `ledger_reboot`. `docs/README.md:143` says that after a reboot the
  application "automatically continues accumulating from the new values".
  `record_counters` (`database.py:1131`) recognises a restarted counter by its
  value being lower. A counter first sampled after the reboot at or above its
  old baseline is booked short by the baseline. Nothing is ever booked twice.
* `enforcement_hidden`. Friends that the status never lists are identified by
  WhoIs, once: `unresolved_addresses` (`database.py:1071-1083`) asks about
  unidentified addresses only, so the next `sync_peers` marks the friend absent
  and the limit is enforced for one cycle.
* `flows_blocked`. `record_website_flows` applies the blocked list of the cycle
  that samples a flow to all bytes since the sample before. The comment
  (`database.py:1504-1509`) says that bytes of a block are not added after a
  later unblock; those dropped between the last sample and the unblock are.
* `settings_migrated`. `docs/README.md:146` says that on an upgrade "runtime
  settings stored in the database are automatically migrated to YAML".
  `_initialize` (`database.py:386`) writes them only where there is no
  `config.yaml` and drops `app_config` in any case. The repository contains a
  `config.yaml` and `docker-compose.yaml` mounts it, so an upgrade by `git pull`
  always finds one, and the old settings are dropped.

More behaviours that the properties take into account, without a run of their
own:

* A deletion in FORWARD that fails unnoticed (`iptables -D` runs unchecked)
  leaves a second copy of a jump that later calls do not look for, which is why
  `CountedOnce` allows `missed` copies; between the deletions and the insertions
  packets are neither counted nor blocked.
* A password change commits the password first and deletes the sessions in a
  second transaction (`main.py:366-372`). Stopping in between leaves sessions of
  the old password, although `docs/README.md:90` says that a change invalidates
  every other session: `OnlyCurrentPassword` exempts what `cut` remembers.
* With two edits during one reading of the rules an address that all states of
  the rules block can be missed, for one cycle.
* Two processes that start together on an older version's data can meet a table
  that is gone or a column that is there; the loser ends with an exception and
  is started again. A process killed between the ALTER and the UPDATE leaves
  every rule switched on (`unfilled`), one killed between creating or truncating
  `config.yaml` and writing it leaves the defaults (`torn`).
* A starting process that found no `config.yaml` and is overtaken by the other,
  and then by a save from the settings page, overwrites what was saved with the
  old settings. A process that moves the audit log after the other has done so
  inserts entries again that were trimmed or cleared meanwhile; the log is then
  longer than its limit ("at most 5,000 entries", `docs/README.md:146`) until the
  next entry.
* `load_app_config` writes the defaults when there is no file. After
  `_initialize` there is one, so a running process does not get there.

## What is not modelled

* The 5-minute tables behind the "last 24 hours" views, names, aliases, online
  flags: written by the same statements as what is modelled, and only displayed.
* Changes of the time zone and of the clock; the calendar only advances.
* Rules made for an address that is not identified yet. When it is, its usage
  moves and the rule stays where it is, without a target; no document says what
  should become of it.
* The capture thread, its two caches and the parsers. Every method of a cache is
  one step under its lock and returns a name or none, and `WebsiteFlows` lets
  every sample see any name or none. The thread ends for good when `recv` raises
  (the interface went down), which is the case of no names at all.
* The parsers of conntrack lines, DNS, TLS and HTTP, the packet filter, the text
  of `config.yaml` and `ipset` listings: conversions of one text, without state.
* Migrations that only create a table or add a column with a constant default.
* `_configure_runtime`, signals and the heartbeat of the collector; the HTTP of
  the tailscaled client.
* Dashboard queries (read only), the browser interface, images and scripts.

## Plan

Done: the ledger, the rules and their reading, enforcement, the whole of the
firewall, website details, sessions, and the start of the processes with the
configuration file and the audit log; all safety and action properties are
proved, and the implementation of three abstract machines, `Meter`, `BlockList`
and `Settings`. Left: the two name caches with their limit and expiry times
against a map without a limit, and `_normalize_domain` and `month_bounds` as
operators.
