# os-switcher: specification, model checking, proofs

os-switcher picks the next-boot or the default operating system of a UEFI
multiboot machine. Its difficulty is not in its algorithms: it is in two stores
that it shares with everybody and locks against nobody (the firmware's boot
variables and the Windows boot store), in a selection that is split over both,
and in the processes, prompts and services through which a write reaches them.
This directory models those parts in TLA+, checks them with TLC and proves the
main facts about them with TLAPS.

## Inventory of the system

| Component | State it keeps | Operations | Hard behaviour | What makes it correct |
|---|---|---|---|---|
| UEFI variables (`efi/mod.rs`, `efi/backend.rs`) | `BootOrder`, `BootNext`, `Boot####` in NVRAM, shared by every process and the firmware | `boot_order`, `entries`, `set_default`, `set_boot_next`, `clear_boot_next` | read-modify-write without a lock; a read error looks like absence; check-then-delete | no entry lost or duplicated; the others keep their places |
| BCD hive file (`bcd.rs`) | `DefaultObject`, `BootSequence`, `DisplayOrder` of the Windows Boot Manager | load, edit in memory, write the file over | truncate-then-write; whole-file write back of a stale copy | never left half written; one-shot and default independent |
| Live BCD store (`switcher/bcdedit.rs`) | the same store held open by a running Windows | one `bcdedit` command per change, then an export | a command succeeds and the export fails; decisions on a stale copy | only the element asked for changes |
| Detection (`switcher/detect.rs`) | which firmware entry the store belongs to | `detect`, `detect_with_bcd` | pairs on what it could read | paired with the entry that reaches it |
| Switcher (`switcher/mod.rs`) | an entry list built from both stores | `entries`, `find`, `set`, `clear_next` | firmware half then store half; re-find after apply | Ok means done; a partial failure leaves a bootable, repairable state |
| Broker protocol, pipe, service (`winbroker/pipe.rs`, `wire.rs`, `service.rs`) | one pipe instance, a stop flag, the SCM state | connect, request, reply, stop | stop racing with the accept loop, reply discarded by disconnect, silent client, retries | a request runs at most once; a reply reaches its client; stop stops |
| Broker installation (`winbroker/install.rs`) | files in Program Files, the service record, the registry key, deletions pending at reboot | install, uninstall, repair | locked files, service asynchronously stopping, marked-for-delete | installed means runnable, now and after a reboot |
| Command line, elevation, polkit (`cli.rs`, `elevate.rs`, `polkit.rs`, `authz.rs`, `power.rs`) | the relay file, the installed policy and copy | dispatch, escalate, install, uninstall | the elevated copy sees more than the one that listed | one prompt at most; the command runs once, with the same meaning |
| GUI (`gui.rs`) | the list shown, at most one job, a confirmation, a banner | start, poll, confirm, toggle | answers that land late, actions while a job runs | what is shown is what a restart would do |
| Load options (`efi/load_option.rs`) | none | `parse`, `OsKind::guess` | untrusted bytes | in-bounds, total |
| Shortcuts, provenance, console, icon, glue | none shared | - | - | out of scope |

Interactions: the CLI, the GUI's worker thread and the service each build a fresh
`Switcher` per command; they meet only in NVRAM and in the hive. A GUI or CLI
without privileges reaches it through an elevated copy of itself or through the
service's pipe. A reboot kills them all and consumes the one-shots.

## Modules

* `BootEntries` - what is computed from an order and a store: pairing, the list
  and its flags, selectors, the new order. Operators only.
* `Switcher` - the state machine. `bootOrder`, `bootNext` are the variables,
  `hive` the store (with `whole = FALSE` between truncation and write),
  `running` the OS. A process `p` is one command; `pc[p]` is where it is in
  `Switcher::set` or `clear_next`, `slot[p]` its copy of the store (`BcdSlot`),
  `order[p]` the boot order it is about to write, `target[p]` the entry it
  found, `reply[p]` its answer. Every read and every write is an action:

  | Action | Code |
  |---|---|
  | `Start` | a command given to a fresh process (CLI, GUI job, broker request) |
  | `Detect` | `detect` / `detect_with_bcd` |
  | `Find`, `Refind` | the two `find` of `Switcher::set` |
  | `ReadOrder`, `WriteOrder` | `Efi::set_default` |
  | `WriteNext` | `Efi::set_boot_next` |
  | `CheckNext`, `DeleteNext` | `Efi::clear_boot_next` |
  | `OpenStore`, `SaveStore` | the edit in memory, then the two halves of `std::fs::write` |
  | `RunBcdedit`, `ReloadStore`, `NoStore` | the live store; no store paired |
  | `Kill`, `Reboot` | process death; firmware and boot manager (external) |

  `Faults` names what the environment may do in a run: `read`, `write` (NVRAM),
  `load`, `open`, `save` (hive), `bcdedit`, `kill`.
* `MCSwitcher` - its instances for TLC. `EntriesProofs` - what the operators of
  `BootEntries` return, used by the proofs about `Switcher` and `Gui`.
  `SwitcherProofs`, `ScopeProofs` - the theorems about `Switcher`.
* `RemoteCall` - what the broker promises: a call is executed at most once, in one
  step, before it returns; its answer is that execution's, or an error.
* `Pipe` - how it is done. `server` is where the service process is in
  `pipe::serve` and `serve_one`, `stop` and `handler` are the control handler,
  `triggered` the service manager's request to start it; `instance`, `peer`,
  `inbox`, `outbox` are the one instance of the pipe; `client[c]` and `tries[c]`
  are where a client is in `round_trip` and `connect`. `outcome` is history. It
  takes what a request does from `RemoteCall` (`Executions`): the steps inside are
  those of `Switcher`, which the service runs one request at a time.

  | Action | Code |
  |---|---|
  | `Started` | the pipe trigger of the service (`configure_pipe_trigger`) |
  | `CheckStop`, `CreateInstance`, `Accept`, `CloseInstance` | `pipe::serve` |
  | `Serve`, `ReadNothing`, `WriteReply` | `pipe::serve_one`, `wire::handle` |
  | `StopControl`, `WakeAccept` | the control handler of `service::serve` |
  | `Call`, `Open`, `Retry`, `Verify`, `Send`, `Receive` | `round_trip` |
  | `ClientDies`, `ServiceDies` | process death (external) |

  `Faults` names what may go wrong: `create` (the instance), `verify` (the server
  is not recognised), `client`, `service` (deaths). The scope of a `set` is left
  out: the machine has one selected entry.
* `PipeProofs` - the theorems about `Pipe`.

* `Install` - installing, updating, repairing and removing the broker, by several
  installers. `file`, `dir` are the install directory, `record`, `image`, `trigger`
  the service record, `running` the service process, `task`, `key` the scheduled task
  of earlier builds and the uninstall entry, `pending` what Windows deletes at the next
  boot. An installer is the elevated half of `run_install`,
  `run_uninstall` or `run_repair`; `at[i]`, `op[i]`, `from[i]` are its place, its
  operation and the package it runs from. Four are history: `claim` and `alone`, what
  the last operation reported and whether it ran alone; `ignored`, the failures it met
  and did not look at; `swept`, whether a restart has removed the CLI since.

  | Action | Code |
  |---|---|
  | `Begin` | the three entry points |
  | `Prepare` | the source and the owner of the directory (`do_install`) |
  | `Stop` | `stop_service`: a control sent and not awaited |
  | `CopyCli`, `CopyGui` | `copy_if_different` |
  | `Repair` | `run_repair` |
  | `Register`, `SetTrigger` | `register_or_update_service`, `configure_pipe_trigger` |
  | `Complete` | the task and the uninstall entry of `do_install` |
  | `Delete`, `Clean`, `Remove`, `Schedule` | `do_uninstall`: `delete_service`, the entries, `remove_dir_all`, `schedule_delete_on_reboot` |
  | `ServiceStarts`, `ServiceEnds`, `Reap`, `Window`, `Kill`, `Reboot` | the service manager, users, death, restart (external) |

  A step may fail in three ways. `source`, `copy`, `register`, `key` are failures that
  end the operation with an error; `task`, `unkey`, `schedule` those of `schtasks`,
  `RegDeleteTreeW` and `MoveFileExW`, whose results the code throws away: the operation
  goes on and answers Ok (`Ignore`). A copy that fails or is killed may have truncated
  its target (`Torn`).
* `InstallProofs` - its theorems.
* `Errand` - what is promised to whoever asks for something, at a terminal or in the
  window, by whichever processes: it is carried out at most once, the world changes
  only by it, success is reported only of what was carried out and succeeded. `done[c]`
  tells an attempt that ended well (`"ok"`) from one that did not (`"failed"`). A record
  that is doomed counts as gone (`Lasting`): Windows deletes it in its own time.
* `Cli` - `dispatch` and the processes it takes. A caller is a user at a terminal or
  a thread of the window; copy `<<c, 0>>` is the process it started and
  `<<c, d + 1>>` the elevated one that `<<c, d>>` runs and waits for. `machine` is
  the boot configuration, `authorized` what is installed of the authorization: the
  executable, the grant (polkit's policy, or the service record) and, under Windows,
  whether that record is doomed. `AfterOk` and `AfterError` say what an installation or
  a removal may leave of it, under either system; they are what `Install` takes apart.
  `relay` the relay files, `result` how a copy ended until its parent collects it.
  A command on the configuration is one step here, and so is a broker request:
  `Switcher` and `Pipe` take them apart.

  | Action | Code |
  |---|---|
  | `Ask`, `Dispatch` | a command typed; `cli::dispatch`, `needs_elevation` |
  | `Switch`, `Power` | the command by this process; `power::reboot`, `shutdown` |
  | `Escalate`, `Answer`, `Collect` | `cli::escalate`, `elevate::run_self_elevated`, the relay file |
  | `Authorize` | `authz::install`, `uninstall` (`polkit.rs`, `run_install`) |
  | `Choose`, `BrokerSet`, `BrokerCall` | `broker_dispatch` |
  | `Kill`, `Reap` | process death (a child survives its parent); Windows deletes a doomed record |
* `Gui` - the window beside the users of `Cli`, which it extends: the worker thread
  and the drawing thread are two more callers. `shown` is the list drawn, `job` and
  `sent` the one job and its channel, `noPrompt` and `banner` the authorization
  banner. It implements `Errand` (`KeepsErrands`).

  | Action | Code |
  |---|---|
  | `Launch`, `Close` | `gui::run`, `launch`; the process ends |
  | `Click`, `AskRestart`, `Confirm` | `entry_card`, `actions`, `confirmation` |
  | `Perform`, `Apply`, `AppliedElsewhere`, `Read` | `perform`, `apply`, `read_entries` in the worker |
  | `BrokerApply`, `BrokerRead` | `broker_perform`: two requests |
  | `Poll` | `poll` |
  | `ClickBanner`, `BannerReturns` | `no_prompt_banner`, on the drawing thread |
* `MCGui` - its instance for TLC. `GuiProofs` (who runs what), `WindowProofs` (what
  is drawn), `ClickProofs` (what a click selects) - the theorems about `Cli` and `Gui`
  together, each extending the one before.

How they fit: `Switcher` is what one command does to the stores, step by step;
`Cli` and `Gui` run commands whole, so that what matters there is who runs them,
with which rights and what comes back; `Pipe` is the request to the broker that
they take in one step, `RemoteCall` the promise that lets them; `Install` is what
the `install` and `uninstall` of `Cli` do under Windows.

Abstractions: identifiers and GUIDs are model values; a label is the set of
entries it matches; a `BootSequence` is one object or none (the code writes one);
`Boot####` contents are constant (nothing in the code writes them), and an entry
whose load option does not parse is not in `Ids`; a failed read of `BootOrder`
stands for any failed read that hides entries. Texts are left out: an answer is Ok
or the kind of its error.

## Runs

| Run | Question | Bounds |
|---|---|---|
| `alone` | Does Ok keep its promise, one command at a time, whatever failed or crashed before? | 3 firmware entries, 2 BCD objects, 1 process, selectors by key, index and label, with and without `--bcd`, all faults but reads of variables; 134,616 states |
| `together` | What survives two commands interleaving step by step, under Linux and under Windows? | 2 firmware entries, 2 objects, 2 processes (symmetric), failing loads |
| `leftover` | (violated) does "none - follows default" tell the truth? | as `alone`, no fault |
| `unreadable` | (violated) does `set_default` keep the other entries when a read fails? | as `alone`, fault `read` |
| `lost_update` | (violated) are the scopes independent when two processes save the hive? | as `together`, no fault |
| `two_windows` | (violated) does `--bcd` pair the hive with the entry that reaches it? | two Windows entries |
| `pipe` | Does the broker keep `RemoteCall`'s promise, does every call return, is a stop obeyed? | 2 clients, a present and an absent key, 2 attempts, all faults |
| `lost_wakeup` | (violated) does `stop` always end the service? | as `pipe`, no fault |
| `lost_reply` | (violated) does the reply of a request that was carried out reach its caller? | as `pipe`, no fault |
| `install` | Does Ok from the installer mean a broker that starts, or nothing left of it, whatever runs, is locked, fails or dies meanwhile? | 2 installers, 1 version and the installed CLI, all faults; 807,981 states |
| `front` | Do the terminal and the window carry out what was asked, once, and show what the machine has? | 2 firmware entries (one a setup the window hides), 1 BCD object, 1 user, a worker and a drawing thread; `Scenes`; chains of 3 processes; 74,811 states |
| `unpaired` | (violated) does a key shown by the window denote an entry? | as `front` |

One paired entry, one Windows-less entry and one more that neither command names
are enough for the order properties: they speak of two entries and a target. Two
processes are enough for every race the code has, because a command writes each
store once. Two clients are enough for `Pipe`: one connection exists at a time, so
a third party only adds another client that finds the pipe busy; two attempts make
one that is retried and one that is the last. Two installers are enough for
`Install`: what it promises of an operation holds when nobody else installs
meanwhile, and a second installer gives every history before it and every step in
between; the version copied does not matter to the properties, and the installed CLI
as a source is a case of its own. There are no counters but the attempts of `Pipe`:
the other state spaces are finite without bounds, but for the two of `Gui`.

`Gui` names its bounds. `Depths` lets a chain have three processes: `escalate` stops
at the second, and the ones that have no such guard (below) are cut at the third.
`Scenes` says which callers act in one behaviour, under which system, with which
commands and faults: a user alone and a window alone meet every fault, a window
with both threads meets deaths (under Windows), and a user beside a window meets
none, since those two only share the machine. Clicks are bound by the scene's commands
like typing. A job's copies are modelled once, so a click waits for what an earlier job
left running.

Fairness in `Pipe`: the service's thread, its handler and the service
manager take a step they can always take, and so does a client, since `round_trip`
waits for nothing but the pipe. Calling, stopping and dying are not fair. A process
suspended while it is connected is outside these assumptions; it would hold the
pipe and the stop, since no read has a timeout.

Fairness in `Install` is no more than `DoomedGoes` needs: an installer that holds the
record open takes its next step, which waits for nobody, and the service manager removes
a marked record once nobody uses it. That a service ends is not assumed, told
to stop or not: `lost_wakeup` shows one that never does. `DoomedGoes` therefore speaks
of a record whose process has ended. Starting an operation, opening the pipe and
restarting are not fair either.

Fairness in `Gui`: the worker, the drawing thread inside an installation and the
processes they started take the step they can take. `Poll` is strongly fair, because
every frame polls before it takes a click and the window repaints while a job runs;
a restart question or a banner action only delays it. Prompts, clicks and typing are
not fair.

`alone` checks that after any sequence of commands, failures and crashes Ok means what
the user asked for (`OkMeansSelected`, and `ClearedMeansDisarmed` as far as the command
could read the store: a load that fails is taken for no store, see below), that
the firmware is always pointed at the store before the store changes
(`FirmwareLeads`), that default and one-shot never disturb each other
(`ScopesIndependent`), that a new default only overtakes (`OthersKeepPlace`) and
that an entry shown as next boots next (`NextShownIsBooted`). Failed reads of variables stay
out of it: `default` then loses entries (`unreadable`), and `clear` deletes no `BootNext`
that it could not read. `together` checks
what is left of that with two processes: permutations, no panic, no half-written
hive at rest, no mixture of two requests, and independence under Windows, where
`bcdedit` edits in place.

`pipe` checks that `Pipe` implements `RemoteCall` (`Implements`): no failure leads to
a second execution, to one after the caller gave up, or to a reply that reaches
another client. `CallsReturn` says nobody waits for ever, `ConnectedIsServed` that a
request in the pipe of a service nobody stops is executed, and `StopObeyed` that a
stop ends the service from every place but one, the one `lost_wakeup` shows.

`install` checks what Ok from an operation that ran alone is worth, and that it stays
so. After an install or a repair (`ReportedServes`) opening the pipe starts the installed
CLI, which the install has copied whole and the repair has found, unless a restart removed
that by an earlier schedule; after an install the task of earlier builds is gone too,
unless `schtasks` failed unseen. After a removal (`RemovedIsGone`) nothing is left but a
record that goes with its last user, files that go with the next restart, and what an
unseen failure kept. Each exception is what the code does, told below. An update or a
repair, of any number of installers, takes a broker that works away at no step, seen to
fail or not, but for a copy that fails half-way (`UpdateKeepsService`: the record is
changed and never deleted); and a removal blocks the next installation only until the
service has ended (`DoomedGoes`).

`front` checks that everything done by chains of copies, relay files, exit codes,
broker requests and jobs implements `Errand` (`KeepsErrands`: a command that failed is
never reported as one that succeeded, whatever else of its chain did), that one command asks
its user once (`OneQuestion`), that what the broker changes is what was chosen on
its first reply (`BrokerSetsChosen`), that a finished job leaves the window showing
what the machine has and the clicked entry selected (`ShownIsTruth`,
`ClickSelects`) and that a job ends unless a prompt stays open (`JobsEnd`).

## What the code does not keep

* `leftover`: `next W11; next ubuntu; reboot` leaves `BootSequence = W11` armed.
  Back in ubuntu, `status` shows no next boot, but starting the Boot Manager
  starts W11 and not the default shown.
* `unreadable`: one failed read of `BootOrder` in `set_default` writes an order
  of one entry.
* `lost_update`: a one-shot command that loaded the hive before another process
  saved a default writes the old default back.
* `two_windows`: `--bcd` with two Windows entries arms the wrong one and says Ok.
* `lost_wakeup`: a Stop between the test of the flag and the creation of the
  instance wakes nobody; the service then waits for a client with its flag set.
* `lost_reply`: the server disconnects right after its write, and Windows discards
  what the client has not read: the selection is made and an error reported.
* `unpaired`: under Linux the list is read without privileges, where the ESP is
  usually unreadable. The Windows entry is shown unpaired as `efi:XXXX`; the elevated
  copy finds the store, lists `bcd:{guid}` in its place and knows no such entry.

What the documentation or the comments contradict without a run of its own. The models
have these steps too; where a property of a passing run excludes one, it names it:

* `clear` takes a store that it cannot load for none (`detect.rs:64-72` turns every error
  into `None`): it deletes `BootNext` and says Ok with `BootSequence` still armed, where
  `mod.rs:354` promises "both mechanisms". The exception of `ClearedMeansDisarmed`:
  `slot[p] = NoSlot` with the fault `load`.
* Under a running Windows `clear` decides by its copy of the store whether there is a
  sequence to delete (`bcdedit.rs:52`). Another process runs `next` after the copy was
  made: `clear` deletes the `BootNext` it armed and leaves its sequence; both are told
  Ok. `together` has these steps, and no property claims that the sequence goes.
* Uninstalling schedules files in use for deletion at the restart, by name
  (`install.rs:504`). A broker that is installed again before that restart loses its CLI
  to it, though "from then on the app ... never prompts" (`packaging/README.md:59-60`).
  The exception `swept` of `ReportedServes`.
* `copy_if_different` writes over the installed CLI in place (`install.rs:314`). When
  the copy fails half-way, or is killed, the broker that worked has a torn executable;
  `is_current`, `repair` and an installation onto itself only look whether the file
  exists. The exception `Torn` of `UpdateKeepsService`.
* What `schtasks` (`install.rs:537`), `RegDeleteTreeW` (`install.rs:605`) and
  `MoveFileExW` (`install.rs:509`) answer is thrown away: Ok is said with the task of
  earlier builds, the uninstall entry, or files in use left for good. "Two elevation
  paths active at once would be a bug", says `install.rs:534`. The exceptions `ignored`
  of `ReportedServes` and `RemovedIsGone`.
* After an uninstall that said Ok, `is_current` holds as long as the service runs: its
  record is marked for deletion and its file in use. A second uninstall fails at the
  record and leaves the rest (`install.rs:490`). `RemovedIsGone` says "not present".

Met while modelling, and left as behaviour of the models or at their edge:

* A repair does not remove the task of earlier builds.
* Between the stop and the new record a client may start the service of the earlier
  location again.
* `run_install`, `run_uninstall` and the relaunch of the window have no guard like
  `escalate`'s: where a prompt gives no privileges each copy asks again. `OneQuestion`
  excludes them.
* Killing the middle process of an elevation chain reports a failure while its child
  still carries the command out: `Errand` lets a failed errand be done later.
* After a job that failed half-way the window keeps the list of before; a banner
  action that succeeds then clears the error. `ShownIsTruth` claims nothing there.
* The comment "Writes never happen on the UI thread" (`gui.rs:8`) is not true of
  `no_prompt_banner`.
* `run_power` does not look at the exit status of the tool it starts; a worker that
  panics ends without a word; the relay in `/tmp` may be unwritable for root where
  sticky directories are protected; `broker_dispatch` ignores `--bcd`.

## Proofs

`EntriesProofs` has the lemmas about lists and orders: `MoveToFrontPermutes` (a new
default permutes the order), `EntriesComplete` (every entry that is to be
listed is, whatever the permutation), `KeyFinds` and `FoundHasKey` (`find` by a key gives the
entry of that key), `PairedHome` (which entry detection pairs).

`SwitcherProofs` proves, for any processes, entries, objects, selectors and (but
where said) faults:

* `TypeCorrect`: `Spec => []TypeOK`. `TypeOK` is not inductive: a command may only
  write `target[p].id` if it has a target. `Prepared` says what each place needs;
  `TypeInv` is both.
* `OrderCorrect`: if reads do not fail, `Spec => []OrderIsPermutation`, by
  `OrderInv` (the orders in flight are permutations too) and
  `MoveToFrontPermutes`.
* `PanicFree`: if reads do not fail, `Spec => []NeverPanics`, by `AimInv` (the
  target stays an entry of the list its process would print: editing and
  reloading the copy keep its pairing), `EntriesComplete` and `KeyFinds`.

`ScopeProofs` extends it:

* for any number of processes, `LiveScopes`: under a running Windows the two scopes
  are independent (`StepsInv`: each verb has its places, and nobody saves the file
  there); `StoreStaysWhole`: unless writers die, the hive is whole when nobody runs
  (`WholeInv`: somebody is about to complete a file cut short); `ShownIsBooted`: with
  one Windows entry, what is shown as next boots next (from `OrderInv` and
  `EntriesComplete` alone).
* for any number of processes on a machine with one Windows entry, `OneRequestHolds`:
  when all set the same scope and were told Ok, one of their requests holds, and not a
  mixture. `BringsInv` says what each process brings to its two writes; `LastInv` that,
  once all are past the firmware, it points at the target of one of them, and once all
  are past the store, both halves are those of one. With two Windows entries and
  `--bcd` it is false, and TLC shows it: the objects of one store are then reached
  through different firmware entries (the cause is that of `two_windows`).
* for one command at a time on a machine with one Windows entry (`Alone`), where
  reads do not fail: `LoneScopes`, `FirmwareFirst`, `OthersKept`, by `LoneInv` (its
  copies are what the machine has, and the firmware's half is done before it turns to
  the store). With several processes `lost_update` shows that these fail.
* the same, whether or not the hive loads: `OkIsSelected` and `ClearedIsDisarmed`, by
  `DoneInv` (what is true at the places before an answer and stays so until the next
  command). That reads of variables do not fail is needed: `clear` reads `BootNext`
  before it deletes it.

`PipeProofs` proves, for any clients, keys, attempts and faults:

* `PipeTypeCorrect`: `Spec => []TypeOK`.
* `PipeImplementsCalls`: `Spec => RC!Spec`. Both rest on `PipeInv`, which says how the
  three sides stand to each other: the instance exists while the server is on it
  (`InstanceFollowsServer`), a request in the pipe is its peer's, or that of a client
  that died, and not yet executed (`InboxIsPending`), a reply answers the request of
  the peer (`ReplyIsPeers`). `Serve` is then an execution, the end of `round_trip` a
  return, and every other step a stutter.

`InstallProofs` proves, for any installers, versions and faults: `InstallTypeCorrect`,
`ReportsHold`, `RemovalsHold` and `UpdatesKeepService`, all by `InstallInv`. What an
operation reports is true only because nobody else ran (`AloneInv`), files go only
after the record that points at them (`RemoveInv`, which is also why a broker that an
update meets keeps working), the CLI is there when a record is about to point at it
(`CliInv`), and an operation keeps what it has done until it reports (`ProgressInv`).
`Faults` is any set of failures here, the unseen ones and torn copies among them: the
theorems name what each leaves behind and assume none of them away.

`GuiProofs` proves, for any callers, entries, scenes and faults of `Cli` and `Gui`
together, with chains of three copies:

* `ErrandsKept`: `Spec => KeepsErrands`, the refinement of `Errand`, and `AskedOnce`:
  `Spec => []OneQuestion`. Both rest on `GuiInv` (theorem `Invariance`), which has five
  parts: of the copies of one caller only the last one acts (`ChainInv`); it acts for a
  command nobody has carried out, and an Ok waiting to be collected is of one that was,
  and well (`DutyInv`); the verb decides the places, and an elevated half has its parent's relay
  file unless the window's worker started it, which is why `escalate`'s guard stops at
  the second copy (`RouteInv`); one prompt was shown per copy above (`PromptInv`); the
  thread of a job and its channel are never both busy (`WorkerInv`). Without `DutyInv`
  a second execution after a kill is not excluded, without `ChainInv` an action of a
  copy that its parent waits for.

`WindowProofs` proves `ShownIsTrue`: `Spec => []ShownIsTruth`, by `ShownInv`: as long as
nobody else changes the machine, the list of a job that went well is what the window's
own rights show of it, from the thread over the channel to the screen. A job that
went past the broker for want of one still has none (the list that it
reads by itself would otherwise not be the one that the broker shows).

`ClickProofs` proves:

* `FrontTypeCorrect`: `Spec => []TypeOK`, by `DataInv`, which has in addition that the
  boot order is always a permutation.
* `BrokerSets`: `Spec => BrokerSetsChosen`, by `ChoiceInv`. The entry chosen on the
  broker's first reply is on every later list, since lists over any two permutations
  have the same entries (`ListsSeen`), and a key finds no other (`SameKey`).
* `ClickSelected`: `Spec => []ClickSelects`, by `KeysInv` (what is drawn is on the list
  of the window, and a job names an entry of it by its key) and `ChangeInv` (a change
  that succeeded selected the entry of that key on the full list). The window's list is
  shorter than the one the change is made on: that the two agree on a key that both
  have is the content of the proof; `unpaired` is the case where only one has it.

These invariants were checked by TLC on the instance of `front` before they were
proved. The theorems about safety use no fairness: they hold for `Init` and `Next`.

The assumptions on constants are those of `BootEntries`, `Switcher`, `Pipe`,
`Install`, `Cli` and `Gui`, which TLC evaluates in every run. `KeyAssumption` says that
`Ids` and `Guids` are disjoint: the keys of entries begin with `efi:` or `bcd:`.

Only model-checked: the liveness of `Pipe` (`CallsReturn`, `ConnectedIsServed`,
`StopObeyed`), `Install` (`DoomedGoes`) and `Gui` (`JobsEnd`), which is out of the
prover's reach with everything that needs ENABLED. Every other property of a passing
run is stated by a theorem. No module declares a RECURSIVE operator.

## Not modelled

* The load option parser (`efi/load_option.rs`) and the registry file format of the
  hive: pure functions over bytes, total by their bounds checks and tested over
  examples; what the rest depends on is that an entry that does not parse is skipped
  and that Windows is recognised, which `Ids` and `WinIds` stand for.
* Shortcuts, `provenance.rs`, the console, the icon, the language, the event log, the
  privilege of the token, the menu entry toggle: no state that the rest reads.
* `--bcd` in `Cli` and `Gui` (it is in `Switcher`), `run-service` and `repair-service`
  as commands (they are `Pipe` and `Install`), `--purge` (no caller passes it on).
* The service's own registration with the service manager, beyond what `Pipe` and
  `Install` have of it: start, stop, end.
* An unprivileged window under Windows whose broker was removed: it lists nothing
  until it is closed (`Sees` excludes it).

## Left to do

1. `Install` under `Cli`'s `install` and `uninstall`, and `Switcher` under their
   commands, as compositions rather than two models of the same command.
2. `unpaired` bounds `ClickSelected`: which keys of the window's list the elevated copy
   knows, as a theorem of its own.
