# Alt-F: TLA+ models of the firmware's own logic

Alt-F is an alternative firmware for the D-Link DNS-32x family of two-bay NAS
boxes. Most of the repository is a buildroot tree (`src/alt-f/package`,
`toolchain`, `target`, `local`): packages, patches and build configuration of
third-party programs. What Alt-F itself adds is a small set of daemons in C
(`package/alt-f-utils/alt-f-utils-0.1.11`) and the shell scripts under
`customroot/` that boot the box, mount disks, keep settings in flash, run
services and back the web interface. This project models that part.

## 1. Inventory

| Component | Source | State it keeps | Operations |
|---|---|---|---|
| sysctrl main loop | `sysctrl.c` | button state machine (`state`, `count`), stored button, signal mask, configuration | one iteration a second; signal handlers; user scripts run inline |
| sysctrl LEDs and RAID status | `sysctrl.c` | `leds_pqueue`, `degraded[]`, `leds_state` | `md_stat`, `check_syserrlog`, `leds_proc` every 5 iterations |
| sysctrl disk power | `sysctrl.c` | `disks[]` (counters, last access, power state) | `hdd_powercheck`, `read_bay`, `read_misc`, `spindown_disk` |
| sysctrl fan control | `sysctrl.c` | smoothed temperature, warning latches, files under `/tmp/sys` | `fanctl` every 15 iterations |
| temperature lock | `sysctrl.c`, `dns320-temp.sh` | `/var/lock/temp-lock` and its `pid` file | `dolock`, `clearlock`, `write_temp` |
| sysctrl single instance | `sysctrl.c` | `/var/run/sysctrl.pid` | `check_other_daemon` |
| MCU daemon | `dns320l-daemon.c` | client table, serial port, last pwm and LED values | `poll` loop, client commands, `readset_temp`, `readset_powerled`, alarm |
| disk hotplug | `hot.sh`, `hot_aux.sh`, `eject` | `/etc/bay`, `/etc/fstab`, fsck queue under `/tmp`, mounts, swaps, md arrays | add and remove disk, partition, array; fsck then mount; eject |
| settings in flash | `loadsave_settings` | `set_*` files of the flash partition, `/etc` files, saved stamp | load, save, clear, to/from Alt-F directory |
| aufs union | `aufs.sh`, `rcS` | union branches, `/tmp/.aufs-lock` | mount, unmount, reconcile |
| services | `init.d/common`, `rcall`, `rcS`, `rcE` | running services, boot and shutdown order | start, stop with dependencies |
| backup | `usr/bin/backup` | lock directory, pid files, `current` link | queue, run, rotate |
| firmware images | `dns323-fw.c` | none | merge, split, checksum |
| ipkg front end | `usr/bin/ipkg` | installed packages | install, upgrade, clean |
| web interface | `usr/www/cgi-bin` | none of its own | forms that edit configuration files and call the scripts above |
| buildroot and packages | `package`, `toolchain`, `target`, `local` | - | build-time only |

How they interact. The kernel's hotplug events run `hot.sh`, which rewrites
`/etc/bay`; inotify tells sysctrl, which re-reads it in a signal handler. The
temperature and fan of a box reach sysctrl through files in `/tmp/sys`, written
by the kernel, by `dns320-temp.sh` (under a directory lock) or by
`dns320l-daemon` (without one), which also reads the pwm that sysctrl asks for.
sysctrl runs user scripts, `eject`, `recover` and `poweroff` inline, in the same
loop that samples the buttons. `init` respawns the MCU daemon and
`dns320-temp.sh`, but not sysctrl.

What is hard here: signals against a loop that runs programs; two daemons that
agree on files without a lock, or on a lock that is a directory anyone may
remove; static state that outlives the disk or the array it describes; retries
that forget; boot, hotplug and the web interface running the same scripts at
once; crashes between two steps of a save.

What makes each part correct. A press must do what the LEDs announced, and
nothing when fewer than three samples, of all buttons together, saw one; a stop
request and a power button that stays pressed must not be starved by dialogues
and scripts; an indication must last as long as its cause and no longer; a disk
must not be stopped while used, as far as its counter can tell, and must sleep
when it is not used; the fan of a hot box must run whatever is lost or torn on
the way; a daemon's table must never overflow, leak or close another client's
descriptor; a save must leave a set that can be loaded; two fsck never run on
one disk; two runs of a backup never work at once, and leave the copies asked
for. Section 5 lists where the code falls short of this, and section 4 what
exactly the properties say.

## 2. Plan

The modules, in the order in which they were written, most important first:

| Module | Source | Promise or abstract specification | Proved |
|---|---|---|---|
| `FrontPanel` | `sysctrl.c` main loop | a press does what was announced; nothing is starved | safety |
| `PanelLeds`, composes `FrontPanel` | `sysctrl.c` LEDs, `md_stat` | implements `FrontPanel`; LEDs tell the truth | refinement, safety |
| `DiskPower` | `sysctrl.c` `hdd_powercheck` | two ways to a spindown in use, and no other | safety |
| `FanControl`, composes both daemons | `fanctl`, `readset_temp` | the fan file is true, a hot box is cooled | safety |
| `ClientTable` | `dns320l-daemon.c` `poll_wait` | a table of clients without leak | safety |
| `McuDaemon`, implements `McuService` | `dns320l-daemon.c` `SendCommand` and handlers | `McuService`: success means obeyed | refinement |
| `TempLock`, composes single instance and lock | `sysctrl.c`, `dns320-temp.sh` | a mutex with takeover; one sysctrl | safety |
| `FsckQueue` | `hot_aux.sh` | one fsck at a time, every job ends | safety |
| `SettingsFlash` | `loadsave_settings` | a reported save survives a power cut | safety |
| `BackupQueue` | `backup`, `status.cgi` | one run at a time, exactly the newest copies kept | safety |
| `FirmwareImage` | `dns323-fw.c` | split after merge gives the parts back | safety |

Worth adding next: `eject` and the removal of partitions beside `FsckQueue`; the
stop and start order of `rcall` with a service that does not stop; an abstract
"set of connected clients" that `ClientTable` implements, and one "set of saved
versions" for `SettingsFlash`. Every safety property of a run that is expected to
pass has a theorem.

## 3. Modules and code

Short names: `sysctrl.c` and `dns320l-daemon.c` are the two files of
`src/alt-f/package/alt-f-utils/alt-f-utils-0.1.11/`. `PROJECT.json` maps every
definition to its lines.

**FrontPanel.** `mainloop()`, `debounce()`, `back_button()`,
`exec_userscript()`, `poweroff()`, `reboot()` and the signal handlers. `pc` is
the daemon's position: `top` of the loop, `poll` (the buttons are sampled next),
`back` (in `back_button`'s do-while), `script` (in `waitpid`), `sleep`, `gone`.
`job` is the child process with what its caller does next and its `alarm`.
`BeginIteration` blocks signals and may run the temperature command inline;
`PollBack`, `PollHeld` and `PollReleased` are the three ways an iteration goes on
after `debounce()`; `Advance` is the `switch` on `state`. A button's queue of
input events is represented by its last event, which is all that `debounce()`
uses. `fan_count` and `powercheck_count` wrap where the code resets them.
`fronts` and `backs` are history: the samples of the front and of the back
buttons that the dialogue under way rests on, counted up to `REBOOT`.
Environment: presses and releases, signals, a clock that is set during a press,
scripts that end or hang, alarms, and the MCU's power button. That is
`/tmp/sys/power_button`, a link of `rcS` to the level of a gpio line: `McuButton`
presses it or lets it go at any time, and `debounce()` sees what is there when
it looks.

**PanelLeds** extends `FrontPanel`: `Released`, `Held`, `Back`, `Returns` and
`Other` are the steps of `FrontPanel` with what they do to the LEDs.
`StatusCheck` is one pass of `md_stat`, `check_syserrlog`, `leds_set` and
`leds_proc`, in that order. Environment: md devices that come, degrade and go, a
log that other programs write and empty, disks that change power mode.

**DiskPower.** `hdd_powercheck()` is a sequence of steps, and disks are used,
fall asleep and are swapped between any two of them: `Begin`, for each slot of
the table in its order `Look` (`CHECKPOWERMODE`, `dstat()` and the decision) and,
if it so decided, `spindown_disk`, and at the end `PowerLed`. `dpmf` is the
sum so far. `read_bay` and `read_misc` are the inotify handler, which runs
between two checks only, as signals are blocked in an iteration. `Opaque` are
slots whose disk answers `CHECKPOWERMODE` with an error, `Swaps` those whose
disk may be replaced. `since` is `time(NULL) - last_access`. History: `idle`, the
true idle time; `hit`, the disk about to be stopped was used or came after its
counter was read; `heirs`, the slots whose counter is that of the disk before.
The names `DInit`, `DNext` and so on (`LInit`, `LNext` in `TempLock`) keep it apart
from `FanControl`, beside which `SysctrlProofs` extends it.

**FanControl.** `fanctl()` (four steps: first read, read, decide and truncate,
write) and `readset_temp()` with `setfan_cmd()` (six steps) interleave at every
file access. A file is truncated by one step and written by the next, so a
read in between sees `Empty`. `Mishaps` names what may go wrong - a torn read, a
lost command, a client that asks for a speed, a daemon stopped or killed - each
once and at most `MaxMishaps` of them; `had` remembers which did.
`Unset` leaves open whether the fan obeyed a command whose acknowledgements were
lost. Temperatures are kept in tenths, as `0.9 * t + 0.1 * temp` needs.

**ClientTable.** `poll_wait()` and `poll_setup()`. `Poll` computes the events of
all entries at once, `Serving` takes them in the order of the table, and every
branch of the loop is an action: `Delay` (table full), `Accept`, `AcceptFails`,
`Disconnect` (`recv` returned 0), `Command` (with the `Drop` of a client that
quits or cannot be answered, whose entry stays), `Hang` and `Shutdown`. The
kernel gives the lowest free number to a new connection, which is what makes a
kept entry dangerous.

**McuDaemon** and **McuService.** `SendCommand()` is four actions - `Send`,
`SendError`, `Receive`, `Timeout` - over a line (`wire` to the MCU, `out` and
`port` back) whose packets may be lost, garbled or late; `ClearSerialPort` drops
what has arrived, not what is still under way. Handlers are sequences of calls:
`WriteAlarm` writes register after register, reads them back (`ReadNext`) and
enables what it read (`ArmRead`, `Armed`); `SetPowerLed` and `ReadsetPowerLed`
serve the LED files, which `Program` writes too; a client switches the LED on or
off or makes it blink (`ClientLeds`). `done`, `sure` and `blinks` are history:
the command of this call was carried out; nothing old was on the line when the
call began; the last blinking was a client's. `McuService` says what a caller may
rely on, with no line at all;
`Promise` is the refinement.

**TempLock.** A process is its pid. `check_other_daemon()` is `Open`, `ReadPid`,
`UnlinkPid`, `Reopen`, `WritePid`; `dolock()` is `Mkdir`, `Retry`, `Exhaust`,
`Examine`, `Creat`, `Name`, and `clearlock()` is `Unlink` and `Release`, each
one system call, for `write_temp()` of the shell script as well. `ExecFails` is
the child that goes on as a second sysctrl. `race` is set when the lock was
released, or was in other hands, while a waiter examined it; `crowd` when two
starts overlapped.

**FsckQueue.** One action per command of `hot_aux.sh` that touches a shared
file, from `check()` over the fsck to the mount. `pids` are the
`check-*.pid` files (absent, empty, or naming a job), `waits` the `wait-*.pid`
files. `Look` and `Extra` are the two outcomes of the loop over the pid files,
`Dangling` and `TakeOver` what happens when there is none. `Kill` takes the fsck
with its job. `robbed` is set when the lock of a live holder was taken or
removed, or a lock was taken over just as it was released.

**SettingsFlash.** `flash` maps a date to the version saved in that set, to
`None` or to an incomplete file of some size. A save is `Save` (status), `Tar`,
`Copy`, `Remove` and `Copy` again while there is no room, `Prune`, `Stamp`. A
box starts booted, with an empty flash or with up to `Keep` sets of earlier
saves. A copy for which there is no room fills what is free.
`PowerCut` may happen at each, leaving the set under way whole, short or empty
while the flash is mounted. `LoadByHand` and `Boot` share `Load`, which touches the
stamp whatever came of it.

**BackupQueue.** `exclusive()` (`Lock`, `Queued`, `Claim`, `Unlock`),
`do_backup()` (`Prepare`, `Copy`, `Unlink`, `Link`, `Clean`) and `cleanup()`
(`Lock`, `RemovePid`, `Unlock`). `clean_logs()` counts once (`Count`, with
`Surplus` the removals it wants) and removes one directory after the other
(`RemoveOldest`). A copy is "part" until its rsync or cp succeeds, and stays so
when that fails, as the script continues anyway. rsync and cp are children of
the script: `Kill` during a copy leaves an "orphan", which goes on beside the next
run, may make its copy whole (`OrphanEnds`), and may put files back into a
directory that is being removed ("torn"). The pid of a killed run stays in the
file and may be given to another program (`Reuse`). `strays` is history: the copy
of a killed run went on during the last `clean_logs()` or since. `PageLooks`
and `PageRemoves` are the status page, which uses no lock; `robbed` says that
it removed the pid file of a live run.

**FirmwareImage.** `readwrite()` is `Copied` and `Checksum`: blocks of `Block`
bytes, a short last block filled with zeros, whole words of `Word` bytes only.
`savecomp`, `GiveUp` and `save_header` are `merge()`; `Open`, `savefile` and
`Finish` are `split()`. A byte is a bit, and a U-Boot image is a file that
starts with 1. In between the file may be changed (`Flip`) or shortened (`Cut`);
the header is not, as it has no checksum. The placeholder that `merge()` writes
first is an uninitialised structure, taken not to contain a signature.

The `MC` modules only name configurations and mishap bounds. Definitions whose
comment begins with "Mutant" are variants of the definition below them, used to
see that a property depends on it; no specification uses them.

## 4. Runs

| Run | Bounds | Shows |
|---|---|---|
| `front_panel` | front and USB button, 3 presses, two configurations, both signals, MCU board, clock changes; buttons are let go (`QuietSpec`), no arrays, disks or log writers | the iteration is a critical section; `HALT`/`REBOOT` need a sample of the front button, and 3/6 of all buttons; a stop request and an MCU button that stays pressed are always served |
| `panel_leds` | front button, 2 presses, one array, log, one disk | LEDs announce the action; down only on release; degradation and a full log are shown again and again; a clean status puts the LEDs out |
| `disk_power` | one telling and one opaque disk, both swapped and used at every step of a check | a disk is stopped in use in two ways only; idle opaque disks sleep; table and power LED follow the disks |
| `fan_control` | 42 and 55 degrees, any two of five mishaps | fan file true; requested pwm obeyed; hot box cooled; critical command run |
| `client_table` | 2 places, 3 clients | no overflow, no leak, no foreign close, backlog served |
| `mcu_daemon` | 1 retry, 2 registers, 2 mishaps, 2 requests, client's LED on, off and blink, 1 write to the LED files | success means obeyed; one mishap is always masked; the told alarm is the set one; LED and files agree at last |
| `temp_lock` | 2 sysctrl, 1 script, one kill, one reused pid, one slow holder, one failing `execl` | exclusion, no needless lockout, one sysctrl, waits end |
| `fsck_queue` | 3 jobs on 2 partitions (one repeated event), one kill | one fsck, forced check not forgotten, LED, every job ends |
| `fsck_parallel` | 2 jobs and a CD, nobody killed, limit 5 | **violation**: two fsck at a time |
| `settings_flash` | 4 versions, 5 dates, room for 4 units, keep 3, remove 3, up to 3 sets at the start, one power cut, one clock set back, one load by hand | reported save survives and is booted; room is made; edits are not hidden |
| `backup_queue` | 3 runs, keep 2, one failure, one kill with its copy going on, reused pids, one status page | one run; exactly the copies asked for, link on the newest; whole copies kept; every run ends |
| `firmware_image` | files up to 7 bytes, words of 2, blocks of 4, one flip, two bytes cut, one kill | what is saved is what was merged; damage found; no half image |

Why the bounds are enough. *Presses*: two are needed to nest a back button in a
front one, a third to press the front button again behind it. The counters
saturate at 10 (`CountCap`, one more than `ABORT`) because the code compares
them with 3, 6 and 9 only; hold times saturate one above `ClearHold`, and the ten
and twenty seconds of the code become 0 and 1 units, which keeps the three
branches of `back_button()` reachable. `FanInterval` (15 in the code) is 1 or 2:
only whether `fanctl` runs in an iteration matters. `CheckInterval` (5) is 2 in
`panel_leds`, so that iterations without a check lie between two checks.
*Disks*: one time unit of programmed spindown and counters up to 2 tell "moved",
"not moved" and "smaller than before" apart. *Fan*: the thresholds are the
defaults of sysctrl (38, 45, 2, 52, 54); 42 lies between the two fan
thresholds, 55 makes the smoothed temperature pass through the warning
range into the critical one; two mishaps are enough for one to hide the other.
*Clients*: with two places, three clients fill the table and leave one waiting,
and a number can be reused while its old entry is still there. *MCU*: two
mishaps are one more than the retries mask; two registers give a command after
the first, whose late answer can meet another. *Lock*: with one try every wait
can come to the look at the owner; three processes are a holder and two that
look. *Fsck*: `Limit` is 2 instead of 5, so that looks need to be consecutive.
*Flash*: a box that starts with as many sets as are kept makes `Prune` remove one
at the first save, the last version is as large as the flash, so that `Remove` has
to make room, and three sets kept leave a reported one its place beside the
remains of one cut and the set being saved. The script keeps ten sets and tries
five times; the theorems hold for all numbers. *Backup*: as many runs as are
needed for one to hold, one to wait and one to come late, one more copy than is
kept, and a run that can overtake the copy of a killed one.
*Image*: lengths below, at and above a word and a block, and an optional
part between two others.

Fairness. The daemons are loops without conditions, so their steps are weakly
fair. `BeginIteration` is strongly fair: a signal cuts `sleep(1)` short and is
delivered first, so a pending signal disables the step again and again, but once
the handler has returned `sleep` is over and the loop goes on. Scripts are
assumed to end. Fingers are not assumed to leave the buttons; liveness
properties of the LEDs say "or a finger stays on a button" instead.
`FanControl` uses strong fairness of each daemon, because a bounded number of
torn reads is expressed by disabling a read between the two steps of a write;
the code never waits there. `ClientTable` assumes that clients end their session
and that `accept()` does not fail for ever (strong fairness of `Accept`).
`DiskPower` assumes that the check keeps running, that time passes and that
the inotify handler is called after a change: its signal waits while a check
runs and is delivered at its end, hence strong fairness of `read_bay`; nothing
is assumed of the disks and their users. `McuDaemon`: the daemon's loop, the
MCU and the line go on; losses are bounded. `TempLock` and `BackupQueue`: a
process that lives goes on; waiting for a directory that others hold for moments
only is strongly fair, as the loops poll it; nothing is assumed of copies that
outlive their run and of programs that get an old pid. `FsckQueue`: jobs go on, so every
fsck and mount ends. `SettingsFlash` and `FirmwareImage` state safety only.

A property that is a conjunction names its parts. `Safe` is `TypeOK`,
`CriticalSection` and `CountCoversState`; `LedsFollowCauses` is `DegradedShown`,
`LogShown` and `StatusClears`; `ModesFollowed` is `ModeTracked` and
`PowerLedFollows`; `Bookkeeping` is `NfdsExact`, `SlotAvailable`,
`OwnDescriptor` and `NoLeak`; `StoreKept` is `TypeOK`, `RotateKept` and
`CurrentIsLast`; `SplitInverts` is `TypeOK`, `RoundTrip` and `AcceptsOwn`.
`CountCoversState` speaks of samples and not of one press: samples of a back
button count for the front one too (section 5). `RotateKept` is an equality: the
newest copies, as many as asked for, and nothing else. Where
section 6 proves the type invariant for every instance, the run does not repeat it.

Stopping: instances whose processes run a bounded number of times and end
(`CHECK_DEADLOCK FALSE` in `McuDaemon`, `TempLock`, `FsckQueue`,
`SettingsFlash`, `BackupQueue`, `FirmwareImage`) may stop; the others are
checked for deadlock. A daemon that has ended stutters explicitly in
`FrontPanel` (`Gone`) and `PanelLeds`.

## 5. Findings and known limits

`fsck_parallel` (`hot_aux.sh:304`): a partition without an fsck command never
takes `/tmp/fsck_lock` but removes it on its way out, under the fsck of another
partition; the next waiter starts a second fsck, against `hot_aux.sh:24`. The
history variable `robbed` keeps this case out of the other properties.

Read in the code while modelling; the models have these steps, and the properties
are stated so that each exception is named in them:

- `sysctrl.c:330`: `continue` after `back_button()` keeps `state` and `count`, and
  `debounce()` has one stored button, so with two buttons the release of the back
  one looks like the release of the front one. `DownOnRelease` is checked with the
  front button alone. Two samples in a back button's dialogue and one of the front
  button make `HALT`, which powers off: `CountCoversState` asks for no more.
- `sysctrl.c:1335`: the MCU's power button is read once an iteration and nothing
  remembers it: a press that is over by then, or during a script, is missed.
  `McuButtonServed` is about a button that stays pressed.
- `sysctrl.c:493`: `alarm()` is armed with `SIGALRM` blocked by the main loop, so
  a user script holds the loop for as long as it runs.
- `sysctrl.c:1246`: an md device that is gone keeps its entry in `degraded[]`.
- `sysctrl.c:1192`: counters outlive the disk that was replaced: a new disk that
  cannot tell its mode may be spun down in use, or, where the old one slept, not
  at all, until it has had more I/O than the old one. `sysctrl.c:1191`, `1201`:
  a disk used between the look at its counter and the command is stopped all the
  same. These are the two exceptions of `SpinDownOnlyIdle` (`heirs`, `hit`).
- `sysctrl.c:870`: a reused pid locks every waiter out; two waiters that examine
  the same stale lock both take it.
- `sysctrl.c:519`: of two overlapping starts both may survive a stale pid file.
- `dns320l-daemon.c:1106`: `old_pwm` is set before the command is known to have
  worked, so a lost fan command is not repeated.
- `dns320l-daemon.c:385`: a client's PowerLedBlink leaves `curr_led_brightness` at
  what it was. When the trigger is then set to none with that brightness, line
  1072 sees no change, and the LED blinks on: the exception of `LampAgrees`.
- `loadsave_settings:276`: the stamp is touched after a load that failed, and
  "No modified files since last save." is then said of unsaved settings; an edit
  during a save is hidden likewise; after the clock was set back the newest
  set is pruned first and not the one that boots; a power cut during the copy leaves an incomplete
  set that the next boot prefers, and then loads nothing.
- `loadsave_settings:187`: the incomplete sets that power cuts leave count among
  the ten kept, so that after nine cut saves the last reported one is pruned;
  `SavedSurvives` bounds the cuts by the sets kept.
- `backup:75`: the directory "mirror" of FTP and HTTP counts as a backup: with
  Rotate 1 the one just made is removed (`Mirror = 1`). `backup:46`: the lock of
  a killed run stays; `backup:58`: the pid it leaves may be another program's.
  Both keep the later runs waiting for ever. `status.cgi:512`: the pid file of a
  run that has just come may be removed.
- `backup:153`, `160`: rsync and cp outlive a script that is killed, and
  `exclusive()` looks at the script's pid only, so that the next run copies, and
  cleans up, beside the orphan. `OneBackup` counts runs; `RotateKept` allows more
  directories than asked for while the orphan may have been in the way.
- `dns323-fw.c`: the last bytes of a part that fill no word, and a part whose words
  cancel out, are not covered by the checksum; `size_ok()` always agrees, so that
  an image that lost words that cancel out is accepted with a shorter part. The
  comment at line 195 says that the bytes beyond the end are not saved; line 205
  writes the filled block.
- A release in `HALT` powers off where `sysctrl.c:12` says reboot; a button kept
  pressed past `ABORT` starts over; the lowest level of
  `leds_pqueue` wins for one check; the power LED goes out when one active disk
  and one of unknown mode sum to 0; a client's fan command is not undone by the
  next unchanged pwm; a killed MCU daemon leaves its socket and cannot be started
  again; at exactly the critical temperature neither command runs; a clock
  that is set during a back-button press changes its measured length.

## 6. Proofs

All are checked by TLAPS for every value of the constants that the named
assumptions allow. Each proof module extends the module it is about;
`SysctrlProofs` extends three that share no state with each other: `FanControl` and
`DiskPower`, the two checks of the main loop, and `TempLock`.

- `PanelLedsProofs!Safety`: `Safe`, that is `TypeOK`, `CriticalSection` and
  `CountCoversState`, for the steps of `FrontPanel`, which `PanelLeds` extends.
  Inductive invariant: these, `JobRunning` (a job exists exactly while `pc` is
  `script`), without which the return of a script could find none, and
  `SamplesCount`: `count` is never ahead of the samples of this dialogue.
- `PanelLedsProofs!FrontOnly`: with the front button alone, `DownOnRelease`. The
  strengthening `FingerKnown` says that the last event, or the stored button when
  no event is pending, is the finger's position. With two buttons it is false,
  which is the finding above.
- `PanelLedsProofs!PanelRefines`: `PSpec => Spec`, each step a step of
  `FrontPanel` or a stutter; `PanelSafety` carries `Safe` over.
  `LedsTruthful` adds `NoDialogue`: with the front button alone `back_button` is
  never entered, so no step but the switch writes the LEDs while it is held.
- `SysctrlProofs!SpinDownSafe`, for every set of disks that are swapped. Invariant:
  for an opaque disk that is not an heir the remembered counter is never ahead of
  the disk's, and once equal the computed age is at most the real idle time
  (`CountersAgree`); a swap breaks exactly this. A disk that is about to be stopped,
  neither an heir nor hit, is idle for longer than its time, and stays so up to the
  command, as the time cannot change inside a check (`DoomedIdle`).
- `SysctrlProofs!FanTruthful`: the file lags behind `fanSpeed` only between the
  two steps of its write (`Lag`), and as long as no command was lost the fan does
  what `fanSpeed` says. No assumption on thresholds, temperatures or mishaps is used.
- `ClientTableProofs!TableSound`: `Bookkeeping`, for every `MAXFDS` above 1 and every set of
  clients. The invariant has the exact count of `nfds` and four statements about
  entries whose number is closed: they are reported invalid before entry 0 is
  served (`ClosedSeen`), share a number only with a newly filled entry
  (`SharedStale`, `Reused`), and pending events of other entries are on open
  numbers (`EventsSound`). `FreeEntry` and `NothingLeaks` are two of its parts.
  `KeptOpen` proves `ClientKept` with two more: a client has one descriptor
  (`Once`), and a pending event is true of whoever has the number now
  (`EventsTrue`), so that a close on an event only meets a client that has left
  or said quit.
- `McuDaemonProofs!McuPromise`: `Spec => Promise`, for every number of retries,
  registers and mishaps. The invariant (`OwnLine`) says that until the MCU has
  obeyed a call that began on a quiet line, nothing is on the line but that
  call's own command, so an acknowledgement or a value can only come from a
  command that was carried out. `RetriesSuffice` and `AlarmKnown` rest on `Told`:
  after such a call only copies of its command and their answers are on their way
  (`OwnAnswers`), success is an obeyed command (`Obeyed`), every failed attempt
  cost a mishap (`Paid`), and the handlers go through the registers in order
  (`Script`, `Progress`).
- `SysctrlProofs!LockMutex`: the inductive invariant (`OneHolder`) ties the pid
  file to the holder: while nothing raced, the directory exists as long as there is
  a holder, and one that is "in" is named, so that whoever examines the lock finds
  it owned by a live process. `SingleInstance` (`OneInstance`) ties sysctrl's pid
  file to the one that runs: with no overlapping start, a running sysctrl is the one
  the file names, and one that is about to replace a stale file is alone.
  `DeadLocksNobodyOut` adds that the file names only who is in, on its way out or
  dead (`NamesHolder`), and that who comes to examine the lock, while nobody was
  slow, finds nobody in it (`Abandoned`): a pid found alive is then a reused one.
- `FsckQueueProofs!FsckAlone`: as long as nobody was robbed, there is at most
  one job past the lock, and the lock exists while there is (`OneHolder`); a job
  that still waits has looked fewer than `Limit` times (`Places`). `FsckLed`
  adds that a check file belongs to a job that is about to check or does, and
  that a beating LED belongs to a job (`LedBeats`). `FsckForced` says for every
  partition that is due who keeps `FSCK_FORCE` for it (`ForceKept`): its wait file
  until a job for it has the lock, and that job from then on.
- `SettingsFlashProofs!SaveSurvives`: the invariant `Held` names a set with the
  reported version after which there are only sets that cuts left, and perhaps
  the one being saved: fewer than `Keep`, so `Prune` leaves it. It needs that dates are
  not used twice while the clock goes forward (`Dated`) and that what `Copy` did
  is what `Prune` and `Stamp` assume (`Copied`). `RestoredAtBoot` adds that with
  no save begun since, the reported set is the newest (`Newest`), `StatusTrue`
  that an edit after the stamp is younger than it or known to be hidden (`Told`).
- `SettingsFlashProofs!RoomMadeTrue` proves `RoomIsMade` with a second invariant
  (`RoomInv`): what a set takes is a column of blocks, so that `Used` is a
  cardinality, a removal makes it smaller and a copy adds at most its own column
  (`LessUsed`, `MoreUsed`). `Counted` bounds the sets by `Keep` and one for every
  cut, `WholeSets` says that only the set being retried is incomplete, and `Freed`
  that every try has removed a set other than it, and so a unit. The attempt to
  prove it corrected the property: it was first stated for at most `Keep` sets, but
  a cut before `Prune` leaves one more, which a longer clock shows as well.
  `FlashNeverOverfilled` is the rest of `TypeOK`: `Used(flash) <= Room`.
- `BackupQueueProofs!BackupsExclude`: whoever is past `Claim` and not yet through
  `RemovePid` is named by the pid file (`Owner`), which is only written under the
  lock (`OneInLock`). `StoreIsKept`, for both values of `Mirror`: the newest
  dates are there throughout, and a run in `clean_logs()` wants as many removals as
  there are others, or fewer if an orphan was in the way (`Store`). This needs that
  the surplus counted is the number of dates that are not to be kept, in a store
  that contains those that are (`OldAreSurplus`), and that the oldest is one of
  them while there are any (`OldestIsOld`), so that each removal is one off both
  sides. `current` is missing before `ln`, and the newest afterwards (`LinkMade`).
  `GoodIsKept`: a copy that is not whole and that no run makes any more, an orphan's
  included, cost a failure or a kill (`FewLeftovers`), so that the newest whole copy
  has fewer than `nlogs` after it and a removal of the oldest leaves it.
- `FirmwareImageProofs!MergeThenSplit` proves `SplitInverts`, for files of every
  length and every size of word and block: until the file is damaged, each part
  that `merge()` has put into it lies where its header says (`Laid`), with the length
  and the checksum of what was given (`Headed`); `split()` works on finished files
  only, and what it has saved of one is what was given (`Split`).
  `UnfinishedIsNothing` (`NoHalfImage`) follows from the same invariant.
  `DamageIsCaught` adds what one flip or a lost end leaves of a part (`Damaged`) and
  that what was saved agrees with its header (`Checked`): two files that differ in
  places closer than a word have the same checksum only if their whole words are the
  same, as each place is alone in its column (`Caught`).
- Type correctness of the same modules (`FrontTypes`, `LedTypes`, `DiskTypes`,
  `FanTypes`, `TableTypes`, `McuTypes`, `LockTypes`, `FsckTypes`,
  `FlashNeverOverfilled`, and the first conjuncts of `StoreKept` and
  `SplitInverts`), which the other proofs rest on.

Only model-checked: every liveness property (fairness and `ENABLED` are outside
the proof system's reach), among them the conjuncts of `LedsFollowCauses` and
`ModesFollowed`, and `LampAgrees`, which is about what comes at last; and the
violation, `NoParallelFsck`.

## 7. Not modelled

- E-mail, logs and the text that the LEDs' `sysfs` files hold; autorepeat and read
  errors of the input device.
- The float polynomial that turns a temperature into a pwm on the DNS-323 A1 and
  B1, and the disk temperatures that `fanctl` also reads.
- The pace of the rounds (`sleepCount`) and two client commands in one `recv()`.
- `hot.sh` before it starts `hot_aux.sh` (probing, swap, md and LVM) and what
  `hot_aux.sh` does after the mount; `eject` and the removal of partitions.
- In `loadsave_settings`: formatting, the vendor's settings and the copies on an
  Alt-F directory. In `backup`: mounting and waking a host, one step that may fail,
  and the wget and rm of a killed run, which may go on as rsync and cp do.
  In `dns323-fw`: the information print, fields that are only copied, the
  extended header; a `write()` that writes less than asked for (line 205) or
  fails on a header (lines 353 and 547), which is not noticed either.
- In `hot_aux.sh`: another program with the pid that a `check-*.pid` file names, which
  its waiters would take for a check; and an fsck that goes on without its job.
- `aufs.sh`, the init scripts, `ipkg` and the web interface start commands whose
  effect is the kernel's or a third-party program's. The buildroot tree
  (`package/config` and its parsers, `toolchain/elf2flt`, recipes and patches) is
  build configuration and third-party code, most of the C in the repository.
