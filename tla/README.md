# Formal model of ferryport

Ferryport (its binary is called `remotedevicecontroller`) runs on a machine with
cameras. It polls a web service, records every `/dev/video*` with ffmpeg, streams
a camera or a recorded file to a media server when the service asks for it, and
keeps a mobile-broadband connection up. This directory models the parts of the
program that keep state, checks them with TLC on small instances, and proves their
safety properties with TLAPS.

All references are to files under `src/`; where no file is named it is `main.cpp`.

## 1. The system

| Component | State | Operations | Talks to |
|---|---|---|---|
| Child processes (`class spawn`, `mystdlib.cpp:72-210`; `signalHandler`, 1488-1532; `csList::stopCam`, 512-525) | `processMap`, `processCleaned`, `pkilled`, each object's `cpid` and `onStopHandler` | construct (fork, register, maybe wait), handle SIGCHLD, kill and busy-wait | used by the camera table, recorded files, network manager, gps thread; the handler runs on top of any of them |
| Polling loop and camera table (`run` 1111-1190, `csList` 342-639, `getCameras` 832-849, `record` 851-894, `systemStateChange` 966-1092) | `csl`, `camCount`, `cs`, `ps`, `newlyMarried`, `currentIP` | read `/dev`, prune and extend the table, ask the service, carry out its commands, start and stop ffmpegs, roll over every 900 s | spawn, SOAP transport, recorded files |
| Supervision (`main` 1728-1812, `stopRunningProcess`, `firstFork`, `secondFork` 1436-1473) | `rootProcess`, `firstChild`, `secondChild`, `runningProcess`, the pid in the configuration | start, stop, fork again when a child ends | kernel signals, configuration file |
| Recorded files (`RecordsManager` 156-329) | `records` | add, set state and session, carry out, stop | spawn; commands from the polling loop |
| Network manager thread (`networkManager` 1620-1726) | check times, `waitInterval`, `wvdial`, the radio | sleep, probe, dial with wvdial or nmcli | spawn, in the first child |
| Configuration file (`readConfig`, `writeConfigValue`, `readConfigValue` 683-830) | an XML file | read all, read one, rewrite with one value changed | every command |
| Installation commands (641-677, 1192-1434, 1545-1568) | files on disk, registration at the service | install, reinstall, uninstall, configure, update | configuration, transport, user |
| SOAP/HTTP transport (`mycurl.cpp`, `Socket.cpp`, `ClientSocket.cpp`) | one connection per request | connect, send, read until the announced length | the service |
| GPS reader thread (1570-1609) | `gpsCoordinates`, `gpsReadStart` | set the baud rate through a blocking spawn, parse frames | polling loop reads the string |
| Helpers (`mystdlib.cpp`, `myconverters.cpp`, `myxml.cpp`, `Multimedia.cpp`) | none that outlives a call | string, file and terminal helpers | all |

What is hard here:

* **A signal handler that reaps children and calls C++ callbacks**, between any two
  statements of the thread it interrupts, possibly on two threads at a time.
* **A busy wait on a flag that the handler sets**, and that every signal sets.
* **A table indexed by name, counted by one variable and scanned by another rule**
  (`camCount` against the first empty name), kept in step with `/dev`, with `/proc`
  and with the service's commands, none of which stands still.
* **A chain of processes** in which each parent waits for its child and forks again,
  each child arms its death signal after the fork, and the pid needed to stop the
  chain is written by its last link.
* **A timer loop** whose sleep a signal can cut short.
* **A file rewritten as a whole** by every process that changes one value of it, with
  the file empty in between; and commands of some twenty steps on the file system, few
  of whose results are looked at, with a server in the middle that may refuse.
* **State that a forked process inherits**: a flag of the handler, a system-id that is in
  no file any more.
* **An answer read in pieces**, whose length is computed from the first of them, over
  sockets and pipes some of which are never closed.

For each component, what makes it correct: an ffmpeg that ends is reported once
and never waited for while it runs; every ffmpeg that runs is the one its table
entry names; every plugged camera ends up captured; a failed connection returns all
cameras to recording; a daemon polls again after any crash, with one poller; `-x`
leaves nothing of the chain behind; a request to stop a file stops it; the modem is dialled while
the network is down, by one wvdial, and the radio is not left off; a request returns
the server's body or an error and closes its socket; the server is reached again after
whatever ran out; "installed successfully" means that the daemon can run, but for the
files whose copy failed, and "uninstalled" that nothing is left; what `-c` has set
stays.

## 2. Modules

| Module | Models | Notes |
|---|---|---|
| `ChildLife` | abstract: what `spawn` promises about a child (unborn, running, exited, reported once) | refined by `Reaper` |
| `Reaper` | constructor of `spawn`, `signalHandler`, `stopCam`, the end of `setCamState`, per statement | threads `Main` and `Gps` |
| `CamTable` | polling loop, `csList`, `record`, `systemStateChange` | starting an ffmpeg is one step: `Reaper` takes it apart |
| `Supervisor` | commands `-s daemon`, `-s normal`, `-x`, the chain of forks, one ffmpeg per poller, the wvdials of the network threads | when a thread dials is left open: `NetManager` has it |
| `Records` | `RecordsManager` and `ViewSingleRecordedFile` | one action per requested file |
| `NetManager` | `networkManager` | time counted up to the reconnect duration |
| `Transport` | a poll seen from its connections: `SOAPReq`, `ClientSocket`, `Socket`, `GetPrimaryIp`, `getStrRecordedFiles`, and the descriptors of the poller and of the first child | byte offsets instead of text |
| `Install` | `-i -k -r -u -c -d`, the configuration file, `DeleteSystem` | one command at a time beside the daemon, whose chain of forks is `Supervisor`'s |
| `MC<module>` | constants of the TLC runs | |
| `Reaper_proofs`, `CamTable_proofs`, `Supervisor_proofs`, `Records_proofs`, `NetManager_proofs`, `Transport_proofs`, `Install_proofs` | the inductive invariants and theorems about each | TLAPS, section 4 |

### Reaper and ChildLife

`pc[t]` is the next statement of thread `t`. `Begin` enters `setCamState`; `Stat`,
`Arm`, `Kill`, `SpinEnds` are `stopCam`; `Fork`, `Register`, `SetHandler`, `Check`,
`WaitReturns`, `CallStop` are the constructor; `Assign` writes the pid to the table.
`hpc[t]` says where the signal handler is on top of thread `t`: `Reap`, `ReapNone`,
`Lookup`, `Flag`, `Call`, `Wake`. `Deliver` hands a pending SIGCHLD to some thread;
pending SIGCHLDs coalesce, as in the kernel. An `Exit` is possible in every state.
Memory that the handler has freed is read as the old value or as 0 (`StoredPids`); a
call through the unset `onStopHandler` either calls the right handler (the block held
one before) or takes the process down (`crashed`), and so may a second call for one
child, which deletes its object again. Signals have no `SA_RESTART`, so the handler ends
a blocking `waitpid` (`Interrupted`).

The poller is forked by the first child, whose own handler sets `processCleaned` for a
child that is in no `processMap` (1523-1524), so the flag may be raised from the start:
`inherited`, one of `Inherits`. The constructor of the first ffmpeg (`Misled`) then waits
for it. It waits while that ffmpeg records, until the signal of its end; the handler
reports the end and deletes the object, and the constructor does so again.

`ReportsEveryChild` is the refinement: `life[p]` is computed from `stops` and `proc`,
and `crashed` is the abstract `down`. It includes the fairness of `ChildLife`: an
exited child is eventually reported.

### CamTable

One action is one pass of a loop of the source: `Prune` and `Add` are the loops of
`setCams`, `Record` the loop of `record()`, a command action one node of the answer.
`Scanned` are the entries that loops over names see, `Counted` those that loops up to
`camCount` see; that both exist is the point of the table's properties. `Find`,
`Moved`, `RemoveCamService`, `AddCamService`, `WithStateAllCams`, `WithSId`,
`WithNewState`, `SetCamState` translate the methods of `csList`. `cs` in the model is
what `run` switches on (`csc`); the global of that name is overwritten before it is
read. The outside may let an ffmpeg die, change the address, plug and unplug
cameras, fail a request or a fork, and send commands, in any order.
`SetCamStateUnforked` is `setCamState` when `fork()` has failed: the pid -1 that it
writes is no process's, `/proc/-1` does not exist, and so `stopCam` sends it nothing
and the next `setCams` (545) takes the entry out and adds it anew. `unplugged`
remembers that a camera was ever unplugged.

### Supervisor

A process is created by `Launch` or by a fork (`Spawned`); `parent` and `root` are what it
has inherited. The root process of `-s normal` polls itself (`normal`), so that its
children are ffmpegs (`Child`). After its `Fork` a process of the chain is at `manage`,
where the first child starts its thread, and then at `Wait`: a child that has ended in
between has been reaped by the handler (`waitpid(-1)`, 1515), and `wait()` is then for
whatever child is left, a wvdial for instance (`Deaf`). A child sets its death signal by
`Arm`, one step after the fork, unless it is `free` (`ArmedBy`; `if (!freeChild)`,
`mystdlib.cpp:141`): the first wvdial of a network thread is (1664), and no other child.
`Dial`, `Hangup` and `Redial` are what that thread does with its wvdials. `Dies`
wakes the waiting parent (`Woken`), whichever child has ended, and dooms the armed
children. `shaken` remembers that a wait has ended for a wvdial though the poller lives,
or that a process above the poller has crashed; `orphaned`, that a process died while a
child of it that is not free was between its fork and its `prctl`.

### Records and NetManager

In `Records`, `View` and `Stop` are the two branches for one requested file
(`addRecord`, `setNewState`, `setSId`, `setRecordState`, `stopRecord`). In
`NetManager` the actions follow the statements of the loop; `Test` contains the
assignment inside the condition of line 1634 as the compiler reads it. `Dial` is the
spawn of a wvdial, which is not meant to block but does, in `WaitSpawned`, when a
stray child has raised `processCleaned` (`ReapsStray`; `mystdlib.cpp:191`). Its fork may
fail: the object then names process -1, for which a blocking spawn waits as for any
child, perhaps for ever ("stuck", `AfterFailure`), and whose hanging up is
`kill(-1, SIGTERM)` (1641, `HangupAll`), which ends the root process and with it the
thread.

### Transport

One request is `Connect`, `Expect` (the request line goes out, something comes back;
the test for `100 Continue` compares an unsigned position with 0 and lets everything
but a text that begins so pass, `mycurl.cpp:57`), `ReceiveFirst`, `ReceiveMore` and a
`Return`. The answer is a stream with a reading position; `Piece` says what one
`recv()` may bring, `Found` what `find` sees of it, `Announced` and `HeaderEnd` what
`SOAPReq` computes from the first piece, `npos + 4 = 3` included, and `Throws` when
`substr` throws. `Body` compares what is returned with what was sent: the same
("whole"), or anything else ("other"), which the XML code of `systemStateChange`
does not survive (`CannotParse`).

`fds` counts descriptors, beside those that stay open anyway, of the poller and of the
first child, whose table each new poller inherits. They are never given back by
`spawn` (one end of each of three pipes), by `GetPrimaryIp` without a network, by a
`ClientSocket` whose constructor throws, and by `getStrRecordedFiles`. At the limit
`opendir` returns NULL and the poller goes down in `readdir`; when the first child is
full, `readConfig` brings it down and the root forks a new one (`SecondFork`).

### Install

`pc` is the step of the command being carried out; `-i`, `-k`, `-r` and `-d` go from
`sub` (`system("... -u")`) over `read`, `register`, `copy`, `write` and `add` to
their outcome, `-c` alternates `prompt` and `write`, `-u` is `stop` and `unlink`.
`files` and `conf` are what is on disk; `lost` are the parts that are missing or cut
short because their own copy failed, and the others are `Usable`. `Copy` is one copy of
`instReInstComCode`, which goes on whether it succeeds (`CopyWhole`), finds no source or
cannot open the copy (`CopyFails`), or fills the disk (`CopyCut`): `copyfile` reports all
of that and nobody looks (1283-1306). `Parse`, `Truncate`, `Write` are
`writeConfigValue`, for the command and for the poller. Where the configuration is
missing, a program that runs in the source folder reads `config.xml` there (`Parsed`);
elsewhere the program goes down in `readConfig`. `Register` and `AddSystem` are the
two requests, either of which may fail. `update()` runs `./remotedevicecontroller -r`
through a `spawn` whose output nobody reads: the first flush after a SIGCHLD, that of
`chmod`, or of `ln` where the program was not copied, ends it ("killed").

`Start`, `PollerForked`, `PollerRuns`, `DaemonDies`, `FirstChildDies`, `PollerDies` are the
daemon in brief. The first child reads the configuration before each fork, and where that
has no `system-id` the variable keeps what it was (762-776): `systemId`, which goes with
the first child (`FirstChildGone`). `DeleteSystem` is `uninstall()` in the poller, whose
question nobody answers, so that it asks for ever until its memory ends. The pollers
that follow find no configuration; but if a command makes one again while that first
child lives (`remade`), they go on under the deleted registration. `Reboot` is the
restart of the machine at any step; upstart then starts what is installed, unless the
override file is there. `overridden` says that the present installation was made over
such a file.

## 3. Runs

| Run | Question | Bounds |
|---|---|---|
| `Reaper_poller` | Is every ffmpeg reported once, never waited for while alive, never lost? Does `stopCam` return, and with the device free? | 2 cameras, 3 children: one to be replaced, one to end meanwhile, one being started; `processCleaned` inherited raised or not |
| `Reaper_gps` | Are zombies reaped with two threads and SIGUSR1? | 1 camera, 2 children; `processCleaned` inherited raised or not |
| `Reaper_lost` | (violated) Does the main thread always come back to the loop? | 1 camera, 2 children |
| `CamTable_outside` | Does the table govern the ffmpegs and list `/dev`; does every camera end up captured; what survives unplugging and failing forks? | 3 names, 2 plugged at a time, none or two of them at boot, 5 slots, 3 events, 1 command per answer |
| `Supervisor_commands` | Does the daemon poll again after crashes and waits that end for a wvdial, with one poller? Do `-x` and a second `-s` take effect? | 2 commands, 1 crash, 2 crashes and wvdials together, 14 processes (two chains and the forks of two such events) |
| `Supervisor_hasty` | (violated) Does `-x` stop a daemon that is still starting? | 2 commands, `-s daemon` only |
| `Supervisor_stopcrash` | (violated) Does `-x` stop a daemon whose poller is being forked again? | 2 commands, `-s daemon` only, 1 crash |
| `Records_requests` | Do requests to view and to stop files do what they say? | 3 files, 2 sessions, 5 requests |
| `NetManager_timer` | Does the thread dial, hang up first, and restore the radio? | reconnect duration 3, 2 losses, 2 signals, 1 failing fork, 1 stray child |
| `Transport_requests` | Does a request return the body or an error and close its socket; is the server reached again when descriptors run out? | 7 free descriptors, 3 answers (with 100 Continue and a length of one or two digits, and without), pieces that end at 15 positions in and around each part of the header, `MAXRECV` 40 instead of 500, 1 camera |
| `Install_commands` | What do the reported outcomes leave on disk? Does what `-c` sets stay? Does a deleted system stay silent? | 3 commands in or outside the source folder, 2 properties, 2 starts of the daemon, 1 crash, restart or failing copy; once the configuration was used by two processes at a time, only the first command is followed (`FewMixed`) |
| `Install_early` | (violated) Does the program start at boot when the configuration says so? | 2 commands |

The bounds count events of the outside, not steps of the program, and each is large
enough that every hazard named for the run occurs: every property has a mutant of the
code that the same configuration refutes (`PROJECT.json`, "mutants"; the mutated
definitions stand in the modules just before the ones they replace).

Three names need four slots, one being the empty name that ends a scan (`Room`, section
4). The fifth is for the entries that pile up when cameras are unplugged: with each further
cycle of unplugging and plugging one more can stand behind the others, and with 8 to 14
such events they fill four or five slots; nothing in the code bounds them by ten
(`MAX_CAMS`). So `NoOverrun` speaks of histories without unplugging. `MAXRECV` is
smaller than in the code so that the limit on a piece matters for answers of 76 bytes.
`FewMixed` cuts off no history of which a property of `Install` speaks: each of them is
about histories that are not `mixed`.

Deadlock is not checked for `Reaper` and `Supervisor` (processes are bounded), for
`Records` (requests are bounded), for `Install` (commands are bounded) and for
`NetManager` (a thread that has ended its own process, or whose wait never ends, does
nothing more).

### Fairness

* `Reaper`: threads are scheduled, a pending signal is delivered, SIGKILL kills.
  Nothing makes `run` ask for a state change and nothing makes an ffmpeg end.
* `CamTable`: the loop runs on and a request is answered in the end (the socket has a
  10 s timeout, `Socket.cpp:72-80`); an ffmpeg whose camera is gone ends.
* `Supervisor`: processes are scheduled and signals are carried out. Nothing makes a thread
  dial or hang up.
* `NetManager`: the thread is scheduled; SIGTERM ends wvdial.
* `Transport`: the poller is scheduled; every request ends, because what the server
  does not send the 10 s timeout ends (`Socket.cpp:72-80`). Nothing makes the network
  come back: the property starts where it has.
* `Records` and `Install` state no liveness.

### Conditions under which a property holds

Several properties hold only in part of what can happen; the condition is in the
property or in the run's constants, and each was seen to fail without it.

* `StopAtMostOnce` and `NeverWaitsForLiveChild` except the first ffmpeg of a poller that
  has inherited `processCleaned` raised (`Misled`): that one is waited for, and its object
  freed twice. `NoStray` leaves out an ffmpeg whose object was deleted, which happens to
  one that still runs only if a SIGUSR1 ends that wait.
* With the gps thread alive (it sleeps 10 s, spawns `stty` if a device is configured,
  and ends unless it reads the device) `StopAtMostOnce`, `NeverWaitsForLiveChild` and
  `NoStray` fail: `processCleaned` is shared and two handlers may reap at a time.
* `DeviceExclusive` and `StopCamReturns` need that ffmpegs end by `stopCam`'s own kill
  only (`SelfExited`), and the first that nobody sends SIGUSR1.
* Once a camera has been unplugged, `TableGovernsFfmpeg`, `TableListsDev`,
  `FallBackRecords`, `NoOverrun` and `EveryCameraCaptured` may fail: `camFound` (543) is
  not reset and the removal of the empty name (552) lowers `camCount` alone. `NoSharedPid`
  and `NoIdleRestart` hold in the run then too.
* `TableListsDev` and `EveryCameraCaptured` leave out a camera whose name begins that of
  another (`video1`, `video10`): `addCamService` takes the one for the other (400).
* With two commands in one answer `FallBackRecords` fails: `View` leaves a pending
  stream, `StartVideoRecord` after it sets `cs` so that the pass does not carry it out,
  and when a later request fails, `setStateAllCams` (610) passes over the camera, which
  is recording, and `record()` starts the stream.
* `OnePoller` needs that no wait has ended for a wvdial while the poller lives, and that
  only pollers, ffmpegs and wvdials crash (`shaken`). Without that two pollers of one
  instance poll side by side.
* `DaemonHeals` leaves out a first child that waits for a wvdial because its poller ended
  between its fork and the wait (`Deaf`): nobody polls until that wvdial ends. The bounds
  of the run do not reach that state, for which a poller must crash twice.
* `SettledStopTerminates` and `StartReplaces` need a settled system, and that no process
  has died before the `prctl` of its child (`orphaned`). That happens without any
  command too: an ffmpeg forked just before its poller crashes survives every `-x`. They
  leave out free children: the first wvdial of a thread sets no death signal
  and goes on after `-x`, until the connection ends.
* A second `View` of a file acts on the first record (242), or on none if the record
  still counts as streaming (207): `ViewShows` states the first one.
* `DialsWhileDown` and `OneDialer` need that no signal has reached the thread: after
  one short interval line 1634 makes the loop spin without sleeping or dialling. They
  also take the difference of the two uninitialised times (1625-1626) to be large at
  first. `DialsWhileDown` leaves out a thread that a constructor or a failed fork holds
  (`Held`); `KeepsProbing` and `WwanRestored` hold without exception as long as no fork
  has failed. After a failed fork the thread may wait for another child for ever or
  end with its process, and the radio may stay off.
* `WholeOrError` speaks of answers whose `100 Continue` came alone and whose header came
  in one piece (`entire`). Otherwise the length is computed from what happens to
  stand in the first piece: the body is cut short, other text is returned for it,
  or `substr` throws and the poller goes down.
* `ReachesServer` needs that the server is configured by address, or that the first
  child has five descriptors left. With a name and less, the pipes of the first
  ffmpegs may leave none to `gethostbyname`, whose NULL `connect` dereferences
  (`Socket.cpp:198`), and the pollers die for ever while the first child lives.
* The properties of `Install` speak of histories in which no two processes have used the
  configuration at the same time and none has died inside a write (`mixed`). A `-c` that
  overlaps with the poller's write of its pid loses its value or the poller's, or reads
  an empty file and crashes; a crash between `fopen` and `fwrite` loses everything.
* `SuccessRuns` lets a part be missing or cut short whose own copy failed (`lost`), though
  "installed successfully" (1331) is printed all the same: so are the certificates, which
  the Makefile's `.build-post` does not put into the folder of the binary. What it says is that
  nothing else is missing, and that the configuration is readable and names the
  system even if its copy was the one that failed: the next `writeConfigValue` makes it from
  `config.xml`.
* `BootupAgrees` leaves out installations made over an override file (`overridden`).
* `DeletedIsSilent` leaves out what follows when a command makes the configuration again
  under the first child that remembers the deleted system (`remade`): `-c` in the source
  folder is enough. The next poller writes its pid there and serves the server under the
  deleted registration.

### What the violated runs show

* `Reaper_lost`: an ffmpeg that ends by itself between `stat` (518) and
  `pkilled = false` (519) leaves `stopCam` spinning for ever, since its SIGCHLD has
  been handled and the kill reaches nobody. Clearing the flag before `stat` would do.
* `Supervisor_hasty`: the pid that `-x` needs is written by `run()` (1124), which in a daemon
  the third process of the chain enters, after two forks. A `-x` before that finds none.
  (`-s normal` enters `run()` in the root process, with the same gap but no forks.)
* `Supervisor_stopcrash`: a poller forked while its parent is being killed arms its
  death signal after the parent's death (1457), does not check its parent, and goes on.
* `Install_early`: `configure` refuses `bootup false` where nothing is installed by a
  test that never fails (1410, `!= 1` for `!= -1`). The override file it creates
  outlives the installation that follows, whose configuration says `bootup true`.

What else the modelling showed, for which the repository promises nothing:

* `-i`, `-k` and `-r` unlink the whole installation before they ask the server, so a refusal
  leaves neither program nor key; outside the source folder they do so and then crash in
  `readConfig`. When AddSystem fails, the configuration has a `system-id` but no
  `videoStreamingType`, which `readConfig` dereferences, and the daemon crashes at each
  start. Copies that fail are reported as a successful installation.
* A deleted registration comes back to life if the configuration is made again while the
  old first child lives.
* The first wvdial of a network thread survives `-x`.
* A poller that has inherited `processCleaned` raised does not poll until its first ffmpeg
  ends, and may not survive that.

## 4. Proofs

Seven modules hold theorems that TLAPS checks to the last leaf. They speak of every
value of the constants: any set of cameras, files, sessions or keys, and any bound on
processes, commands, requests and faults. The constants satisfy the named assumptions of
each module, which TLC evaluates in its runs. `FileAssumption` of `Records` says no more
than that the name which stands for "no file" is not a file's.

| Module | Theorem | Property | Hypotheses |
|---|---|---|---|
| `Reaper_proofs` | `TypeCorrect` | `TypeOK` | the main thread is the only one |
| | `NoDoubleStop` | `StopAtMostOnce` | the same |
| | `NoWaitForLiveChild` | `NeverWaitsForLiveChild` | the same |
| | `NoStrayFfmpeg` | `NoStray` | the same |
| | `OneReaderPerDevice` | `DeviceExclusive` | the same, and nobody sends SIGUSR1 |
| | `ReportsImplementChildLife` | `Child!Init /\ [][Child!Next]_(Child!vars)` | the same, and nobody sends SIGUSR1 or `processCleaned` is not inherited raised |
| `CamTable_proofs` | `TypeCorrect` | `TypeOK` | `Room`; no camera is ever unplugged |
| | `NoUngovernedFfmpeg` | `TableGovernsFfmpeg` | `Room` |
| | `TableIsDev` | `TableListsDev` | `Room` |
| | `FailureStopsStreams` | `FallBackRecords` | `Room`; one command per answer |
| | `PidsAreOwn` | `NoSharedPid` | `Room`; no camera is ever unplugged |
| | `ScansEnd` | `NoOverrun` | `Room` |
| | `RestartsChangeMode` | `NoIdleRestart` (of actions) | `Room`; no camera is ever unplugged |
| `Supervisor_proofs` | `TypeCorrect` | `TypeOK` | |
| | `NeverTwoPollers` | `OnePoller` | |
| `Records_proofs` | `TypeCorrect` | `TypeOK` | |
| | `NoStray` | `NoStrayStream` | |
| | `StopEndsStreams` | `StopStops` (of actions) | |
| | `ViewStartsStream` | `ViewShows` (of actions) | |
| `NetManager_proofs` | `TypeCorrect` | `TypeOK` | |
| | `NeverTwoDialers` | `OneDialer` | |
| | `RadioRestored` | `WwanRestored` | |
| `Transport_proofs` | `TypeCorrect` | `TypeOK` | |
| | `NeverHalfABody` | `WholeOrError` | |
| | `NoDescriptorLost` | `ClosesConnection` (of actions) | |
| `Install_proofs` | `TypeCorrect` | `TypeOK` | |
| | `InstallationsRun` | `SuccessRuns` | |
| | `NothingIsLeft` | `UninstallLeavesNothing` | |
| | `BootsAsSaid` | `BootupAgrees` | |
| | `ConfigurationStays` | `SetStays` | |
| | `DeletedStaysSilent` | `DeletedIsSilent` | |

The conditions that stand inside a property (section 3) are those of its theorem too. Of
the hypotheses, the one on the threads is necessary: with the gps thread the properties
fail. So is the last one of `ReportsImplementChildLife`: a SIGUSR1 that ends the wait for
a `Misled` ffmpeg has it reported while it runs. `Room` is `Cardinality(Cams) < MaxCams`:
the array (`MAX_CAMS`, line 43) has a slot more than there are device names. With as many
names as slots there is no empty name to end a scan, so it is necessary for `ScansEnd`.
After an unplugging the three properties whose theorems exclude it are model-checked only:
`CamTable_outside` finds them to hold after it too, in histories of three events.

### The arguments

Every proof has the same shape: an inductive invariant `IInv`, checked with TLC as an
invariant before it was proved, a lemma per action or group of actions, and `Inductive`,
which joins them. `IInv` is stronger than the properties because what they forbid depends
on how the state came about:

* `Reaper`. That the constructor calls the stop handler at most once depends on why
  `processCleaned` is set. `PidOrder`: children are numbered in the order of the forks
  and all but the newest are registered. `Position`: what the statement of the main
  thread says of the child under construction. `Reports`: a child reaped but not yet
  reported is in the hands of exactly one of the handler, `processCleaned` and the
  constructor, but for the `Misled` one, of which `Told` says when it may be reported
  early or twice. `Vacated`: from the return of `stopCam` on, nothing undoomed has the camera
  open but the child under construction. `OneReaderPerDevice` adds `Killing`: the busy
  wait ends for the SIGCHLD of the ffmpeg that was killed.
  `ReportsImplementChildLife` goes through the steps of the constructor and of the handler:
  each is a step of the abstract life of one child, or leaves all of them alone.
* `CamTable`. `Shape`: the entries in use are the first `camCount`, and no two have one
  name. `Copies`: what `getCameras` read and what `record` copied is about the table as it
  is now. `Governed`: each ffmpeg is its entry's. `Falling`: a pending stream is carried
  out before the next pass. `Counted` and `Scanned` then are the same set, which is what
  `camFound` and line 552 break once a camera has gone.
* `Supervisor`. `Family` and `Statements`: in which order processes appear and which
  statements a process of each role can be at. `Chain`: whose child each is, and that both
  children have inherited `rootProcess`. `Targets`: whom a kill can hit. `Forks`: unless the
  chain was shaken a root process forks once, and a first child has one living poller, and
  none when it is about to fork.
* `Records`. `OneRecordPerFile`, and `FreshPid`: a pid not handed out is nobody's.
* `NetManager`. `OwnDialer`: the `wvdial` that the pointer names is the only one, and has
  ended when the next is started. `RadioOn`: off between the two nmcli commands only, unless
  a fork has failed.
* `Transport`. `Connected`: a request under way holds one descriptor more. `Counted`: the
  length that is still expected is what the server has still to send, if the header came in
  one piece.
* `Install`. The file is empty while it is rewritten, so no invariant about the file alone is
  inductive. `Doc` is the configuration in the file or, while the file is empty, in the
  memory of its only writer (`Alone`); the other parts are about `Doc`. `Gone`: `uninstall()`
  leaves nothing that it has passed. `Located`: outside the source folder no command gets
  past `readConfig`. `Installing`: which files have been copied, or lost by
  their own copy, and which properties are already there.
  `Overriding`: the override file against `bootup`, with the command that is between the
  two. `Kept`: what `-c` has set. `Silent`: what a deleted system has,
  and that no first child which remembers it finds a configuration unless one was
  `remade`. `Steps`, which every
  history keeps, says what each step of a command may still have to write.

### What the attempts showed

* `NoOverrun` was stated for all histories and is false once a camera has been unplugged: its
  entry survives behind others, its name is added again, and such entries fill the array.
  The run's five slots had hidden it; with more events TLC finds the overrun. The property
  is now about histories without unplugging.
* `OnePoller` fails if a wvdial, or any child of the network manager, ends while the first child
  waits for its poller: this was modelled as a wait that ends without a cause until
  the wvdials became processes of `Supervisor`.
* The children of a poller that `-s normal` starts were taken for links of the chain in
  `Supervisor`. `Child` now makes them ffmpegs, as `run` does.

### Only model-checked

* Liveness (`StopCamReturns`, `ZombiesReaped`, `EveryCameraCaptured`, `DaemonHeals`,
  `SettledStopTerminates`, `StartReplaces`, `DialsWhileDown`, `KeepsProbing`, `ReachesServer`)
  and the fairness in `ReportsEveryChild`: the prover does not handle ENABLED.
* Everything with the gps thread, and the table after an unplugging.

## 5. Not modelled

* TLS in class `Socket` (SOAPReq opens plain sockets whatever is configured), `HTTPReq`
  (called by `test()` only), class `ServerSocket` with `bind`, `listen`, `accept` (never
  called), the inside of `gethostbyname`.
* The log in of a vendor in `install` (it yields a key or ends the command), the folder
  of the records and the question about it, what the terminal shows.
* GPS parsing: one writer of one string.
* `Multimedia.cpp` (never called); string, XML and terminal helpers, among them the
  splitting of command lines in `spawn` and `explode`: they keep no state, and the
  modules choose their results freely or use what they yield.
* Build files, packaging, init scripts, certificates, the built binary.
* Within modelled components: reuse of pids, fork failure outside the camera table and the
  network manager, the children of the network manager other than wvdial as processes of
  `Supervisor` (their end ends a wait as that of a wvdial does), a disk that fills while
  `writeConfigValue` writes (a copy may meet a full disk), two commands in one answer,
  file and stream names, log output, fields and branches that no statement of the program
  can set or reach (`disable`, `CAM_STREAM` in `setCamState`); each module's head says
  so.

## 6. Plan

The order follows the weight of the behaviour.

1. Child processes (`Reaper`, `ChildLife`), camera table (`CamTable`), and the safety
   theorems about `Reaper`. Done.
2. `Supervisor`, `Records`, `NetManager`. Done.
3. `Transport`: requests in pieces, descriptors, recovery. Done.
4. `Install`, with the configuration file: what each command leaves on disk, beside the
   daemon. Done.
5. `CamTable` with cameras that come and go and forks that fail, `Supervisor` with
   commands, crashes and wvdials in one run, failing forks in `NetManager`, failing copies
   in `Install`. Done.
6. Proofs: every safety property that a run checks, and the safety part of `Reaper`'s
   refinement of `ChildLife`. Done, under the hypotheses of section 4. Left: `NoSharedPid`
   and `NoIdleRestart` of `CamTable` after an unplugging, with an invariant that admits
   stale entries; what of `Reaper` holds with the gps thread.
7. Extensions that are left: reuse of pids and fork failure in `Reaper`, a second
   network manager thread, two commands per answer with the weaker property that then
   holds, the splitting of command lines in `spawn`.
