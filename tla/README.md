# remote_watcher: TLA+ models, checks and proofs

`remote_watcher` is a Windows service that watches one folder, uploads every file
that appears in it over NATS, and obeys commands and messages it receives over the
same connection; a small controller program extracts the service from an archive it
carries, installs, starts, stops and removes it. This directory holds TLA+ modules that model the service's threads
and the protocols between them, the TLC configurations that check the modules on
small instances, and TLAPS proofs of the invariants that hold for every instance.

Paths below are relative to the repository (`src/service/...`).

## 1. Inventory

### Threads and what they share

| thread | code | state it owns | how others reach it |
|---|---|---|---|
| SCM dispatcher | `service_impl.cc` `handler_proc_ex` | `ss_current_status`, `cp_check_point` | control codes of the service manager |
| ServiceMain | `service_main.cc` | the stop event, the three thread handles | waits for the stop event |
| SleepThread | `service_thread.cc` `_SleepThread` | `g_work_folder`, the NATS client | the global reason signal |
| TimerThread | `service_thread.cc` `_TimerThread`, `service_thread_timer.cc` | heart-beat timer | APC queue (timer callback, stop, test of the SleepThread) |
| WorkerThread | `service_thread.cc` `_WorkerThread` | the folder watcher | APC queue + `global_reason_worker` |
| watcher's loop thread | `service_watch_ex.cc` `folder_watchor_apc` | the directory handle, read/write buffers | APC queue (first watch, completions, stop) |
| message, command, payload, synfile thread | `service_nats_client.cc` `init_threads` | nothing of their own | one `atomic_sync` flag each, a `running` flag |
| NATS delivery threads | nats.c, one per subscription | none | write `g_current_command` / `g_current_message`, post a reason |

Shared state: the global reason signal (`atomic_sync_reason`, one slot), the command slot
(`g_current_command`), the message slot (`g_current_message`), the registry values
(`latest`, ip, ignores), `g_work_folder`, `global_reason_worker`, `ss_current_status`,
the watch tree (a mutex of its own) and the cache of watch trees, `_watch_path`,
`_sync_path` and `_sync_igonres` of the client, the client's mutex.
Most of it is plain memory: the comments "TODO: maybe need lock" are the code's own.

### Components, their operations and what makes them correct

| component | operations | correct when |
|---|---|---|
| reason signal (`service_dep.h`) | `notify_reason`, `wait_reason` | a stored reason is returned exactly once, in order; no lost wake-up |
| wake flag + client threads (`service_dep.h`, `service_nats_client.cc`) | `notify`, `wait`, `init_threads`, `stop_threads` | no request stored before the clear is missed; a stop always reaches the join; no thread is assigned over a running one |
| command path (`service_nats_client.cc`, `service_thread.cc`) | `subject_command`, `on_command`, `command_handle_result`, `reset_work_folder`, `_WorkerThread` | an acknowledged command is carried out; the folder watched is the one last commanded |
| message path (`service_nats_client.cc`) | `subject_recv_message`, `subject_syncfile_message`, `message_response`, `sync_files` | a request gets the answer to itself; a message is not overwritten before it is read; a synchronisation uploads its folder, less what the client asked to ignore |
| payload path (`service_watch_ex.cc`, `service_watch_tree.cc`, `service_nats_client.cc`) | completion routine, `add`, `remove`, `notify`, `get_all`, `clear`, `send_payload` | a new file is uploaded, at most once, from the folder it appeared in |
| folder watcher (`service_watch_ex.cc`) | `set_watch_folder`, `start`, `stop`, `watch`, `loop_thread`, `completion_routine`; `watch_tree_instance` | one loop thread at a time, joined before it is replaced; a tree for the folder watched |
| service control (`service_impl.cc`, `service_main.cc`, `service_thread.cc`) | `ServiceMain`, `handler_proc_ex`, `update_status`, `init_threadpool`, `stop_threadpool`, `test_sleep_thread`, `test_worker_thread` | the states reported are one orderly life, and the one stored; a stop is never undone and reaches every thread |
| transport process (`service_process.cc`) | `start_process`, `query_process_id`, `create_process_ex`, `stop_process` | one transport process, found or restarted |
| NATS connection (`service_nats_client.cc` `_nats_connect`) | `connect`, `close`, `publish_*`, `maybe_heartbeat` | a connection that is there is served; `close` leaves nothing behind; the known ways to use a destroyed connection are the only ones |
| registry and ip helpers (`service_utils.cc`) | `save_*`, `read_*`, `make_ip_address`, `token`, listings | what is saved is what is read back |
| controller (`ctrl_setup.cc`, `ctrl_main_dlg.h`, `ctrl_utils.cc`) | install, uninstall, start, stop, query | buttons and status line tell the truth; a service in the database has its program |
| archive reader (`ctrl_tar.cc`) | `tar` | every member is extracted under its own name |
| other watchers, coroutine watcher, `rgm_*` classes | `service_watch.cc`, `service_async.hpp`, the rest of `service_watch_ex.cc` | built, never instantiated |

Hard behaviours: a one-slot signal with spinning posters, wake flags that coalesce, unlocked
slots written by NATS callbacks and read by other threads, several writers of one registry
value and of one status variable, joins performed by the only thread that drains the signal,
a mutex held while spinning, files deleted or folders removed between an event and its
handling, connections lost and re-made in the middle of a job, APC queues.

## 2. Plan

Built, in this order (sections 3 to 5):

1. `Mailbox` (abstract) and `ReasonSignal` (the code's signal, a refinement of it).
2. `WakeFlag`: one client thread with its flag, its stop and its restart.
3. `CommandPath`: from the NATS callback to the watched folder, on top of the mailbox and the flag.
4. `PayloadPath`: from the directory notification to the upload.
5. `MessagePath`: from the two message subscriptions to the answer.
6. `ClientThreads`: connect, its joins, the client's mutex: who can wait for whom.
7. `FolderWatch`: the watcher's stop, its new folder and tree, and its start, against the loop and payload threads.
8. `ServiceControl`: ServiceMain, the control handler, the thread pool and the transport process, from start to stop.
9. `ServiceStates` (abstract): the states of a service in the order in which the service manager takes them;
   `ServiceControl` is shown to implement it.
10. `ServiceSetup`: the controllers, against a service that is `ServiceStates`.
11. `ArchiveReader`: what `install_service` extracts.
12. `SyncFiles`: what a synchronisation lists and uploads.
13. The stop in `ClientThreads`: the `close` of the ending SleepThread against `connect` of the timer callback, which composes
   the stop of `ServiceControl` with the client.

`SignalProofs` holds the proofs of the first two, and 3 to 8 and 10 have a `...Proofs` module beside them; that of 5 has the
proofs of 12 as well, and that of 10 those of 11, so these have no name in common (`SyncInit`, `SyncNext`, `SyncSpec`; `ReaderInit`, `ReaderNext`,
`ReaderSpec`). `ServiceStates` is used by the proofs of `ServiceControl` and `ServiceSetup`.

Not done, the most important first:

| what | why it would be worth it |
|---|---|
| `FolderWatch` composed with `PayloadPath` | a folder changed while files are on their way: today `FilesAreWhereSought` has the change without the batches, `PayloadPath` the batches without the change |
| an abstract watcher (a folder, on or off) that `FolderWatch` implements | `TreeOfFolder` and `NoDeafWatcher` would be its safety in one statement |

Given up: a module `Settings` for `make_ip_address`, `reset_ip_address`, `save_latest_ignores` and `read_latest_ignores`. They convert one value
and keep no state, the two with a loop have no caller, and what a fold computes for every input is induction over data,
which the prover cannot do; the registry value that several threads share is in `CommandPath` and `SyncFiles`.

## 3. The modules and the code

Conventions. A thread is a program counter (`spc` of the SleepThread, `cpc` of the command thread, ...) and
the local variables that outlive a step. A step is cut where another thread can see the difference: at every
access to unlocked shared memory, every blocking call and every critical section. `notify_reason` in the
modules after `ReasonSignal` is one guarded step (`slot` empty), which `ReasonSignal` and the mailbox
justify; `wait(); clear()` of a wake flag is one step, as `WakeFlag` shows that no request is lost between
them. A read of a `std::string` that another thread is assigning is undefined: the models let it
give the old value, the new one, or `Torn`, a value that equals none that was sent. `lost` is a
history variable, a set of names of what went wrong; the properties say that nothing goes wrong except
what is named. Operators under the heading "Slips" are altered versions of actions, used
to see that the properties can fail; they are part of no specification.

**`Mailbox`**. Abstract: one slot, `Post` when it is empty, `Take` when it is full.

**`ReasonSignal`** (`service_dep.h:261-317`, `atomic_sync_reason`). `slot` is the atomic. A poster is idle, in the
compare-and-swap loop of `until_wait`, or between the store and `notify_one`. The consumer is the SleepThread:
it compares (`WaitCheck`), blocks, is woken by `NotifyOne` or spuriously, exchanges, handles. The comparison and
the block are one step, as the standard requires of `atomic::wait`. `begun`, `posted` and `taken` are history.

**`WakeFlag`** (`service_dep.h:187-217`, `init_threads` and `stop_threads` of `service_nats_client.cc:1769-1921`).
`flag` is the `atomic_flag`, `running` the `_..._thread_running` of the thread, `wpc` the loop
`while (running) { wait(); clear(); if (!running) break; handler(); }`. `StopBegin` to `StopJoin` is
`stop_threads`; `Start` is the rest of `init_threads`, which may follow it (reconnection) or not (close). `pending` is a
request that no handler has started for.

**`CommandPath`**. Seven actors: the delivery thread of the command subscription (`AckCommand`,
`StoreName`, `StoreAction`, `PostRecvCommand`), the SleepThread (`SleepWait` ... `SleepResume`; `SleepApply` is
`reset_work_folder` after its sleep of 50 ms), the command thread (`CommandWait` ... `CommandPost`, which is
`command_handle_result`), the WorkerThread with its APC queue (`WorkerWake` ... `WorkerStart`), the timer callback
and its APCs, `LoopService`, and the service manager's pause and continue (`HandlerProcEx`). `name` and `action` are the two strings of
`g_current_command`, `registry` is the value `latest`, `work` is `g_work_folder`, `wfolder` and `watching` are the worker's local folder and
the folder its watcher has.

**`PayloadPath`**. `Directory` is the environment: a file appears (empty, to be written later, or complete), is
written, vanishes; `events` is the kernel's buffer, which `TakeOverflow` finds lost. The loop thread
(`TakeBatch`, `ParseNotifyInformation` once per entry, `CurrentCount`, `NotifyLock`, `NotifyPost`) fills `tree`; the mutex
of the tree is `locked` only where it is held over several steps, in `notify`. The SleepThread dispatches or drops the
reason, the payload thread copies (`GetAll`), empties (`Clear`) and sends file by file (`PublishPayload`, `PublishThrows`, `SendDone`).

**`MessagePath`**. Two delivery threads, one per channel, store to the one string (`Store`), look at it again
(`CheckEmpty`, `OnRecvMessage`) and post. The message thread reads (`MessageRead`), clears
(`MessageClear`), asserts and answers (`MessageResponse`): `std::exchange` on a plain string is the first two. A failed assertion
is the end of the process (`mpc = "terminated"`).

**`ClientThreads`**. `Connect(a)` is `nats_client::connect` by the SleepThread or the timer callback: the mutex, `_destroy`,
`_connect` with its three outcomes, the assertion and the second look, `stop_threads` thread by thread, `init_threads`, the
subscriptions. `Drop` and `Reconnect` are the network and nats.c. All posters of the reason signal are here: the
delivery threads, the command thread, the loop thread with the tree's mutex, the timer's APC. What
the threads do with a reason is left to the modules above. `StopThreadpool` sets the flags (`told`) at any moment;
the SleepThread leaves its loop at the next reason or look at the flag, and its end (`pc["close"]`) runs `close`:
`CloseDestroy` and the same `stop_threads`, without the mutex. `crash` names what may have ended the process: a connection
destroyed while another thread uses it, the assertion of `connect`, a thread joined by two, a thread assigned over. `trouble`
is about the connection there is now: the two failures of `connect` that leave one, and one made behind the back of `close`
(`revived`).

**`FolderWatch`**. The WorkerThread's restart is cut into `stop()` (`StopTest`, `StopLower`, `StopRouse`, `StopJoin`),
`set_watch_folder` (`SetFolder`, `OpenHandle`, `TakeTree`) and `start()` (`StartThread`, `StartAwait`, `StartQueue`). The loop
thread has its APC queue, of the first watch, the wake-up of a stop, and completions with and without an error, and runs it
in `SleepEx` (`RunWatch`, `RunWake`, `RunDone`, `RunError`, then `Parse` and `Notify`). `WatchTreeInstance` is the cache of weak
pointers: `cached` are its keys, and a tree is alive while the watcher, the global pointer or the payload thread has it. `trouble` names what
may make the watcher fail, `stray` says that `g_work_folder` changed under files on their way. `crashed` is the end
of the process by an exception or a null pointer, after which nothing happens.

**`ServiceControl`**. `mpc` follows `ServiceMain` from `init_service` to its return. `update_status` is two steps, the report to the
service manager (`reported`) and the store (`status`), wherever another thread may come between: in the handler
(`HandlerReport`, `HandlerStore`), in `loop_service` and in `stop_service`. A handle of a SleepThread or WorkerThread is the number of a
thread, so that a thread that lives and is no one's handle can be seen; `Create` is `_create_sleep_thread` and
`_create_worker_thread`, called by `init_threadpool` and by the timer callback. The TimerThread runs its APC queue (`TimerRun`), tests its
flag when the queue is empty (`TimerReturn`, `TimerTest`), and so may end with APCs queued. The transport process is a number too,
new for each that is made. A fault (`ok` false) is a call of the system that fails, or the process that dies.
`trouble` names what the properties except: an early return of `ServiceMain`, a process not ended, dead or revived,
a thread made during the stop, and a SleepThread that is not told.

**`ServiceStates`**. Abstract: the state the service manager knows and whether the service was told to stop. Nothing in it must
happen. `ServiceControl!ImplementsService` maps `reported` (START_PENDING before the first report) and the stop event to it, and
`ServiceSetup` uses its actions as the service it controls, so that the two sides of the service manager meet in one
specification.

**`ServiceSetup`** (`ctrl_setup.cc`, with the handlers of `ctrl_main_dlg.h`). A controller is a place in its handler: `Expand`,
`CreateService` (`install_service`), `OpenService`, `StartService`, `WaitStarted` (`start_service`), `QueryService`, `WaitPending`,
`ControlService`, `ControlReturns`, `WaitStopped` (`stop_service`), `ServiceExists`, `DeleteService`, `RemoveFiles` (`uninstall_service`). What the
handler makes of a result is in `Started`, `NotStarted`, `Stopped`, `NotStopped` and `Uninstalled`: buttons, links, status line. `entry` is the
service in the manager's database, which keeps a deleted one while a handle is open (`Holding`); `files` is its
program. Between two calls the service, another controller or a failure may come. `trouble` is per controller, since its
last click on the button; `torn` says why the service may be installed in part.

**`ArchiveReader`** (`tar` of `ctrl_tar.cc`). A step is one turn of the reader's loop over blocks: header, name or data. A place
in the archive is a member and one of its blocks; `BlockAt` and `After` are the archive format as GNU `tar cz` writes it, `here` is what is read next and `cut`
where the archive ends; `partial` says that a part of that block is there. `ReaderInit` takes every archive of a few members and cuts it
anywhere. A member's `record` is what stands before its header for a long name or a link's long target: none, one that the header's name begins like (`same`), one that it
does not (`other`: "bad long name"), or one that does not fit into a block (`over`: "broken archive"). `EndsEarly` and `BadName` are the causes for which `tar` itself calls `error()`;
a failing `gzread`, numeral or `gzclose` is a fault. `getheader`, `remaining`,
`fname`, `fpathname`, `outfile` are the locals of the loop. A member with a long name is extracted under the name of the block that
announces it, `././@LongLink`, and so are all such members (`ctrl_tar.cc:471`); a directory with a long name is made there too, and no file can be created
there from then on. The archive the build makes today has two members with
short names, so this is a property of the reader and not of an installation.

**`SyncFiles`** (`message_response`, `sync_files`, `get_dirtree_paths`). The message thread assigns `_sync_path` (`TreeInfo`, `SetSyncPath`) and swaps and refills
`_sync_igonres` entry by entry; the synfile thread reads the registry, assigns `_sync_path` too, walks the tree (`Visit`) with
the list as it then is, and publishes file by file. `raced` in `trouble` says that the two met in the same variable; any read
or copy that does may end the process. `Narrow` is `fs::path` made of a narrow string: a name outside the
code page does not match its entry; what it becomes is taken to be the name of no entry (`NamesAssumption`).

### What is left out of these modules

- `CommandPath`, `PayloadPath`, `MessagePath`, `SyncFiles`: loss and re-making of the connection, and the stop (`ClientThreads`, `ServiceControl`).
- `PayloadPath`: a change of folder (`FolderWatch` has it); renames, which the code handles like a removal and an appearance; subdirectories.
- `MessagePath`: what an answer holds, which changes no state. What tree-info leaves in the client is in `SyncFiles`, the folder that watch-folder sets in `FolderWatch`.
- `ClientThreads`: `change_ip` (never called), the destructor of the client on the main thread, pauses by the service manager, a SleepThread that the timer
  callback makes during the stop and whether the exit reason is posted at all (both in `ServiceControl`).
- `FolderWatch`: which files a tree holds, ignored folders (nothing ever sets them), and reads of `g_work_folder` while it is assigned. A folder that disappears does not come back.
- `ServiceControl`: check points, what the threads do besides ending and marking pauses; the connection, of which
  the callback sees that it is there or not; the end of the process, which may come after STOPPED in any state.
- `ServiceSetup`: the address that is saved and the registry key of the service, but for their failures; the clock (a wait ends when the state changed or, at any time, by its timeout).
- `ArchiveReader`: listing and pattern matching (never asked for), the modes and times themselves, broken numerals beyond the end they lead to, an archive that is not there (`tar` returns at once). A link whose target and name are both long counts
as one with the target's record alone: the reader ends at the header behind it in either case.

### Not modelled

Every component is in `PROJECT.json` with its status and, where no module has it, the reason. Not modelled at all: the drawing of the
controller's dialog, decompression, JSON, the contents of requests and answers, the registry and process wrappers beyond the outcomes
their callers see, the watchers and `rgm_*` classes that are compiled but never instantiated, the service as a dll, which the build
leaves out, `service_nats_client` functions without a caller (`change_ip`, `reset`).

Measured in lines this is most of the repository: `json.hpp`, a vendored library, is 26750 of its 38460 lines. Of the rest, what no module
maps is the code just listed, logging, and the walks over directories and registry values. What keeps state that several steps
or several threads touch is in a module.

## 4. Runs

A run is a configuration file and the module it is for; no module needs an MC module of its own, as the constants
are bounds and small sets given in the configuration. Deadlock is not checked where the bounds
end the run (`CHECK_DEADLOCK FALSE`); that a thread never waits in vain is stated by the liveness properties and
by `NoOtherDeadlock` instead. Only `ArchiveReader` ends in a step of its own (`Done`), and has deadlock checked.

| run | instance | shows |
|---|---|---|
| `ReasonSignal` | 3 posters, 2 reasons, 4 posts | `ImplementsMailbox`, with the mailbox's fairness: once each, in order, and a stored reason is taken |
| `WakeFlag` | 2 requesters, 4 requests, 3 stops | `NoThreadLeftBehind`, `StopReturns`, `RequestServed` |
| `CommandPath` | 2 folder commands, 1 heart-beat, 1 control | `NoCommandRunsTwice`, `FoldersAgree`, `PauseIsTakenBack` |
| `PayloadPath` | 2 files, 3 changes, 1 other reason | `UploadedAtMostOnce`, `NoStrandedFile`, `NewFilesUploaded`, `TreeIsEmptied` |
| `MessagePath` | 2 message requests, one of which mentions the synchronisation, 1 sync request, 1 other reason | `AnsweredAtMostOnce`, `RequestsHandled`, `SyncsAreAskedFor` |
| `SyncFiles` | 2 folders (symmetric), 1 directory with a file and 1 file beside it, 2 tree-info requests ignoring at most 1 entry, 1 request to synchronise besides a flag left up, 1 change of folder | `NothingElseIsSent`, `SyncIsWhole` |
| `ClientThreads` | command channel, 3 events of: message, notification of the tree, timer callback, loss; the stop at any time | `CrashesAreAtTheStop`, `ConnectionIsServed`, `ClosedAtStop`, `NoOtherDeadlock` |
| `ConnectDeadlock` | the same without the stop | the SleepThread joins a thread that waits for it (a violation) |
| `FolderWatch` | 2 folders, 2 changes, 1 file, 1 fault | `CrashesAreNamed`, `TreeOfFolder`, `NoDeafWatcher`, `FilesAreWhereSought`, `RestartReturns` |
| `ServiceControl` | 1 control or reason besides the stop, 1 timer callback, 1 fault | `StatusIsReported`, `ThreadsAreAlone`, `TransportStopped`, `StopIsHeard`, `ImplementsService` |
| `ServiceSetup` | 2 controllers, 3 clicks, 1 fault | `ButtonsMatch`, `TextHolds`, `InstalledIsWhole` |
| `ArchiveReader` | up to 3 members of up to 2 blocks, 2 faults | `FilesAreWhole`, `NothingIsMissed` |

A type invariant is checked in the run of every module that has no proof of it, and in some of the others; `TypeOK` of the modules with
a `...Proofs` module is proved. So are `ExactlyOnce`, `NoLostWakeup`, `NoLostRequest`, `SpuriousWorkBounded` and `WedgeIsForEver`, which were runs'
properties before they were theorems and would only be repeated there. The bounds: one slot, one string and one flag are contended by two
stores already, and each run has the two (three posters for the signal: one with a store done, one spinning, one idle); a stop after
a restart needs two stops, a third finds a flag left up by the second. One file that vanishes and comes back needs three
changes, and a second file is needed for the rest of a batch. One heart-beat and one control are enough to put each between any
two steps of a command. In `ClientThreads` the wedge needs a loss of the connection, a poster and
someone to fill the slot: three events; they are counted together, as the third of one kind adds nothing that a third of
another does not. The message, sync and payload channels differ from the command channel only in the thread they wake, and only the
command thread posts, so that the one channel is the worst. Two changes of folder lead back to the first one, which is the case of the
cache, and change it twice while a stop is under way; one fault is one cause, so that each property is seen with each of
the named causes alone. In `SyncFiles` a second tree-info request
meets a synchronisation that read the list of the first, and the flag that is up at the start is a second synchronisation; two folders are needed
for a change. In `ServiceSetup` two controllers with three clicks put a whole install, uninstall or restart of one between any two calls of the
other, with a click to spare; in `ArchiveReader` two members decide each pair of kinds and the third follows a member that was skipped or refused,
two blocks are a first and a last; a file with a short name has one of two directories, so that a directory is made before its file or by it. In `ServiceControl` one callback meets the creation of the threads, every step of the stop and
the time after it, and makes a second thread of either kind; one control puts a pause into a dispatch or into the stop. The
invariants hold for two callbacks without a control or another reason (5.2 million states, not kept as a run), and `TypeOK`,
`ThreadsAreAlone` and `ImplementsService` are proved for any number. What is proved for all bounds is in section 5,
with the list of what is only model-checked.

### Fairness

- Threads that do not block run on: weak fairness of each thread's steps (`WF_vars(Sleep)`, `WF_vars(Worker)`, ...), in
  `FolderWatch` of worker, loop thread, dispatch and payload thread, until the process is terminated.
- `CommandPath`, `MessagePath`, `SyncFiles`, `ServiceControl`, `ServiceSetup` and `ArchiveReader` have safety properties only, and no fairness; `ServiceStates` promises none,
  as a service manager can count on none. That their threads come to an end of what they were given, if they run on, is in section 5.
- A thread that spins in `notify_reason` competes for a slot that is emptied again and again; it is not continuously enabled.
  Strong fairness of such threads says that the compare-and-swap does not fail for ever. The code
  spins without a bound and the posters are few, so that this is what the scheduler gives; `ReasonSignal`
  itself assumes nothing of a spinning poster.
- `ClientThreads` has one weak fairness for all threads together. What comes from outside is bounded, so that
  every fair behaviour ends in a state where no thread can go on (`ThreadWorkIsFinite`): this is the weakest
  assumption under which the counterexample of `ConnectDeadlock` counts. A process that has crashed owes nothing (`Alive`).
- Nothing is assumed of the environment: commands, files, controls, spurious wake-ups, losses of the connection.

### Where the code and its documents disagree

`ConnectDeadlock` (`service_nats_client.cc:1895`) checks the sentence of `docs/code_flow.md` that after a command the command thread waits and the
SleepThread sleeps, and finds it violated: `connect` joins a thread that waits for the SleepThread to empty the slot. The positive run of the
module says that there is no other such wait, but for the threads that are made anew while `close` joins them.

The other disagreements are members of the history variables `lost`, `trouble` and `torn`; the positive properties except
them by name and say that nothing else of the kind happens. Against `docs/code_flow.md`:

- two acknowledged commands in quick succession: the second replaces the first or mixes with it (`service_nats_client.cc:1339`);
- the worker wakes while the SleepThread marks the service paused, and drops the wake-up: the old folder stays watched (`service_thread.cc:124`);
- an entry made between `get_all` and `clear` is erased unread (`service_nats_client.cc:1660`);
- a request that another one replaces, or that is cleared with it, is never answered (`service_nats_client.cc:1106`); a request to synchronise is
  answered as a message request, and a message whose text mentions the synchronisation starts one;
- a file that is empty when it is looked at is not uploaded;
- a folder commanded a second time gets a null tree, which ends the process at the next event (`service_watch_tree.cc:104`);
- a restart of the watcher whose stop comes too late assigns over a thread that was not joined (`service_watch_ex.cc:315`).

Of the code alone:

- a synchronisation that meets a directory where it wants a size, or any file that throws, drops the rest of its list; an entry to be ignored
  whose name is outside the code page is uploaded (`SyncFiles`);
- a directory that cannot be read ends the process when tree-info lists it (`MessagePath`, `SyncFiles`);
- `connect` destroys the connection before it stops the client threads that use it, and `close` does so without the mutex (`ClientThreads`);
- the controller's `start_service` on a service that runs stops it and then fails, as it asserts the state it read before the stop; `stop_service`
  reports the service stopped after its wait timed out, and the uninstallation goes on (`ServiceSetup`);
- every member with a long name is extracted to one path, where a directory with a long name keeps every later file out; a link with a long target, or a name of 511 bytes or more, which
  GNU `tar` writes in several records or blocks, ends the extraction with an error (`ArchiveReader`);
- after the stop the TimerThread may spin for ever in `notify_reason`, on a full slot for which no SleepThread is left; only the end of the process ends it
  (`StopEndsThreads` in `ServiceControlProofs`).

## 5. Proofs

All theorems hold for every value of the constants that satisfies the `ASSUME`s of the modules: the bounds are
natural numbers, the empty, the torn and the mangled string are no name, folder or request, `InitFolder` exists, `Channels` is a set of the three subscriptions. The runs evaluate the assumptions.

| module | theorem | argument |
|---|---|---|
| `SignalProofs`, of `ReasonSignal` | `SlotTypeCorrect`, `StoredReasonsAreTakenOnce`, `SlotWakeupsAreNotLost`, `WaitReturnsAReason` | the four invariants together are inductive: the exchange keeps the order only because the slot is full, and it is full because only the consumer empties it |
| | `StoredReasonIsReached` | the SleepThread is at most three steps from the exchange while a reason is stored (`ConsumerLeft`), and no poster adds to them |
| | `SignalImplementsMailbox` | the compare-and-swap is `Post`, the exchange is `Take`, every other step stutters |
| `SignalProofs`, of `WakeFlag` | `TypeCorrect`, `RequestsAreNotLost`, `WakeupsAreNotLost`, `ThreadsAreJoined`, `SpuriousWorkIsBounded` | strengthened by `ClearsRaised` (only the worker lowers the flag) and `TokensPaid` (each request and each stop pays for at most one handling) |
| | `AwaitedWorkerComes` | who is awaited, by the join or by a request, has its flag up or has seen it, and a notification is coming where it has blocked; its steps to the exit or the handler are four at most, each of them lowers their number (`WorkerLeft`) and nothing raises it |
| `CommandPathProofs` | `TypeCorrect`, `PauseTakenBack` | inductive as they stand |
| | `CommandsRunOnce` | an account: the commands run, held, standing in the slot and about to be stored are at most those acknowledged; `ReadNotCleared` says that a name read is still in the slot until the command thread clears it |
| | `FoldersComeToAgree` | `Told`: as long as nothing was lost, a watcher or a worker that lags behind `g_work_folder` has a wake-up on its way (`Waking`); `Saved`: so does a registry that lags behind, by a reason (`Reading`) or a save under way (`Writing`) |
| | `CommandWorkIsFinite` | `ToDo` weighs every place of a thread, a reason, the flag and each APC by more than it may lead to: a command costs the result that it posts, so that each step pays for what it causes; that a result never counts as a command (`ResultIsNoCommand`) breaks the circle |
| | `RestIsAgreed` | where every guard of a thread is false each of them sleeps with its flag, queue or slot empty: that is `Quiet`, and `FoldersComeToAgree` says the rest |
| `PayloadPathProofs` | `TypeCorrect`, `NothingStranded` | inductive as they stand |
| | `NoDoubleUpload` | an account per file: uploads, entries in the tree and the copy (one place between `get_all` and `clear`), events on the way are at most the appearances |
| | `AllNewFilesUploaded` | every file that is there is followed: uploaded, copied, in the tree with no removal to come, in the batch, or among the events after its last removal; with `NoStrandedFile` nothing is left of this at rest but the upload |
| | `TreesComeCloser` | as long as a file is in the tree a notification for it is with the payload thread, or on its way by the SleepThread, or with the loop thread (`NoStrandedFile`); `Distance` counts the steps of the foremost until the tree is emptied, the files in hand, of which there are finitely many (`FewFiles`), included |
| `MessagePathProofs` | `TypeCorrect`, `NoRequestAnsweredTwice` | an account per request: a copy and the string are one place between the reading and the clearing |
| | `RequestsAreHandled` | `FollowedAll`: as long as nothing was lost, a request not answered stands in the string or is carried by a thread; while it stands there a reason, a flag or the thread itself is on its way (`Awaited`, `SyncAwaited`) |
| | `SynchronisationsAreAsked` | an account: the synchronisations made and those due (`Due`: messages about to ask, reasons, the flag and the thread on their way) are at most one more than the requests that ask for one |
| | `MessageWorkIsFinite` | every place of a delivery thread, a reason, a flag, a place of message and synfile thread has a weight larger than all it may lead to; they add up to 41 at most (`Work`) |
| | `RestIsHandled` | where every guard of a thread is false nothing is on its way, and `RequestsAreHandled` says the rest |
| `MessagePathProofs`, of `SyncFiles` | `SyncTypeCorrect` | inductive as it stands |
| | `SynchronisationsKeepOut`, `SynchronisationsAreWhole` | `ListAgrees`: the list is what the last tree-info request asked to ignore, or lacks what the message thread has still to push; `Walked`: in a walk that no request met, what is listed is of the folder and is not to be ignored, and a file to be sent is listed, or to come, or its directory is; `Uploading` hands this over to the uploads |
| `ClientThreadsProofs` | `TypeCorrect` | inductive as it stands |
| | `NothingElseCrashes`, `ConnectionsAreServed` | until the stop: `Exclusion` (inside connect exactly when holding the mutex), and `Settled`, with `Dialled` (the connection is null while it is made), `Served0` (a connection at a free mutex is served), `Joined` (who stops the threads has stopped those before) |
| | `StopLeavesNothing` | `Closing`: once `close` has destroyed the connection it stays away, and each thread that `close` has passed (`Passed`) was joined or is being joined by a connect in progress (`Joiner`), unless that connect made it anew; there is no mutex to rely on |
| | `WedgesAreForEver` | none of the threads of a wedge has a step, and no other thread empties the slot, until the stop |
| | `BlockedThreadsAreNamed` | this is `NoOtherDeadlock` with the guards written out (`Unblocked`) for `ENABLED Step`. `Asked`: a thread told to end finds its flag up, and connect joins only threads it has told; with `Exclusion` and `Closing`, who joins waits for the slot or for a thread made anew, and who waits for the mutex waits for one who joins |
| | `ThreadWorkIsFinite` | the threads work for each other in a ring: a reason may lead to a connect, connect wakes the command thread, which posts a reason. `Work` weighs a reason with the connect that its turn may contain, but the connection counts only while it is down (`DownLeft`): the turn after a connect finds it up, and no step of a thread takes it down (`DialsFromNone`) but in the connect that makes it anew or in the last `close` |
| `FolderWatchProofs` | `TypeCorrect` | inductive as it stands |
| | `CrashesHaveCauses`, `TreesBelongToFolders`, `WatchersHear` | `Switched` (a running watcher has the handle of its folder), `Joined` (a thread is there to be assigned over only after a named trouble), `Fresh` (a folder never used has no cached tree), `Heard` (a read that completes is followed by another) |
| | `FilesAreSoughtInPlace` | `OneRead` (a watcher has one read, or one completion, at a time) and `Sought` (as long as nothing strayed, what is on its way, from the kernel's buffer to the payload thread's copy, belongs to one folder, the one that is looked in) |
| | `WorkIsFinite`, `JoinIsFinite` | `Work` weighs the places of the three threads, the length of the queue of APCs, and the flags; `JoinLeft` only what the join waits for, which files and folders from outside do not add to |
| | `RestartsGoOn`, `RestIsSleep` | `Started`: the worker in `start` has a new loop thread, or one that has raised the signal; `Stopped`: a sleeping thread that is joined has an APC to wake on; `Asleep`: outside a stop no loop thread sleeps that is not wanted |
| `ServiceControlProofs` | `TypeCorrect` | inductive as it stands; that the queue of APCs and the list of states to report keep their types are lemmas on `Append`, `Head` and `Tail` |
| | `ThreadsHaveHandles` | `Alone`, the property thread by thread: a thread is created only where the handle is null, and the handle is cleared only for a thread that ended or was terminated, or during the stop |
| | `ServiceImplemented` | a step simulation: `Begun` says what ServiceMain has reported at each of its places (`Early`, `Late`), `Handled` what the control handler has reported and has still to report, and that it has nothing to continue or pause once the event is set; with the two (`Life`) every report is a step of `ServiceStates` and everything else stutters (`Obeys`) |
| | `TransportIsStopped` | `TransportFate`: the handle that ServiceMain holds is that of the living process, unless the process died; once ServiceMain is over the process is gone or excused |
| | `StatusAgrees` | `Closing` (once the event is set the handler has nothing more to store but the stop) and `Settled`: each of the three threads that store what they reported is followed between the two steps; with `Life` of `ServiceImplemented`, two of them meet only where `overlapped` says so |
| | `ThreadsHearTheStop` | `Heard`: what `stop_threadpool` has seen to, place by place: one SleepThread is left to tell, its exit reason is coming to it, the flags of TimerThread and WorkerThread are up (`Hears`: that, or an excuse) |
| | `StoppedThreadsEnd` | where every guard of the pool's threads is false (`PoolRests`), a thread that has heard of the stop has ended. `TimerIsMade`: init goes on only with a TimerThread. That one thread may be left spinning is part of the statement |
| `ServiceSetupProofs` | `TypeCorrect` | inductive as it stands |
| | `ButtonsAreRight`, `TextIsTrue` | `ButtonInv` and `TextInv` say what a controller in the middle of its handler has found out, `Alone` that a controller nobody has disturbed is the only one at work; so a step of a handler is followed for its own controller, and leaves the others alone or disturbed |
| | `InstallationsAreWhole` | `Whole`: who is about to create the service has written its program, who is about to remove the program has the service marked, and its open handle keeps it from vanishing |
| `ServiceSetupProofs`, of `ArchiveReader` | `ArchiveTypeCorrect` | inductive once the place in the archive is a block of it (`PlaceOK`) and every path in the folder is a member's or the record's (`NamesOK`) |
| | `ArchiveFilesAreWhole`, `ArchiveIsExtracted` | `AtPlace`: what the reader knows of the member it is in, block by block: the path, what remains, and that the open file holds the blocks read so far; so no file is open where tar can return. `Entire` says the first of the files at rest, `Left` the second of the members passed, until one with a long name is overtaken by the next |
| | `ReaderNeverSticks`, `ReaderReadsOn` | `AtPlace` decides which turn the block calls for, so there is one at every block; each leaves a later place (`AfterFacts`), and the places are bounded. Together: `tar` ends |
| | `WholeArchivesAreExtracted` | where no call failed, `ExitHasACause` (the archive breaks off, or the reader stands in a member with a record that it cannot use) and `RefusalHasACause` (a directory has taken the records' path); with the two theorems before, what is left of a whole and readable archive is its return with every file. It says nothing of archives with a record of the kinds `other` and `over`, at which `tar` gives up |

An instance hands on no assumption: the theorems about the reason signal, which `SignalProofs` has beside the wake flag as the
instance `Signal`, state what `ReasonSignal` assumes of its constants as their hypothesis (`SlotBounds`).

### Of liveness, what a proof can reach

Fairness and `ENABLED` are out of the prover's reach, so that a liveness property is never a theorem here. Its two ingredients are:
a measure, a natural number that every step of the threads concerned lowers and no other step raises (the `Work` theorems except events from
outside, and speak of what happens between two of them); and that nobody waits in vain, the guards of
the threads' steps written out (`ThreadGoes`, `WorkerGoes`, `LoopGoes`, `PoolRests`, `ReaderGoes`, `Unblocked`) in place of `ENABLED`. Both are invariants and action
properties, and hold for all values of the constants.

| question | measure | nobody waits in vain |
|---|---|---|
| the mailbox's fairness in `ImplementsMailbox` (`ReasonSignal`) | `StoredReasonIsReached` | `SlotWakeupsAreNotLost` |
| `StopReturns`, `RequestServed` (`WakeFlag`) | `AwaitedWorkerComes` | `AwaitedIsHeard` in the same theorem |
| `TreeIsEmptied` (`PayloadPath`) | `TreesComeCloser`, in a service that is not paused | `NothingStranded`; that a thread gets the slot in the end is the run's strong fairness |
| `RestartReturns` (`FolderWatch`) | `WorkIsFinite`, `JoinIsFinite` | `RestartsGoOn`, `RestIsSleep` |
| that commands and messages come to an end (`CommandPath`, `MessagePath`; no run) | `CommandWorkIsFinite`, `MessageWorkIsFinite` | `RestIsAgreed`, `RestIsHandled` |
| that the threads of the client come to wait for something from outside, or to a named stall (`ClientThreads`; no run) | `ThreadWorkIsFinite` | `BlockedThreadsAreNamed` |
| that the threads end after the stop (`ServiceControl`; no run) | none: a sum over a set of threads is an induction over data | `StoppedThreadsEnd` |
| that `tar` ends (`ArchiveReader`; no run) | `ReaderReadsOn` | `ReaderNeverSticks` |

That the guards written out are those of the actions is seen by reading; only for `Unblocked` does a run say it (`NoOtherDeadlock`).

### Only model-checked

The liveness properties themselves; that `Unblocked`, which stands for `ENABLED Step` in `BlockedThreadsAreNamed`, is the same; the fair half
of `ImplementsMailbox`. Every other invariant that a run checks is a theorem.
