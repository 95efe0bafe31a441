# TLA+ models of the EQ-3 radiator hub

The repository is the firmware of an ESP32 hub that controls EQ-3 radiator
valves (TRVs) over Bluetooth LE for clients on MQTT, on a web page and on the
serial port. This directory models the hub's own code (`main/*.c`, about 3400
lines): TLA+ modules, TLC configurations and TLAPS proofs.

## 1. The system

| Part | State | Operations | Runs in |
|---|---|---|---|
| Command engine (`eq3_main.c`) | `cmdqueue`, `current_action`, `nextcmd`, `reboot_requested` | `handle_request`, `enqueue_command`, `run_command`, `command_complete`, `gattc_command_error`, `schedule_reboot`, loop of `app_main` | main task; requests in the callers' tasks |
| GATT client (`eq3_main.c`) | `gl_profile_tab`, `get_server`, `connection_open` | `gattc_profile_event_handler`, one case per event | Bluetooth task |
| Codec (`eq3_main.c`) | none | arguments in `handle_request`, bytes in `setup_command`, report in `NOTIFY_EVT` | callers |
| One-second timer (`eq3_timer.c`) | hardware timer, `timer_queue` | `start_timer`, the alarm interrupt | interrupt |
| UART task (`eq3_main.c`) | line buffer, `msgQueue` of ten | read a line, queue it | UART task |
| Scanner (`eq3_gap.c`) | `found_devices`, `num_devices`, `gap_scanning`, `gap_initialised` | `start_scan`, `esp_gap_cb`, `scan_done`, `eq3gap_get_device_list` | Bluetooth task; callers |
| MQTT client (`eq3_wifi.c`) | `repclient`, `devlist`, topics | `connected_cb`, `data_cb`, `send_trv_status`, `send_device_list`, `connect_server` | MQTT task; callers |
| WiFi control (`eq3_bootwifi.c`) | `connectionInfo`, `connattempts`, mode | `bootWiFi`, `restart_station`, `event_handler`, `wifidone` | main, event task |
| Web server (`eq3_bootwifi.c`, `eq3_htmlpages.h`) | form buffers | pages, command form, configuration form | web task |
| OTA update (`eq3_bootwifi.c`) | `update_partition`, `ota_handle`, `remlen` | one call per chunk of an upload | web task |
| Log (`eq3_bootwifi.c`) | 40 entries | `eq3_add_log`, log page | any; web task |
| Stored configuration (NVS) | a record | load, save, form | web and main task |

A request is parsed and appended to `cmdqueue` by the task it arrives in. The
main loop only moves when the timer ticks. A tick counts down the one delayed
command `nextcmd`, or starts the command at the head of the queue, or counts
the time of the operation under way. A command is carried out by a chain of
Bluetooth events (CONNECT/OPEN, CFG_MTU, SEARCH, REG_FOR_NOTIFY, WRITE, NOTIFY,
UNREG_FOR_NOTIFY), each asking for the next one; the verdict,
`command_complete`, removes, retries or gives up the head of the queue, and a
delayed EQ3_DISCONNECT closes the connection two seconds later. The
DISCONNECT event ends the operation.

What makes this hard: no task takes a lock; nothing identifies the command an
event belongs to; one slot holds all delayed commands; the timer that drives
everything is started by whoever remembers to; events of an old connection can
arrive late or not at all. What correctness means for each part:

* engine: the timer flag is the truth; work never sleeps; a verdict settles its
  own command; the hub talks to one valve at a time, the right one; retries are
  bounded; a queue drains and a reboot happens;
* codec: a request does what the README's table says, a clock is set to the time
  asked for, and the report shows the valve as it is;
* scanner: a list shown as complete is that of its scan; the buffers fit; a
  scan ends; a report is published once and is not lost;
* command list: a call changes it as the engine's queue changes, and no command
  or block is lost;
* WiFi and configuration: the hub is never stuck as a station without a link or
  as an access point with a network; a record in flash is always read with its
  own layout, also after a power cut;
* OTA: the running image survives every upload, no handle leaks, an undisturbed
  upload is installed exactly;
* log: the page never shows freed text or skips an entry, and a line is damaged
  only by a call of `eq3_add_log` at that moment;
* UART: a message is one typed line, in order.

`PROJECT.json` lists the hazards line by line.

## 2. Modules

| Module | Models |
|---|---|
| `Eq3Engine` | engine, GATT client, timer, and WiFi as far as it drives them |
| `Eq3EngineProofs` | its theorems |
| `CmdQueue` | the calls that change the command queue, as operators on sequences; used by the next two and by `Eq3Engine` |
| `CmdQueueContract` | abstract: the queue as its callers see it |
| `Eq3CmdList` | the linked list in memory; refines `CmdQueueContract` |
| `Eq3CmdListProofs` | its theorems, with the refinement |
| `TrvContract` | abstract: the repository README's table of commands, for one valve |
| `Eq3Codec` | arguments, bytes, status report; refines `TrvContract` |
| `Eq3CodecProofs` | its theorems, with the refinement |
| `Eq3Gap` | scanner, the web pages that walk its list, the queued MQTT report |
| `Eq3GapProofs` | its theorems |
| `Eq3Wifi` | station and access point, stored configuration, start of the MQTT client |
| `Eq3WifiProofs` | its theorems |
| `Eq3Ota` | firmware upload, boot partitions |
| `Eq3OtaProofs` | its theorems |
| `Eq3Log` | circular log and log page |
| `Eq3LogProofs` | its theorems |
| `Eq3Uart` | UART task, message queue, the main loop's receive |
| `Eq3UartProofs` | its theorems |
| `MCEq3...` | constants and symmetry for TLC |

### Eq3Engine

State: `cmdqueue` is a sequence of records (address, command with the
parameters it uses, the bytes it leaves unset, retries); `action`,
`get_server`, `connection_open`, `in_progress`, `ble_operation_time`,
`outstanding_timer` are the fields of `current_action`; `armed` and `ticks`
the hardware timer and its queue; `nextcmd` the delayed command;
`remote_bda` stands for `conn_id` too. `tries` and `uncharged` are history.

One call of a handler is one step. `handle_request` and `schedule_reboot` are
requests; `timer_group0_isr` and the disjuncts of `MainTick` the timer and one
pass of the main loop; `ConnectEvt` to `DisconnectEvt` the cases of
`gattc_profile_event_handler`; `WifiApStart`, `WifiConnected`, `WifiLost` and
`ConfigSubmitAp` the WiFi callbacks. The Bluetooth stack is external: `link[d]`
is the connection to `d`, `owed[d]` the events the stack still has to deliver.
It answers each request with success or failure, may drop a connection at any
time, and may follow a failed open with a DISCONNECT event or not. `Faults`
adds what it does when it misbehaves: `lose` (an event never comes), `late` (it
comes after the timeout), `nochar` (the valve lacks the response
characteristic). `ApFalls` lets the station fall back to an access point.

The parameter bytes a command does not set are uninitialised stack memory:
`Junk` is the set of values they may have.

Not modelled: interleaving inside a handler; REG_EVT and UNREG_EVT (once at
boot); a NOTIFY before the WRITE response, spontaneous or repeated
notifications; a request the stack refuses at the call (like a lost event);
the content of the attribute table.

### CmdQueue, CmdQueueContract and Eq3CmdList

`Eq3Engine` treats `enqueue_command` and `command_complete` as single changes
of a sequence. `Eq3CmdList` shows when that is right. Its `heap` holds the cells
`malloc` returned; `cmdqueue` and the `next` fields are pointers; `call[t]` is
how far task `t` is in its call and its local variables. A step is one access to
a pointer another task can change. `List` is the one sequence of cells that
satisfies `IsList`: linked from `cmdqueue` on, up to NULL or to a cell met
before. `ImplementsQueue` maps it to the `queue` of `CmdQueueContract`. With one
task the refinement holds; with two, `NothingLost` fails.

### Eq3Codec and TrvContract

One request with its answer is one step. Temperatures are tenths of a degree in
the requests and the reports and the protocol's half degrees in the valve.
`settemp_parm`, `offset_parm`, `ntp_parms` and `setup_command` make the bytes;
`Carries` is the valve (external); `NotifyEvt` decodes its notification with
the code's shifts, masks and the `int8_t`; `uchar` is the assignment of the
year to a byte.

A `settime` comes in four forms, by what follows the word: a time right behind
the blank (`settime_digits`), at least twelve characters that do not begin with
one, such as a second blank and a time (`settime_late`), fewer characters
(`settime_short`), or nothing (`settime_alone`). The last one reads behind the
end of the text, as the code does: `Garbage` is what may be found there. `asked`
is history: what the text said and what the hub's clock showed.

`TrvContract` knows no bytes: `KeepsContract` says that under the mapping
`temp <- 5 * valve.temp`, `offset <- 5 * (valve.offset - 7)`, status <- the
decoded report, every step of `Eq3Codec` is one of the contract. The contract
has no `offset` in its status, because the code gets that field wrong (below).

Not modelled: the address text, the valve opening in percent, the DST bit, NaN
arguments.

### Eq3Gap

Here a step is what one task does between two accesses to shared state.
`start_scan` may come from three tasks; `ScanParamSetComplete`,
`ScanStartComplete`, `InqResult` and `InqComplete` are cases of `esp_gap_cb` in
the Bluetooth task. `scan_done` and `send_device_list` are split at the test of
`repclient` (`InqComplete`, then `send_device_list`), `connected_cb` at its
test and at its reset of `devlist` (`MqttConnected`, `PublishQueued`,
`DropQueued`). `BtIdle` keeps the Bluetooth task from running two handlers at
once. `serve_device_list` and `WalkStep` are the web task's walk; `freed`
numbers the generations of the list, so that a pointer into a freed one shows.
The radio may refuse a start at any time, and always while it scans. History
variables: `overlapped` (a scan was requested during another), `refused` (the
radio did not start a scan), `walk.asked` (scans requested when the walk began).
Properties that need scans not to overlap say so with `overlapped`; nothing is
left out of the behaviours.
Signal strengths and failed allocations are left out.

### Eq3Wifi

`nvs` is the flash record with the version stored beside it and the layout it
was written in; `saveConnectionInfo` writes the two one after the other
(`saving` in between), and `PowerLoss` may come at any moment. `events` is the
driver's queue to the event task, which runs `event_handler`: `ApStart`,
`StaDisconnected` and `StaGotIp`. `wifidone(1)` waits for the network time
inside that task (`waiting`) and cancels RESTART_WIFI only afterwards
(`NtpDone`), so the web task and the main task act in between. `bootWiFi` and
`restart_station` are the main task, `configSubmit` and `configApply` the two
halves of the web form.

`nextcmd` is the one slot for a delayed command. `DelayDisconnect` and
`DisconnectDone` are the Bluetooth task and the main loop using it for
EQ3_DISCONNECT, at any time; `AsAccessPoint`, which is `wifidone(0)`, asks
`setnextcmd` for RESTART_WIFI and does not get it while the slot is taken.
`dropped` is history: that happened to the present access point. Two things are
taken as one step: the test and the three assignments of `setnextcmd`, and a
delayed command with the `nextcmd.running = false` behind it in the main loop.
In between the second two, an access point could only appear after several
failed attempts to connect, seconds each.

`aborted` says why the hub started last; "ssid" and "connect" are the assertions
in `becomeStation`. `link` and its changes are the driver (external).

### Eq3Ota

The body of an upload is a sequence of units, in whatever pieces `Read`
delivers. `HandleChunk` is one call of the handler: begin, skip of the
multipart header, write, end, switch of the boot partition, answer. `ota` holds
the handler's static variables, shared by all connections; `handle` and `flash`
belong to ESP-IDF (external), which may refuse to begin, to write or to accept
an image. `BreakOff` is a client that goes away, `Restart` a reboot, which boots
the other slot if the chosen one does not verify. `session` is history: which
uploads the update in progress was fed from, and whether something failed.

### Eq3Log and Eq3Uart

In `Eq3Log` a step is one access to `log_entries`, by the task that adds an
entry or by the page that counts and copies. Entries are numbers, so a stale,
doubled or missing line shows. A line of the page reads its place in the array
three times (`read`): for the text that `strncpy` copies, for the `strlen` that
says how many bytes of it, and, after the copy, for the `strlen` that moves
`wridx`. `Load` makes the first two in either order, `Reload` the third.
`Texts` compares the lengths of the three entries (`Length`): the line can be
whole, be cut, have bytes in it that it did not write, or contain a zero, and
the `strlen` of `mongoose_serve_content` ends the page there (`Ended`). `shown`
is what the browser gets; `since` is history: the calls of `eq3_add_log` that
overlap the line. One task adds at a time; two at once would free the last entry
twice (listed as a hazard).

In `Eq3Uart` a character is the number of its place in what was typed. A read
may deliver any part of what is typed next, is discarded as a whole when it does
not fit, and a line is dropped when memory or the queue is full or the queue
does not exist yet. `excused` is history: the reasons met so far.

## 3. Runs

Passing runs:

| Run | Configuration | Shows |
|---|---|---|
| `engine_safety` | 2 valves, 2 commands, a reliable stack, MAX_CMD_RETRIES 3 | `AttemptsBounded`, `OneConversation`, `NoLostWakeup`, `WriteToAddressee` |
| `engine_faults` | all faults, access point fallback | `TypeOK`, `TimerToken`, `DelayedCommandTicks`, `VerdictFindsItsCommand` survive every fault |
| `engine_live` | reliable stack, fairness | `QueueDrains`, `RebootHappens` |
| `list_serial` | one task, 3 requests | `ImplementsQueue`, `ListInOrder` (only a retry overtakes), `NothingLost`, `CallReturns` |
| `codec_contract` | arguments at the borders of the ranges, a clock that was never set, a time behind the text | `KeepsContract` (refinement of `TrvContract`), `ClockIsSet`, `OffsetShownIfSimple` |
| `gap_scan` | 4 scans at any time, start failures, lost broker, fairness | `TypeOK`, `CountIsLength`, `PublishedOnce`, `ListIsTheScan`, `WalkedListIsAlive`, `ScanEnds` |
| `wifi_control` | any stored configuration, lost links, power cuts, submissions, the override button, valve commands that take the slot | `NeverStranded`, `RestartOnlyAsAp`, `ClientIsCurrent`, `NeverWrongLayout`, `ModesAlternate` |
| `ota_upload` | 2 uploads, any chunks, failures, restarts | `TypeOK`, `OneHandle`, `RunningIntact`, `CleanUploadInstalled`, `UploadAnswered` |
| `log_page` | 4 places, 8 entries of three lengths, one page at a time | `HeldIsAlive`, `PageHasNoGap`, `LatestKept` |
| `uart_line` | any reads of 9 characters, buffer of 4, queue of 2 | `TypeOK`, `MessagesAreLines`, `InTypedOrder`, `EndedLineIsHandled` |

Some properties hold in these configurations too and are kept as definitions
for whoever changes the models: `TypeOK` of `Eq3CmdList`, `Eq3Codec`, `Eq3Log`
and `Eq3Wifi` (the proofs of section 4 start from them); `LedShowsAp` in `WifiControl`; `AttemptInv` and `Budget`
in `EngineSafety`; `CompleteMeansComplete` in `GapScan`.

Runs in which the code does not do what its documentation says (the property is
what a comment states; the trace is the code's):

| Run | What happens |
|---|---|
| `engine_freeze` | `OperationEnds`: `run_command` starts no timer, so the 40 s timeout is not counted: one lost event and no command runs again |
| `list_race` | `NothingLost`: two tasks in `enqueue_command` or `command_complete` at once; a command that was accepted is no longer in the list |

More disagreements show when the property on the left is put into the
configuration in the middle, with the change given (take `SYMMETRY` out of
`EngineSafety` for action properties, and `MaxRequests = 2` is enough):

| Property | Configuration | What happens |
|---|---|---|
| `NoLostWakeup` | `EngineSafety`, `ApFalls = TRUE` | the RESTART_WIFI tick stops the timer a requested reboot counted on (`eq3_main.c:1297`) |
| `AccessPointIsLeft` | `EngineLive`, `ApFalls = TRUE`, `MaxRequests = 1` | RESTART_WIFI is dropped because EQ3_DISCONNECT occupies `nextcmd`; the hub stays an access point (`eq3_main.c:1123`) |
| `AccessPointIsLeft` (of `Eq3Wifi`) | `WifiControl` | the same among lost links and the attempts of `event_handler` |
| `WriteToAddressee` | `EngineSafety`, `Faults = {"late"}` | a command is written over the connection of a timed-out one (`eq3_main.c:471`) |
| `GivenUpOnlyIfTried` | `EngineSafety` | the second report of a failure is charged to the next command, which may be given up untried |
| `FailedOnlyAfterRetries` | `EngineSafety` | OPEN failure and its DISCONNECT each cost a retry (`eq3_main.c:614`) |
| `SuccessEndsItsAttempt` | `EngineSafety` | UNREG_FOR_NOTIFY after a drop deletes another command |
| `NoDuplicateRequest` | `EngineSafety`, `Junk = {0, 1}` | unset parameter bytes defeat the duplicate check (`eq3_main.c:936`) |
| `ReportedOffsetInRange` | `CodecContract` | -3.5 is reported as -4.5 (`eq3_main.c:506`) |
| `SubmittedTimeIsSet` | `CodecContract` | the time submitted behind two blanks is ignored and the hub's is sent (`eq3_main.c:773`) |
| `OnlySynchronisedTime` | `CodecContract` | a clock that was never set is sent, with the year 226 (`eq3_main.c:789`) |
| `SettimeWithoutParameter` | `CodecContract` | the web form's `settime` without a value is refused (`eq3_bootwifi.c:578`); one at the end of the text may send what lies behind it (`eq3_main.c:773`) |
| `NobodyFreesTheWalkedList` | `GapScan` | a scan frees the list a web page walks (`eq3_gap.c:285`) |
| `FlagMeansScan` | `GapScan` | a scan that does not start leaves `gap_scanning` set (`eq3_gap.c:146`) |
| `NewestNotLost` | `GapScan` | `connected_cb` drops a report queued while it published an older one (`eq3_wifi.c:136`) |
| `QueuedIsPublished` | `GapScan`, `MqttDrops = FALSE` | a report queued just after `connected_cb` looked waits for the next connection (`eq3_wifi.c:195`) |
| `SuccessMeansInstalled` | `OtaUpload` | the upload page shows success although a write failed or the image was refused (`eq3_bootwifi.c:691`) |
| `SsidNeverEmpty` | `WifiControl` | a configuration with an empty name is stored; the assertion in `becomeStation` then restarts the hub (`eq3_bootwifi.c:951`) |
| `StillAccepts` | `UartLine` | once 1023 characters are collected every read is discarded, line ends too, and the serial port is dead until a restart (`eq3_main.c:711`) |

### Bounds

* Two valves and two commands are enough for a verdict, a retry or a write to
  hit the wrong one; three requests let a retry be moved behind another command
  and a duplicate follow. The proofs cover any number.
* The delays and the timeout are scaled down to 1, 2 or 3 ticks. They are never
  counted against each other: a tick counts `nextcmd` or, when nothing is
  delayed, `ble_operation_time`, so only their expiry matters. The proofs hold
  for every length. `MAX_CMD_RETRIES` keeps its value 3 in `engine_safety`.
* `MaxRequests` and `MaxScans` end behaviours. Where a run says
  `CHECK_DEADLOCK FALSE`, the hub may really be idle: after its last request
  there is nothing to do, and after a reboot the behaviour is over.
* Codec arguments are the values on both sides of each comparison, with and
  without a half degree; a time and two dates, one of them without a year byte,
  tell every source of a `settime` from the others; `Lens` are the two lengths valves send.
* Two devices and four scans: one to overlap, one to be refused, one during a
  walk, one more to clean up.
* The list has three cells for three requests: a head, a middle and a tail, so
  that a retry moves past a command, and a walk passes one.
* `MAXCONNATTEMPTS` 1 gives a first attempt, a repeated one and the fallback;
  `MaxEvents` 1 still lets an event wait while the event task is in `wifidone`;
  EQ3_DISCONNECT takes the slot as often as it is free;
  two brokers tell an old MQTT client from a new one.
* Uploads of 6 and 5 units with a header of 2 and reads of up to 3: the header
  arrives whole or cut, the file in one or several pieces, and two uploads mix
  in every way. The proofs cover any bodies.
* The log's 4 places and 8 entries let every entry be shifted out while a page
  is made, and texts of three lengths in turn put a longer, a shorter and an
  equal one in the place of another; the UART's buffer of 4 is filled exactly, overrun and emptied, the
  queue of 2 overruns.
* Symmetry is used only in `EngineSafety`, `EngineFaults` and `ListRace`, where
  valves, commands, cells and tasks are interchangeable and nothing temporal but
  `WriteToAddressee`, itself symmetric, is checked.

### Fairness

Weak fairness of what goes on by itself:

* the alarm interrupt, the main loop (it blocks on `timer_queue` only), the
  stack's delivery of what it owes, the rest of a handler that has begun, the
  end of a scan (the 30 seconds are the controller's), and the MQTT client's
  attempts to connect. `Lose` has no fairness: an event that is owed may always
  be delivered;
* in `list_serial` the steps of a call that has begun: it contains no wait;
* in `wifi_control` the start of WiFi, the delayed RESTART_WIFI, the event task,
  the second half of a submitted form, and the driver's report on an attempt to
  connect. A network that lets the hub join but never gives it an address is
  excluded by the last one: the code has no timeout for it. Nothing is assumed of
  EQ3_DISCONNECT: `ModesAlternate` does not wait for the slot to become free;
* in `ota_upload` the reading of what a client that stays has announced, and the
  end of a connection that is draining. A client may break off at any time;
* in `uart_line` the two tasks. Nothing is assumed of what is typed.

Nothing is assumed of requests, of WiFi links, of power, or of a valve.

## 4. Proofs

For every value of the constants the assumption of the module allows
(`EngineAssumption`, `GapAssumption`, `OtaAssumption`, `WifiAssumption`,
`UartAssumption`, `LogAssumption`, `CodecAssumption`, `CmdListAssumption`);
TLAPS checks every leaf. Every safety property of the passing runs is a theorem,
the two refinements included.

`Eq3EngineProofs`, in every environment (all faults, access point fallback):

* `TypeCorrect`: `TypeOK` is inductive; it includes that a queued command has
  at least one retry left, which needs the order of decrement and test in
  `command_complete`.
* `TimerIsOne`, `DelayedCommandNeverForgotten`: `TimerInv`, the conjunction of
  `TypeOK`, `TimerToken` and `DelayedCommandTicks`, is inductive. Lemma
  `TimerStep` reduces each action to one of five things it can do to the timer.
* `FirstVerdictIsRight`: `QueueStep` reduces each action to one of four things
  it can do to the queue.

With a stack that answers in time and no fallback (`Reliable`, the case
`Faults = {}`, `~ApFalls`):

* `OneConversationAtATime`: needs `AttemptInv`, which says what each state of a
  connection owes and that no attempt loses its verdict.
* `NoEndlessRetry`: `Budget` (attempts made and retries left never exceed the
  maximum, but for the attempt under way). `AttemptInv` gives that a command is
  only sent after the previous attempt was settled.
* `CommandReachesItsValve`: the action property `WriteToAddressee`, from
  `OneConversation` and `AttemptInv`.
* `NeverSleepsOnWork` (`NoLostWakeup`): `WakeInv` says that work keeps the timer
  or an operation going (`WantInv`), an operation the timer or an event other
  than CLOSE (`AwakeInv`), and that nothing is asked of the hub before WiFi has
  started (`BootInv`). The last needs requests to come over the network
  (`Networked`): the tick that carries out START_WIFI does not start the timer
  again, so a command typed on the UART before it would be left without one.
  `engine_safety` runs with `Sources = {"net"}` too.

`Eq3GapProofs`, for every interleaving:

* `GapTypeCorrect`; `ReportFits` (`CountIsLength`); `NoReportTwice`, with
  `ReportInv` (a waiting report was not published, and the two places where one
  waits never hold the same).
* `FinishedListIsExact` and `NoScanBehindACompleteList`, with `OrderlyInv`:
  until scans have overlapped at most one stage of a scan is pending, the flag
  is up while one is, and the list is empty until the radio starts.
* `WalkRuleSuffices` (`WalkedListIsAlive`), with `WalkInv`: a walk begins when
  nothing is pending, and what is pending later was requested during the walk.

`Eq3OtaProofs`, for any bodies, chunks, failures and restarts:

* `OtaTypeCorrect`, `HandleNeverLeaks` (`OneHandle`) and `HubStaysBootable`
  (`RunningIntact`), from the inductive `SafeInv`: `TypeOK`, `OneHandle`, and
  `SlotInv`: an update in progress writes to the slot the hub does not run from,
  whose image verifies. That is enough for a restart too, because one of the two
  slots always verifies.
* `CleanUploadWorks` (`CleanUploadInstalled`), from `CleanInv`: as long as an
  upload has the handler for itself the slot holds exactly what was sent of its
  file (`Progress`). The lemmas `UnitsType`, `UnitsJoin` and `AloneGrows` say
  what one chunk adds.

`Eq3WifiProofs`, for every interleaving of the event, main and web tasks and the
driver:

* `WifiTypeCorrect`.
* `RecordNeverMisread` (`NeverWrongLayout`): `LayoutInv` adds that the blob is
  the new one between the two writes of `saveConnectionInfo`.
* `HubNeverStranded` (`NeverStranded`): `StrandInv`. Besides the taken slot,
  which the property names (`dropped`), what could strand an access point is a
  late STA_GOT_IP, because `wifidone(1)` cancels RESTART_WIFI; the invariant says
  that behind each one in the queue (`Covered`), and behind one being handled,
  waits the AP_START that asks for it again.
* `RestartSparesStation` (`RestartOnlyAsAp`) and `ClientHasStoredSettings`
  (`ClientIsCurrent`): `OrderlyInv` lists, until a form is submitted, what each
  mode allows in the event queue (at most two events, in one order) together
  with the link, and which settings the MQTT client runs with.

`Eq3UartProofs`, for any buffer, queue and reads:

* `UartTypeCorrect`: with `RoomInv`, what is collected and what is read but not
  looked at fit the buffer together.
* `UartInTypedOrder` (`InTypedOrder`): `OrderInv`, one chain of increasing
  places through handled, queued and collected characters.
* `UartMessagesAreLines` (`MessagesAreLines`): `LineInv`; the line being
  collected is the last `cmdidx` characters looked at, behind a line end.

`Eq3LogProofs`, for any length of the array:

* `LogLatestKept` (`LatestKept`): `ArrayInv` says what each place holds in the
  middle of a shift (places from `Moved` on are done), and what is allocated.
* `LogTypeCorrect`, `LogHeldIsAlive` (`HeldIsAlive`), `LogPageHasNoGap`
  (`PageHasNoGap`): `PageInv`. What was counted is still there when it is read
  (`CountInv`), each of the three entries a line has read is at least one call
  away from being freed (`HeldInv`) and still stands in its place as long as no
  call overlapped the line (`QuietInv`), and the place read next continues what
  is shown (`NextInv`). `ReadStep` serves all three reads.

`Eq3CodecProofs`, for every argument, date and length of a notification:

* `CodecTypeCorrect` and `CodecOffsetShown` (`OffsetShownIfSimple`): `CodecInv`.
  One lemma per field of the protocol says what its bytes do: `TempArg`,
  `OffsetArg`, `DateArg` for the way there, `StatusFlags`, `TempReport`,
  `OffsetReport` for the way back.
* `CodecKeepsContract` (`KeepsContract`): each command has an effect lemma (what
  the exchange does to the valve) and a lemma that this is a step of
  `TrvContract`.
* `CodecClockIsSet` (`ClockIsSet`), for every text, every memory behind it and
  every clock. The property names its two exceptions: a time read from behind
  the text is whatever lies there, and a year without a byte is sent as another.

`Eq3CmdListProofs`, when calls do not overlap (`Serial`: one task, any number of
cells, valves, commands, retries and requests; with two tasks `list_race` shows
that the properties fail):

* All from `ListInv`: the cells are linked and, between `mvcmd->next = cmdqueue`
  and `mvcmd->next->next = NULL`, form a circle (`Linked`); what they hold, with
  the retry of a failed head counted but its removal not (`Filled`); every block
  is in the list, refused, or the one the call is about (`Accounted`); and how
  far the call is, in particular that `lastCommandForDevice` is right for the
  part of the list already walked (`PlaceInv`). No pointer is followed through
  NULL.
* The invariant is proved for any sequence `s` that is linked, with what each
  action makes of it (`AddHeadStep` to `FreeCellStep`). `OneList` shows that two
  linked sequences are equal, so `s` is `List`. Its induction over positions is
  a least counterexample (`First`), which the well-foundedness of `<` on Nat
  gives without an induction theorem.
* `ListKeepsContract` (`ImplementsQueue`): `Shown(s)` is the queue the list
  stands for; each action leaves it (`Same`) or changes it as `QueueStep` says.
  `NotPending` shows that comparing with `lastCommandForDevice` is the duplicate
  test of `CmdQueue`.
* `ListStaysInOrder` (`ListInOrder`): `OrderStep` shows that a step of the
  contract keeps the order. `ListLosesNothing` (`NothingLost`) and
  `ListTypeCorrect` follow from `ListInv`.

Only model-checked: the liveness properties `QueueDrains`, `RebootHappens`,
`ScanEnds`, `ModesAlternate`, `UploadAnswered`, `EndedLineIsHandled` and
`CallReturns`, because fairness is beyond the prover.

## 5. Plan and what is left out

Proofs worth adding next: `LedShowsAp` of `Eq3Wifi`, once a run checks it; that
a call of the command list never runs through more steps than the list has
cells, the safety half of `CallReturns`; what holds of the engine when one event
comes late.

Models worth adding: the engine composed with the MQTT client, for the status a
client sees for its request; the codec's address text, valve opening and NaN
arguments; two tasks in `eq3_add_log` at once.

Not modelled:

* The Mongoose library (`components/mongoose`), beyond the delivery of an
  upload's chunks and the end of a connection in `Eq3Ota`: vendored code, not
  this program's logic. With its examples and the STM32 and FreeRTOS headers
  they bring along it is over 90 % of the repository's C lines, so the mapped
  lines are a small share of all lines, though most of the state-changing code
  in `main/` is mapped.
* HTML formatting, topic names, welcome and check messages, the echo on the
  terminal: text only.
* REG_EVT and UNREG_EVT, the setup of drivers in `app_main`: once, in order, at
  boot.
* A configuration page shown while `connectionInfo` is half loaded; the
  reaction of the MQTT library to a NULL client; lengths of texts (`eq3_bootwifi.c:354`).

## 6. Checking

    tlc -workers 2 -config EngineSafety.cfg MCEq3Engine
    tlc -workers 2 -config CodecContract.cfg MCEq3Codec
    tlc -workers 2 -config ListSerial.cfg MCEq3CmdList
    tlc -workers 2 -config GapScan.cfg MCEq3Gap
    tlc -workers 2 -config WifiControl.cfg MCEq3Wifi
    tlc -workers 2 -config OtaUpload.cfg MCEq3Ota
    tlc -workers 2 -config LogPage.cfg MCEq3Log
    tlc -workers 2 -config UartLine.cfg MCEq3Uart
    tlapm Eq3EngineProofs.tla

and `tlapm` in the same way for the other modules that end in `Proofs`.

`PROJECT.json` lists every run with its configuration, and for each property of
a passing run a mutant: an operator ending in a suffix such as `_keep`, defined
just before the one it mutates, that makes TLC report a violation.
