----------------------------- MODULE Eq3Engine -----------------------------
(***************************************************************************)
(* The command engine of the hub: main/eq3_main.c with main/eq3_timer.c.   *)
(*                                                                         *)
(* Requests (UART, MQTT, web) are queued in cmdqueue.  One hardware timer  *)
(* drives the main loop: a tick either counts down the one delayed command *)
(* nextcmd, or starts the command at the head of the queue, or watches the *)
(* operation in progress.  A command is carried out by a chain of GATT     *)
(* client events, each of which asks the Bluetooth stack for the next one. *)
(*                                                                         *)
(* Atomicity: one handler call is one step.  The handlers run in the main  *)
(* task, the Bluetooth task (BTC), the MQTT and the web server task and    *)
(* take no lock; interleaving inside a handler is not modelled here.       *)
(*                                                                         *)
(* The Bluetooth stack is external: owed[d] is the set of events it still  *)
(* has to deliver for device d, link[d] the state of the connection.       *)
(***************************************************************************)
EXTENDS CmdQueue

CONSTANTS
    Devs,                   \* valve addresses
    Cmds,                   \* valve commands with their used parameters
    Junk,                   \* values of the parameter bytes left unset
    NoDev, NoCmd,           \* current_action before the first command
    MAX_CMD_RETRIES,        \* attempts granted to a command (3)
    BLE_OPERATION_TIMEOUT,  \* ticks (40)
    DisconnectDelay,        \* ticks before EQ3_DISCONNECT (2)
    StartDelay,             \* ticks before START_WIFI (5)
    ApDelay,                \* ticks before RESTART_WIFI (300)
    MaxRequests,            \* bound on the requests of one behaviour
    Sources,                \* where requests come from: "uart", "net"
    ApFalls,                \* can the station fall back to an access point?
    Faults                  \* "lose", "late", "nochar": see the actions

ASSUME EngineAssumption ==
    /\ NoDev \notin Devs /\ NoCmd \notin Cmds
    /\ MAX_CMD_RETRIES \in Nat \ {0}
    /\ BLE_OPERATION_TIMEOUT \in Nat \ {0}
    /\ DisconnectDelay \in Nat \ {0}
    /\ StartDelay \in Nat \ {0}
    /\ ApDelay \in Nat \ {0}
    /\ MaxRequests \in Nat
    /\ Sources \subseteq {"uart", "net"}
    /\ ApFalls \in BOOLEAN
    /\ Faults \subseteq {"lose", "late", "nochar"}

VARIABLES
    cmdqueue,           \* the command list, head first
    action,             \* current_action.cmd_val and .cmd_bleda
    get_server,         \* current_action.get_server
    connection_open,    \* current_action.connection_open
    in_progress,        \* current_action.ble_operation_in_progress
    ble_operation_time, \* current_action.ble_operation_time
    outstanding_timer,  \* current_action.outstanding_timer
    armed,              \* timer0 counts towards its alarm
    ticks,              \* number of events in timer_queue
    nextcmd,            \* the delayed command
    reboot_requested,
    restarted,          \* esp_restart() was called
    remote_bda,         \* gl_profile_tab[0].remote_bda and .conn_id
    link,               \* external: state of the connection to each device
    owed,               \* external: events the stack still owes
    unreg_owed,         \* external: an UNREG_FOR_NOTIFY_EVT is owed
    wifi,               \* external: what the WiFi driver is doing
    requests,           \* number of requests so far
    published,          \* the message published by the last step
    uncharged           \* history: the attempt under way has no verdict yet

timerVars == <<outstanding_timer, armed, ticks>>
queueVars == <<cmdqueue, uncharged>>
opVars    == <<in_progress, ble_operation_time, action>>
gattVars  == <<get_server, connection_open, remote_bda>>
stackVars == <<link, owed, unreg_owed>>
envVars   == <<wifi, requests, reboot_requested, restarted>>
vars == <<timerVars, queueVars, opVars, gattVars, stackVars, envVars,
          nextcmd, published>>

-----------------------------------------------------------------------------
(* Values *)

Command == [bleda : Devs, cmd : Cmds, junk : Junk,
            retries : 1 .. MAX_CMD_RETRIES,
            tries : Nat]                        \* history: times opened

DelayedCmd == {"EQ3_DISCONNECT", "START_WIFI", "RESTART_WIFI"}

\* Requests made of a connection, in the order of the chain of events.
Chain == {"OPEN", "MTU", "SEARCH", "REG", "WRITE", "NOTIFY"}
Event == Chain \cup {"DISC", "CLOSE"}

NoMsg == [kind |-> "none", trv |-> NoDev]

Init ==
    /\ cmdqueue = <<>>
    /\ action = [cmd |-> NoCmd, bleda |-> NoDev]
    /\ get_server = FALSE /\ connection_open = FALSE
    /\ in_progress = FALSE /\ ble_operation_time = 0
    /\ outstanding_timer = TRUE /\ armed = TRUE /\ ticks = 0
    /\ nextcmd = [running |-> TRUE, cmd |-> "START_WIFI",
                  countdown |-> StartDelay]
    /\ reboot_requested = FALSE /\ restarted = FALSE
    /\ remote_bda = NoDev
    /\ link = [d \in Devs |-> "down"]
    /\ owed = [d \in Devs |-> {}]
    /\ unreg_owed = FALSE
    /\ wifi = "off"
    /\ requests = 0
    /\ published = NoMsg
    /\ uncharged = FALSE

-----------------------------------------------------------------------------
(* The helpers of eq3_main.c *)

setnextcmd(cmd, time_s) ==
    nextcmd' = IF nextcmd.running THEN nextcmd
               ELSE [running |-> TRUE, cmd |-> cmd, countdown |-> time_s]

\* Mutant: start_timer() also when the timer is running.
runtimer_always(flag) == outstanding_timer' = TRUE /\ armed' = TRUE

\* flag is the value of outstanding_timer at the call: a tick clears it first.
runtimer(flag) ==
    /\ outstanding_timer' = TRUE
    /\ armed' = (armed \/ ~flag)

command_complete(success) ==
    /\ cmdqueue' = IF success THEN QueueAfterSuccess(cmdqueue)
                   ELSE QueueAfterFailure(cmdqueue)
    /\ uncharged' = FALSE

\* command_complete(false) returns EQ3_CMD_FAILED
RetriesExhausted == cmdqueue # <<>> /\ Head(cmdqueue).retries - 1 <= 0

\* Mutant: the timer is not started.
gattc_command_error_notimer(bleda, flag) ==
    /\ command_complete(FALSE)
    /\ published' = IF RetriesExhausted THEN [kind |-> "error", trv |-> bleda]
                    ELSE NoMsg
    /\ setnextcmd("EQ3_DISCONNECT", DisconnectDelay)
    /\ outstanding_timer' = flag /\ UNCHANGED armed

gattc_command_error(bleda, flag) ==
    /\ command_complete(FALSE)
    /\ published' = IF RetriesExhausted THEN [kind |-> "error", trv |-> bleda]
                    ELSE NoMsg
    /\ setnextcmd("EQ3_DISCONNECT", DisconnectDelay)
    /\ runtimer(flag)

\* The success path: command_complete(true), setnextcmd, runtimer.
CommandDone ==
    /\ command_complete(TRUE)
    /\ setnextcmd("EQ3_DISCONNECT", DisconnectDelay)
    /\ runtimer(outstanding_timer)

Quiet == published' = NoMsg

-----------------------------------------------------------------------------
(* Requests: handle_request() and schedule_reboot() *)

Reachable(src) == src = "net" => wifi \in {"sta", "ap", "cfgap"}

\* Mutant: nobody starts the timer.
WakeIfIdle_never == UNCHANGED <<outstanding_timer, armed>>

WakeIfIdle ==
    IF in_progress THEN UNCHANGED <<outstanding_timer, armed>>
    ELSE runtimer(outstanding_timer)

handle_request(src, d, c, j) ==
    /\ Reachable(src) /\ requests < MaxRequests
    /\ requests' = requests + 1
    /\ cmdqueue' = enqueue_command(cmdqueue,
                     [bleda |-> d, cmd |-> c, junk |-> j,
                      retries |-> MAX_CMD_RETRIES, tries |-> 0])
    /\ WakeIfIdle /\ Quiet
    /\ UNCHANGED <<ticks, uncharged, opVars, gattVars, stackVars, nextcmd,
                   wifi, reboot_requested, restarted>>

\* Mutant: the timer is not started.
schedule_reboot_notimer ==
    /\ Reachable("net")
    /\ reboot_requested' = TRUE /\ Quiet
    /\ UNCHANGED <<timerVars, queueVars, opVars, gattVars, stackVars, nextcmd,
                   wifi, requests, restarted>>

schedule_reboot ==
    /\ Reachable("net")
    /\ reboot_requested' = TRUE
    /\ WakeIfIdle /\ Quiet
    /\ UNCHANGED <<ticks, queueVars, opVars, gattVars, stackVars, nextcmd,
                   wifi, requests, restarted>>

-----------------------------------------------------------------------------
(* The timer and the main loop: one timer event is one step *)

timer_group0_isr ==
    /\ armed
    /\ armed' = FALSE /\ ticks' = ticks + 1 /\ Quiet
    /\ UNCHANGED <<outstanding_timer, queueVars, opVars, gattVars, stackVars,
                   envVars, nextcmd>>

Tick == ticks > 0 /\ ticks' = ticks - 1

\* The tick ends without starting the timer again.
NoTimer == outstanding_timer' = FALSE /\ UNCHANGED armed

Countdown ==
    /\ Tick /\ nextcmd.running /\ nextcmd.countdown - 1 > 0
    /\ nextcmd' = [nextcmd EXCEPT !.countdown = @ - 1]
    /\ runtimer(FALSE) /\ Quiet
    /\ UNCHANGED <<queueVars, opVars, gattVars, stackVars, envVars>>

Fire(cmd) ==
    /\ Tick /\ nextcmd.running /\ nextcmd.countdown - 1 <= 0
    /\ nextcmd.cmd = cmd
    /\ nextcmd' = [running |-> FALSE, cmd |-> cmd, countdown |-> 0]

\* esp_ble_gattc_close: the stack drops what the connection still owed and
\* answers with a CLOSE and a (local) DISCONNECT event.
esp_ble_gattc_close ==
    IF \E d \in Devs : d = remote_bda /\ link[d] = "up"
    THEN /\ link' = [link EXCEPT ![remote_bda] = "closing"]
         /\ owed' = [owed EXCEPT ![remote_bda] =
                        (@ \cap {"OPEN"}) \cup {"DISC", "CLOSE"}]
         /\ UNCHANGED unreg_owed
    ELSE UNCHANGED stackVars

\* Mutant: the operation counts as over when the close is requested.
FireDisconnect_early ==
    /\ Fire("EQ3_DISCONNECT")
    /\ IF connection_open THEN esp_ble_gattc_close ELSE UNCHANGED stackVars
    /\ runtimer(FALSE) /\ Quiet
    /\ in_progress' = FALSE
    /\ UNCHANGED <<queueVars, ble_operation_time, action, gattVars, envVars>>

FireDisconnect ==
    /\ Fire("EQ3_DISCONNECT")
    /\ IF connection_open THEN esp_ble_gattc_close ELSE UNCHANGED stackVars
    /\ runtimer(FALSE) /\ Quiet
    /\ UNCHANGED <<queueVars, opVars, gattVars, envVars>>

\* bootWiFi(): a station when a configuration is stored, else an access
\* point that waits for one ("cfgap").
FireStartWifi ==
    /\ Fire("START_WIFI")
    /\ wifi' \in {"trying", "cfgap"}
    /\ NoTimer /\ Quiet
    /\ UNCHANGED <<queueVars, opVars, gattVars, stackVars, requests,
                   reboot_requested, restarted>>

FireRestartWifi ==
    /\ Fire("RESTART_WIFI")
    /\ wifi' = IF wifi = "ap" THEN "trying" ELSE wifi
    /\ NoTimer /\ Quiet
    /\ UNCHANGED <<queueVars, opVars, gattVars, stackVars, requests,
                   reboot_requested, restarted>>

\* esp_ble_gattc_open: an OPEN_EVT is owed, preceded by a CONNECT_EVT when
\* the device is not connected yet.
esp_ble_gattc_open(d) ==
    /\ link' = [link EXCEPT ![d] = IF @ = "down" THEN "opening" ELSE @]
    /\ owed' = [owed EXCEPT ![d] = @ \cup {"OPEN"}]
    /\ UNCHANGED unreg_owed

\* run_command() with setup_command().  The timer is not started.  Without
\* the fault "late" an unregistration, which needs no radio, is confirmed
\* before the seconds until the next command have passed.
run_command ==
    /\ Tick /\ ~nextcmd.running /\ ~in_progress
    /\ cmdqueue # <<>>
    /\ "late" \in Faults \/ ~unreg_owed
    /\ LET h == Head(cmdqueue) IN
       /\ action' = [cmd |-> h.cmd, bleda |-> h.bleda]
       /\ esp_ble_gattc_open(h.bleda)
       /\ cmdqueue' = <<[h EXCEPT !.tries = @ + 1]>> \o Tail(cmdqueue)
    /\ in_progress' = TRUE /\ ble_operation_time' = 0
    /\ uncharged' = TRUE
    /\ NoTimer /\ Quiet
    /\ UNCHANGED <<gattVars, envVars, nextcmd>>

\* Nothing to run: the timer stops, or the requested reboot happens.
IdleTick ==
    /\ Tick /\ ~nextcmd.running /\ ~in_progress
    /\ cmdqueue = <<>>
    /\ restarted' = reboot_requested
    /\ NoTimer /\ Quiet
    /\ UNCHANGED <<queueVars, opVars, gattVars, stackVars, nextcmd,
                   wifi, requests, reboot_requested>>

OperationTick ==
    /\ Tick /\ ~nextcmd.running /\ in_progress
    /\ ble_operation_time + 1 < BLE_OPERATION_TIMEOUT
    /\ ble_operation_time' = ble_operation_time + 1
    /\ runtimer(FALSE) /\ Quiet
    /\ UNCHANGED <<queueVars, in_progress, action, gattVars, stackVars,
                   envVars, nextcmd>>

\* Without the fault "late" the stack answers within BLE_OPERATION_TIMEOUT
\* ticks or never.
OperationTimeout ==
    /\ Tick /\ ~nextcmd.running /\ in_progress
    /\ ble_operation_time + 1 >= BLE_OPERATION_TIMEOUT
    /\ "late" \in Faults \/ (~unreg_owed /\ \A d \in Devs : owed[d] = {})
    /\ in_progress' = FALSE /\ ble_operation_time' = 0
    /\ gattc_command_error(action.bleda, FALSE)
    /\ UNCHANGED <<action, gattVars, stackVars, envVars>>

MainTick ==
    \/ Countdown \/ FireDisconnect \/ FireStartWifi \/ FireRestartWifi
    \/ run_command \/ IdleTick \/ OperationTick \/ OperationTimeout

-----------------------------------------------------------------------------
(* gattc_profile_event_handler(): one action per event *)

Deliver(d, e) == e \in owed[d]

\* The stack hands event e over; the handler's requests add the events more.
Answer(d, e, more) == owed' = [owed EXCEPT ![d] = (@ \ {e}) \cup more]

Unchanged(rest) == UNCHANGED <<rest, envVars, ticks>>

\* Mutant: conn_id and remote_bda keep the first connection's value.
ConnectEvt_stale(d) ==
    /\ Deliver(d, "OPEN") /\ link[d] = "opening"
    /\ ~unreg_owed /\ \A x \in Devs : "CLOSE" \notin owed[x]
    /\ link' = [link EXCEPT ![d] = "up"]
    /\ remote_bda' = IF remote_bda = NoDev THEN d ELSE remote_bda
    /\ owed' = [owed EXCEPT ![d] = @ \cup {"MTU"}]
    /\ Quiet
    /\ Unchanged(<<outstanding_timer, armed, queueVars, opVars, get_server,
                   connection_open, unreg_owed, nextcmd>>)

\* Events of an earlier connection were posted, hence delivered, before.
ConnectEvt(d) ==
    /\ Deliver(d, "OPEN") /\ link[d] = "opening"
    /\ ~unreg_owed /\ \A x \in Devs : "CLOSE" \notin owed[x]
    /\ link' = [link EXCEPT ![d] = "up"]
    /\ remote_bda' = d
    /\ owed' = [owed EXCEPT ![d] = @ \cup {"MTU"}]
    /\ Quiet
    /\ Unchanged(<<outstanding_timer, armed, queueVars, opVars, get_server,
                   connection_open, unreg_owed, nextcmd>>)

OpenEvtOk(d) ==
    /\ Deliver(d, "OPEN") /\ link[d] = "up"
    /\ connection_open' = TRUE
    /\ Answer(d, "OPEN", {}) /\ Quiet
    /\ Unchanged(<<outstanding_timer, armed, queueVars, opVars, get_server,
                   remote_bda, link, unreg_owed, nextcmd>>)

\* A failed open may or may not be followed by a DISCONNECT event.
OpenEvtFail(d) ==
    /\ Deliver(d, "OPEN") /\ link[d] # "up"
    /\ \E more \in {{}, {"DISC"}} : Answer(d, "OPEN", more)
    /\ link' = [link EXCEPT ![d] = IF @ = "opening" THEN "down" ELSE @]
    /\ gattc_command_error(action.bleda, outstanding_timer)
    /\ Unchanged(<<opVars, gattVars, unreg_owed>>)

CloseEvt(d, ok) ==
    /\ Deliver(d, "CLOSE")
    /\ connection_open' = (connection_open /\ ~ok)
    /\ Answer(d, "CLOSE", {}) /\ runtimer(outstanding_timer) /\ Quiet
    /\ Unchanged(<<queueVars, opVars, get_server, remote_bda, link,
                   unreg_owed, nextcmd>>)

\* A request fails: the error is reported for remote_bda.
RequestFailed(d, e) ==
    /\ Deliver(d, e) /\ link[d] = "up"
    /\ Answer(d, e, {})
    /\ gattc_command_error(remote_bda, outstanding_timer)
    /\ Unchanged(<<opVars, gattVars, link, unreg_owed>>)

\* A request succeeds and the handler makes the next one.
RequestDone(d, e, more) ==
    /\ Deliver(d, e) /\ link[d] = "up"
    /\ Answer(d, e, more) /\ Quiet
    /\ Unchanged(<<outstanding_timer, armed, queueVars, opVars, gattVars,
                   link, unreg_owed, nextcmd>>)

CfgMtuEvt(d) ==
    /\ "OPEN" \notin owed[d]
    /\ RequestFailed(d, "MTU") \/ RequestDone(d, "MTU", {"SEARCH"})

SearchResEvt(d) ==
    /\ Deliver(d, "SEARCH") /\ link[d] = "up" /\ ~get_server
    /\ get_server' = TRUE /\ Quiet
    /\ Unchanged(<<outstanding_timer, armed, queueVars, opVars,
                   connection_open, remote_bda, stackVars, nextcmd>>)

\* Fault "nochar": the service has characteristics, but not the response
\* one; the handler then asks for nothing and reports nothing.
SearchCmplEvt(d) ==
    \/ RequestFailed(d, "SEARCH")
    \/ get_server /\ RequestDone(d, "SEARCH", {"REG"})
    \/ /\ "nochar" \in Faults
       /\ get_server /\ RequestDone(d, "SEARCH", {})

\* The write goes to conn_id, that is to remote_bda.
SendCommand(d) ==
    /\ Deliver(d, "REG") /\ link[d] = "up"
    /\ owed' = [x \in Devs |-> (IF x = d THEN owed[x] \ {"REG"} ELSE owed[x])
                  \cup (IF x = remote_bda THEN {"WRITE"} ELSE {})]
    /\ Quiet
    /\ Unchanged(<<outstanding_timer, armed, queueVars, opVars, gattVars,
                   link, unreg_owed, nextcmd>>)

RegForNotifyEvt(d) == RequestFailed(d, "REG") \/ SendCommand(d)

WriteCharEvt(d) == RequestFailed(d, "WRITE") \/ RequestDone(d, "WRITE", {"NOTIFY"})

\* info: the notification is a status report, which is published.
\* ok: esp_ble_gattc_unregister_for_notify() accepted the request.
NotifyEvt(d, info, ok) ==
    /\ Deliver(d, "NOTIFY") /\ link[d] = "up"
    /\ Answer(d, "NOTIFY", {})
    /\ published' = IF info THEN [kind |-> "status", trv |-> remote_bda]
                    ELSE NoMsg
    /\ IF ok THEN /\ unreg_owed' = TRUE
                  /\ UNCHANGED <<outstanding_timer, armed, queueVars, nextcmd>>
             ELSE CommandDone /\ UNCHANGED unreg_owed
    /\ Unchanged(<<opVars, gattVars, link>>)

UnregForNotifyEvt ==
    /\ unreg_owed /\ unreg_owed' = FALSE
    /\ CommandDone /\ Quiet
    /\ Unchanged(<<opVars, gattVars, link, owed>>)

\* local: the reason is ESP_GATT_CONN_TERMINATE_LOCAL_HOST.
DisconnectEvt(d, local) ==
    /\ get_server' = FALSE /\ in_progress' = FALSE
    /\ link' = [link EXCEPT ![d] = "down"]
    /\ owed' = [owed EXCEPT ![d] = (@ \cap {"OPEN", "CLOSE"}) \cup
                   (IF link[d] = "up" THEN {"CLOSE"} ELSE {})]
    /\ IF local
       THEN UNCHANGED <<queueVars, outstanding_timer, armed, nextcmd>> /\ Quiet
       ELSE gattc_command_error(action.bleda, outstanding_timer)
    /\ Unchanged(<<ble_operation_time, action, connection_open, remote_bda,
                   unreg_owed>>)

\* The hub closed the connection, or a failed open ends with a DISCONNECT.
DisconnectOwed(d) ==
    /\ Deliver(d, "DISC")
    /\ \/ link[d] = "closing" /\ DisconnectEvt(d, TRUE)
       \/ DisconnectEvt(d, FALSE)

\* The valve or the radio drops an open connection.
PeerDrop(d) ==
    /\ link[d] = "up" /\ "OPEN" \notin owed[d]
    /\ DisconnectEvt(d, FALSE)

StackAnswer(d) ==
    \/ ConnectEvt(d) \/ OpenEvtOk(d) \/ OpenEvtFail(d)
    \/ \E ok \in BOOLEAN : CloseEvt(d, ok)
    \/ CfgMtuEvt(d) \/ SearchCmplEvt(d) \/ RegForNotifyEvt(d)
    \/ WriteCharEvt(d) \/ DisconnectOwed(d)
    \/ \E info, ok \in BOOLEAN : NotifyEvt(d, info, ok)

\* Fault "lose": an event the stack owes never arrives.
Lose(d, e) ==
    /\ "lose" \in Faults
    /\ Deliver(d, e) /\ Answer(d, e, {}) /\ Quiet
    /\ Unchanged(<<outstanding_timer, armed, queueVars, opVars, gattVars,
                   link, unreg_owed, nextcmd>>)

-----------------------------------------------------------------------------
(* WiFi: the callbacks wifidone(0) and wifidone(1), and what causes them *)

\* The station gave up and AP_START is reported: wifidone(0).
WifiApStart ==
    /\ ApFalls /\ wifi = "trying" /\ wifi' = "ap"
    /\ setnextcmd("RESTART_WIFI", ApDelay)
    /\ runtimer(outstanding_timer) /\ Quiet
    /\ UNCHANGED <<ticks, queueVars, opVars, gattVars, stackVars, requests,
                   reboot_requested, restarted>>

\* The station got its address: wifidone(1) cancels a pending RESTART_WIFI.
WifiConnected ==
    /\ wifi = "trying" /\ wifi' = "sta"
    /\ nextcmd' = IF nextcmd.cmd = "RESTART_WIFI"
                  THEN [nextcmd EXCEPT !.running = FALSE, !.countdown = 0]
                  ELSE nextcmd
    /\ Quiet
    /\ UNCHANGED <<timerVars, queueVars, opVars, gattVars, stackVars,
                   requests, reboot_requested, restarted>>

WifiLost ==
    /\ wifi = "sta" /\ wifi' = "trying" /\ Quiet
    /\ UNCHANGED <<timerVars, queueVars, opVars, gattVars, stackVars,
                   requests, reboot_requested, restarted, nextcmd>>

\* A configuration is submitted to the hub's own access point.
ConfigSubmitAp ==
    /\ wifi \in {"ap", "cfgap"} /\ wifi' = "trying" /\ Quiet
    /\ UNCHANGED <<timerVars, queueVars, opVars, gattVars, stackVars,
                   requests, reboot_requested, restarted, nextcmd>>

-----------------------------------------------------------------------------
(* The specification *)

Next ==
    /\ ~restarted
    /\ \/ \E src \in Sources, d \in Devs, c \in Cmds, j \in Junk :
             handle_request(src, d, c, j)
       \/ schedule_reboot
       \/ timer_group0_isr \/ MainTick
       \/ \E d \in Devs : StackAnswer(d) \/ SearchResEvt(d) \/ PeerDrop(d)
       \/ \E d \in Devs, e \in Event : Lose(d, e)
       \/ UnregForNotifyEvt
       \/ WifiApStart \/ WifiConnected \/ WifiLost \/ ConfigSubmitAp

Spec == Init /\ [][Next]_vars

Live(A) == ~restarted /\ A

\* The alarm fires, the main loop serves its queue, the stack delivers what
\* it owes.  Nothing is assumed of requests, of WiFi or of dropped links.
Fairness ==
    /\ WF_vars(Live(timer_group0_isr))
    /\ WF_vars(Live(MainTick))
    /\ WF_vars(Live(UnregForNotifyEvt))
    /\ \A d \in Devs : WF_vars(Live(StackAnswer(d)))

FairSpec == Spec /\ Fairness

-----------------------------------------------------------------------------
(* Properties *)

\* Every variable keeps its type; in particular a queued command always has
\* between 1 and MAX_CMD_RETRIES retries left (command_complete removes it
\* before the counter reaches 0).
TypeOK ==
    /\ cmdqueue \in Seq(Command)
    /\ action \in [cmd : Cmds \cup {NoCmd}, bleda : Devs \cup {NoDev}]
    /\ get_server \in BOOLEAN /\ connection_open \in BOOLEAN
    /\ in_progress \in BOOLEAN
    /\ ble_operation_time \in 0 .. (BLE_OPERATION_TIMEOUT - 1)
    /\ outstanding_timer \in BOOLEAN /\ armed \in BOOLEAN /\ ticks \in Nat
    /\ nextcmd \in [running : BOOLEAN, cmd : DelayedCmd, countdown : Nat]
    /\ reboot_requested \in BOOLEAN /\ restarted \in BOOLEAN
    /\ remote_bda \in Devs \cup {NoDev}
    /\ link \in [Devs -> {"down", "opening", "up", "closing"}]
    /\ owed \in [Devs -> SUBSET Event]
    /\ unreg_owed \in BOOLEAN
    /\ wifi \in {"off", "trying", "ap", "cfgap", "sta"}
    /\ requests \in Nat
    /\ published \in [kind : {"none", "error", "status"}, trv : Devs \cup {NoDev}]
    /\ uncharged \in BOOLEAN

\* The flag outstanding_timer is the truth about the one hardware timer: it
\* is set exactly when an alarm is armed or its event waits in timer_queue,
\* and there is never more than one of the two.  A flag left set would stop
\* the main loop for good, a second event would halve every delay.
TimerToken ==
    /\ ticks \in {0, 1}
    /\ outstanding_timer <=> (armed \/ ticks = 1)
    /\ ~(armed /\ ticks = 1)

\* A delayed command is never forgotten: while nextcmd is running the timer
\* that counts it down is running as well.
DelayedCommandTicks == nextcmd.running => outstanding_timer

\* As long as the attempt under way has no verdict, the command it carries
\* out is the one at the head of the queue, whatever was queued meanwhile;
\* so its first verdict (command_complete) settles that very command.
VerdictFindsItsCommand ==
    uncharged => /\ cmdqueue # <<>>
                 /\ Head(cmdqueue).bleda = action.bleda
                 /\ Head(cmdqueue).cmd = action.cmd

\* No command is sent to a valve more than MAX_CMD_RETRIES times.
AttemptsBounded ==
    \A i \in 1 .. Len(cmdqueue) : cmdqueue[i].tries <= MAX_CMD_RETRIES

Busy(d) == link[d] # "down" \/ owed[d] \ {"CLOSE"} # {}

\* The hub talks to one valve at a time, the one current_action names, and
\* only while ble_operation_in_progress says so: what the next tick starts,
\* or the reboot it performs, never cuts into a connection still in use.
OneConversation ==
    \A d \in Devs : Busy(d) => in_progress /\ d = action.bleda

\* The engine never sleeps on work: with a command queued or a reboot
\* requested, either the timer runs or the stack owes an event.
NoLostWakeup ==
    (cmdqueue # <<>> \/ reboot_requested) /\ ~restarted =>
        \/ outstanding_timer
        \/ in_progress /\ (unreg_owed \/ \E d \in Devs : owed[d] # {})

Disconnecting == nextcmd.running /\ nextcmd.cmd = "EQ3_DISCONNECT"
Starting == nextcmd.running /\ nextcmd.cmd = "START_WIFI"

\* What makes OneConversation inductive when the stack answers every request
\* in time and the station never falls back: which events each state of a
\* connection owes, and that no attempt loses its verdict.  In particular
\* the hub only closes a connection, and only becomes idle, after the
\* attempt was settled by command_complete.
LinkInv(d) ==
    /\ link[d] = "opening" => "OPEN" \in owed[d]
    /\ link[d] = "closing" => "DISC" \in owed[d] /\ ~uncharged
                              /\ outstanding_timer
    /\ link[d] = "up" =>
          /\ remote_bda = d
          /\ "OPEN" \in owed[d] \/ connection_open
          /\ "OPEN" \in owed[d] => "MTU" \in owed[d]
          /\ owed[d] # {} \/ unreg_owed \/ Disconnecting
          /\ \A x \in Devs : "CLOSE" \notin owed[x]
    /\ "OPEN" \in owed[d] =>
          /\ uncharged /\ ~unreg_owed
          /\ owed[d] \cap {"SEARCH", "REG", "WRITE", "NOTIFY", "DISC"} = {}
          /\ link[d] \in {"opening", "up"}

AttemptInv ==
    /\ nextcmd.cmd # "RESTART_WIFI"
    /\ Disconnecting => ~uncharged
    /\ Starting => ~in_progress /\ ~unreg_owed
    /\ uncharged => in_progress
    /\ \A d \in Devs : LinkInv(d)

\* The retries a command has left and the attempts made for it never exceed
\* MAX_CMD_RETRIES, but for the attempt under way.
Budget ==
    \A i \in 1 .. Len(cmdqueue) :
        cmdqueue[i].tries + cmdqueue[i].retries
            <= MAX_CMD_RETRIES + (IF i = 1 /\ uncharged THEN 1 ELSE 0)

\* A command is only written to the valve it was requested for.
WriteToAddressee ==
    [][\A d \in Devs : "WRITE" \in owed'[d] /\ "WRITE" \notin owed[d]
          => d = action.bleda]_vars

\* Every queued command is eventually carried out or given up.
QueueDrains == (cmdqueue # <<>>) ~> (cmdqueue = <<>>)

\* A requested reboot happens.
RebootHappens == reboot_requested ~> restarted

(* What comments in the source say, and the code does not do *)

\* main/eq3_main.c:1022: a failing command is retried until all its attempts
\* are exhausted, so when it is given up it was tried MAX_CMD_RETRIES times.
FailedOnlyAfterRetries ==
    [][published'.kind = "error"
          => Head(cmdqueue).tries = MAX_CMD_RETRIES]_vars

\* main/eq3_main.c:117: an out-of-service valve does not harm the commands
\* of the others, so none is given up that was never tried.
GivenUpOnlyIfTried ==
    [][published'.kind = "error" => Head(cmdqueue).tries > 0]_vars

\* main/eq3_main.c:588: command_complete(true) notifies the command that
\* succeeded, so the attempt it ends is one that has no verdict yet.
SuccessEndsItsAttempt ==
    [][Len(cmdqueue') < Len(cmdqueue) /\ published'.kind # "error"
          => uncharged]_vars

\* main/eq3_main.c:933: the same command is not added again when it already
\* is the last one for its device.
NoDuplicateRequest ==
    [][Len(cmdqueue') > Len(cmdqueue) =>
         LET n == cmdqueue'[Len(cmdqueue')]
         IN  \A i \in lastCommandForDevice(cmdqueue, n.bleda) :
                cmdqueue[i].cmd # n.cmd]_vars

\* main/eq3_main.c:167: an operation of the BLE state machine ends, by its
\* answer or by the timeout.
OperationEnds == in_progress ~> ~in_progress

\* main/eq3_main.c:1122: the hub stays an access point for a limited time.
AccessPointIsLeft == (wifi = "ap") ~> (wifi # "ap" \/ restarted)
=============================================================================
