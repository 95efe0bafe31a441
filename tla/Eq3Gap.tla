------------------------------- MODULE Eq3Gap -------------------------------
(***************************************************************************)
(* The scanner for valves (main/eq3_gap.c), the web page that walks its    *)
(* device list (main/eq3_bootwifi.c) and the MQTT side that publishes it   *)
(* (main/eq3_wifi.c).                                                      *)
(*                                                                         *)
(* Three tasks share the list and the queued report without a lock: the    *)
(* Bluetooth task runs esp_gap_cb(), the web server task walks the list,   *)
(* the MQTT task runs connected_cb().  Anybody may call start_scan().  A   *)
(* step is what one task does between two accesses to shared state that    *)
(* another task can change in between.                                     *)
(*                                                                         *)
(* The radio and the events it owes are external.                          *)
(***************************************************************************)
EXTENDS Naturals, Sequences, Functions

CONSTANTS
    Devs,           \* addresses with one of the remote_device_names
    MaxScans,       \* bound on the scans of one behaviour
    MqttDrops       \* can the broker's connection be lost?

ASSUME GapAssumption == MaxScans \in Nat /\ MqttDrops \in BOOLEAN

VARIABLES
    found_devices, num_devices,
    gap_scanning, gap_initialised,
    freed,          \* how often the list was freed: names its generation
    walk,           \* the web task's pointer into a generation of the list
    params_owed,    \* external: SCAN_PARAM_SET_COMPLETE events to come
    start_owed,     \* external: SCAN_START_COMPLETE events to come
    radio,          \* external: "idle" or "scanning"
    repclient,      \* the MQTT client is connected
    connecting,     \* connected_cb(): "no", "begun" (repclient is set) or
                    \* "publishing" (devlist was found and is being sent)
    devlist,        \* the report queued for the broker, if any
    sending,        \* the report in send_device_list(), after its test
    published,      \* the reports sent to the broker, in order
    scans,          \* number of calls of start_scan()
    made,           \* history: number of reports made
    seen,           \* history: devices heard since the radio started
    overlapped,     \* history: a scan was requested while one was under way
    refused         \* history: an idle radio did not start

listVars == <<found_devices, num_devices, freed>>
radioVars == <<params_owed, start_owed, radio, seen, refused>>
scanVars == <<scans, overlapped>>
mqttVars == <<repclient, connecting, devlist, sending, published, made>>
vars == <<listVars, gap_scanning, gap_initialised, walk, radioVars, mqttVars,
          scanVars>>

\* asked: history, the scans requested before the walk began.
NoWalk == [on |-> FALSE, gen |-> 0, pos |-> 0, asked |-> 0]
Walking == walk.on

\* A report is known by its number, from 1; 0 is no report.
NoReport == 0

Init ==
    /\ found_devices = <<>> /\ num_devices = 0 /\ freed = 0
    /\ gap_scanning = FALSE /\ gap_initialised = FALSE
    /\ walk = NoWalk
    /\ params_owed = 0 /\ start_owed = 0 /\ radio = "idle"
    /\ repclient = FALSE /\ connecting = "no"
    /\ devlist = NoReport /\ sending = NoReport
    /\ published = <<>> /\ made = 0 /\ scans = 0 /\ seen = {}
    /\ overlapped = FALSE /\ refused = FALSE

-----------------------------------------------------------------------------
(* The scanner *)

\* The Bluetooth task runs one handler at a time.
BtIdle == sending = NoReport

ScanPending == params_owed > 0 \/ start_owed > 0 \/ radio = "scanning"

\* Mutant: the flag is left to the event of the radio.
start_scan_unflagged ==
    /\ scans < MaxScans /\ scans' = scans + 1
    /\ overlapped' = (overlapped \/ ScanPending)
    /\ gap_initialised' = TRUE
    /\ params_owed' = params_owed + 1
    /\ UNCHANGED <<gap_scanning, listVars, walk, start_owed, radio, seen, refused,
                   mqttVars>>

\* By app_main(), by the MQTT topic scan and by the web page scan.
start_scan ==
    /\ scans < MaxScans /\ scans' = scans + 1
    /\ overlapped' = (overlapped \/ ScanPending)
    /\ gap_scanning' = TRUE /\ gap_initialised' = TRUE
    /\ params_owed' = params_owed + 1
    /\ UNCHANGED <<listVars, walk, start_owed, radio, seen, refused, mqttVars>>

free_found_devices ==
    found_devices' = <<>> /\ num_devices' = 0 /\ freed' = freed + 1

\* Mutant: a device that is already listed is added again.
add_found_device_again(d) ==
    /\ found_devices' = Append(found_devices, d)
    /\ num_devices' = num_devices + 1

add_found_device(d) ==
    IF d \in Range(found_devices)
    THEN UNCHANGED <<found_devices, num_devices>>
    ELSE /\ found_devices' = Append(found_devices, d)
         /\ num_devices' = num_devices + 1

\* Mutant: the old list is kept until the radio runs.
ScanParamSetComplete_keep ==
    /\ BtIdle
    /\ params_owed > 0 /\ params_owed' = params_owed - 1
    /\ start_owed' = start_owed + 1
    /\ UNCHANGED <<listVars, gap_scanning, gap_initialised, walk, radio, seen,
                   refused, mqttVars, scanVars>>

ScanParamSetComplete ==
    /\ BtIdle
    /\ params_owed > 0 /\ params_owed' = params_owed - 1
    /\ start_owed' = start_owed + 1
    /\ free_found_devices
    /\ UNCHANGED <<gap_scanning, gap_initialised, walk, radio, seen, refused,
                   mqttVars, scanVars>>

\* A radio that is scanning refuses a second start; an idle one may refuse
\* too.  The handler only logs.
ScanStartComplete ==
    /\ BtIdle
    /\ start_owed > 0 /\ start_owed' = start_owed - 1
    /\ \/ /\ radio = "idle" /\ radio' = "scanning" /\ seen' = {}
          /\ UNCHANGED refused
       \/ /\ refused' = (refused \/ radio = "idle")
          /\ UNCHANGED <<radio, seen>>
    /\ UNCHANGED <<listVars, gap_scanning, gap_initialised, walk, params_owed,
                   mqttVars, scanVars>>

InqResult(d) ==
    /\ BtIdle
    /\ radio = "scanning"
    /\ add_found_device(d)
    /\ seen' = seen \cup {d}
    /\ UNCHANGED <<freed, gap_scanning, gap_initialised, walk, params_owed,
                   start_owed, radio, refused, mqttVars, scanVars>>

\* Mutant: the flag is only cleared when a device was found.
InqComplete_found ==
    /\ BtIdle
    /\ radio = "scanning" /\ radio' = "idle"
    /\ gap_scanning' = (found_devices = <<>>)
    /\ UNCHANGED <<listVars, gap_initialised, walk, params_owed, start_owed,
                   seen, refused, scanVars, mqttVars>>

\* INQ_CMPL_EVT with scan_done(), up to the test in send_device_list():
\* while the client is connected the report is published at once, else it
\* is on its way to devlist.  An empty list is not reported.
InqComplete ==
    /\ BtIdle
    /\ radio = "scanning" /\ radio' = "idle"
    /\ gap_scanning' = FALSE
    /\ IF found_devices = <<>> THEN UNCHANGED mqttVars
       ELSE /\ made' = made + 1
            /\ IF repclient
               THEN published' = Append(published, made') /\ UNCHANGED sending
               ELSE sending' = made' /\ UNCHANGED published
            /\ UNCHANGED <<repclient, connecting, devlist>>
    /\ UNCHANGED <<listVars, gap_initialised, walk, params_owed, start_owed,
                   seen, refused, scanVars>>

\* The rest of send_device_list(): a report that was queued is dropped.
send_device_list ==
    /\ sending # NoReport /\ sending' = NoReport
    /\ devlist' = sending
    /\ UNCHANGED <<listVars, gap_scanning, gap_initialised, walk, radioVars,
                   repclient, connecting, published, made, scanVars>>

-----------------------------------------------------------------------------
(* The web page with the list of devices *)

\* eq3gap_get_device_list(): the page keeps the pointer it returns.
serve_device_list ==
    /\ ~Walking
    /\ gap_initialised /\ ~gap_scanning /\ found_devices # <<>>
    /\ walk' = [on |-> TRUE, gen |-> freed, pos |-> 1, asked |-> scans]
    /\ UNCHANGED <<listVars, gap_scanning, gap_initialised, radioVars,
                   mqttVars, scanVars>>

\* devwalk = devwalk->next.  In a freed generation anything may be found;
\* the walk is then taken to end.
WalkStep ==
    /\ Walking
    /\ walk' = IF walk.gen = freed /\ walk.pos < Len(found_devices)
               THEN [walk EXCEPT !.pos = @ + 1] ELSE NoWalk
    /\ UNCHANGED <<listVars, gap_scanning, gap_initialised, radioVars,
                   mqttVars, scanVars>>

-----------------------------------------------------------------------------
(* The MQTT client *)

\* connected_cb() up to its test of devlist
MqttConnected ==
    /\ ~repclient /\ connecting = "no"
    /\ repclient' = TRUE /\ connecting' = "begun"
    /\ UNCHANGED <<listVars, gap_scanning, gap_initialised, walk, radioVars,
                   devlist, sending, published, made, scanVars>>

\* Mutant: devlist is published without the test.
PublishQueued_untested ==
    /\ connecting = "begun" /\ connecting' = "publishing"
    /\ published' = Append(published, devlist)
    /\ UNCHANGED <<listVars, gap_scanning, gap_initialised, walk, radioVars,
                   repclient, devlist, sending, made, scanVars>>

\* if(devlist != NULL): it is published
PublishQueued ==
    /\ connecting = "begun"
    /\ IF devlist = NoReport
       THEN connecting' = "no" /\ UNCHANGED published
       ELSE connecting' = "publishing" /\ published' = Append(published, devlist)
    /\ UNCHANGED <<listVars, gap_scanning, gap_initialised, walk, radioVars,
                   repclient, devlist, sending, made, scanVars>>

\* Mutant: the report stays queued.
DropQueued_keep ==
    /\ connecting = "publishing" /\ connecting' = "no"
    /\ UNCHANGED <<listVars, gap_scanning, gap_initialised, walk, radioVars,
                   repclient, devlist, sending, published, made, scanVars>>

\* free(devlist); devlist = NULL, whatever devlist is by now
DropQueued ==
    /\ connecting = "publishing" /\ connecting' = "no"
    /\ devlist' = NoReport
    /\ UNCHANGED <<listVars, gap_scanning, gap_initialised, walk, radioVars,
                   repclient, sending, published, made, scanVars>>

\* The same task: never within connected_cb()
MqttDisconnected ==
    /\ MqttDrops /\ repclient /\ connecting = "no"
    /\ repclient' = FALSE
    /\ UNCHANGED <<listVars, gap_scanning, gap_initialised, walk, radioVars,
                   connecting, devlist, sending, published, made, scanVars>>

-----------------------------------------------------------------------------
Next ==
    \/ start_scan \/ ScanParamSetComplete \/ ScanStartComplete
    \/ \E d \in Devs : InqResult(d)
    \/ InqComplete \/ send_device_list
    \/ serve_device_list \/ WalkStep
    \/ MqttConnected \/ PublishQueued \/ DropQueued \/ MqttDisconnected

Spec == Init /\ [][Next]_vars

\* The stack delivers its events, a scan lasts 30 seconds, the handlers run
\* to their end, the client keeps trying to connect.
Fairness ==
    /\ WF_vars(ScanParamSetComplete) /\ WF_vars(ScanStartComplete)
    /\ WF_vars(InqComplete) /\ WF_vars(send_device_list)
    /\ WF_vars(MqttConnected) /\ WF_vars(PublishQueued) /\ WF_vars(DropQueued)

FairSpec == Spec /\ Fairness

-----------------------------------------------------------------------------
(* Properties *)

\* Types of all variables; what is published is a report, never an empty
\* pointer.
TypeOK ==
    /\ found_devices \in Seq(Devs) /\ num_devices \in Nat /\ freed \in Nat
    /\ gap_scanning \in BOOLEAN /\ gap_initialised \in BOOLEAN
    /\ walk \in [on : BOOLEAN, gen : Nat, pos : Nat, asked : Nat]
    /\ params_owed \in Nat /\ start_owed \in Nat
    /\ radio \in {"idle", "scanning"}
    /\ repclient \in BOOLEAN /\ connecting \in {"no", "begun", "publishing"}
    /\ made \in Nat /\ devlist \in 0 .. made /\ sending \in 0 .. made
    /\ published \in Seq(1 .. made)
    /\ scans \in Nat /\ seen \subseteq Devs
    /\ overlapped \in BOOLEAN /\ refused \in BOOLEAN

\* scan_done() allocates 44 bytes for each of num_devices devices and then
\* writes an entry for each one in the list: the two always agree, and no
\* device is listed twice.
CountIsLength ==
    /\ num_devices = Len(found_devices)
    /\ \A i, j \in 1 .. Len(found_devices) :
          found_devices[i] = found_devices[j] => i = j

\* A finished scan (EQ3_SCAN_COMPLETE) shows exactly the devices heard in it,
\* as long as scans do not overlap: none of an earlier scan, none missing.
ListIsTheScan ==
    gap_initialised /\ ~gap_scanning /\ ~overlapped
        => Range(found_devices) = seen

\* The list handed out by eq3gap_get_device_list() is not one a scan is
\* still filling, as long as scans do not overlap.
CompleteMeansComplete == ~gap_scanning /\ ~overlapped => ~ScanPending

\* The rule at main/eq3_gap.c:285 is enough: if nobody calls start_scan()
\* while the page walks the list, and scans do not overlap, the list is not
\* freed under it by a scan that was requested before.
WalkedListIsAlive ==
    Walking /\ walk.asked = scans /\ ~overlapped => walk.gen = freed

\* A report reaches the broker once: whatever the interleaving of
\* send_device_list() and connected_cb(), through any number of connections.
PublishedOnce == IsInjective(published)

\* A scan that was started ends, so that the pages show its list, also when
\* scans overlap; only a radio that did not start leaves the flag up.
ScanEnds == gap_scanning ~> (~gap_scanning \/ refused)

(* What comments and the README say, and the code does not do *)

\* main/eq3_gap.c:285: nobody frees the list while it is parsed.  Nothing
\* keeps the MQTT task from requesting a scan meanwhile.
NobodyFreesTheWalkedList == Walking => walk.gen = freed

\* main/eq3_gap.c:301: scan_complete() tells whether a scan is under way.
FlagMeansScan == gap_scanning => ScanPending

\* README, line 66: the results of a scan are published.  A queued report
\* does not wait once the client is connected.
QueuedIsPublished == (devlist # NoReport) ~> (devlist = NoReport)

\* README, line 66: the newest report is published, or queued, or about to
\* be, in every interleaving of send_device_list() and connected_cb().
NewestNotLost == made > 0 => made \in Range(published) \cup {devlist, sending}
=============================================================================
