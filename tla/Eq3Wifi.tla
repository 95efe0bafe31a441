------------------------------- MODULE Eq3Wifi -------------------------------
(***************************************************************************)
(* WiFi control and stored configuration: main/eq3_bootwifi.c, with the    *)
(* callbacks wifidone() and confparms() of main/eq3_main.c and             *)
(* connect_server() of main/eq3_wifi.c.                                    *)
(*                                                                         *)
(* The hub is a station of the configured network or, when it has no       *)
(* configuration or cannot connect, an access point with a configuration   *)
(* page.  Three tasks work on the same variables: the event task runs      *)
(* event_handler() and inside it wifidone(), which may wait a minute for   *)
(* the network time; the web task stores a submitted configuration and     *)
(* applies it; the main task starts WiFi and, by the delayed command       *)
(* RESTART_WIFI, ends the access point.  Power can fail at any moment.     *)
(*                                                                         *)
(* There is one slot for a delayed command, which the Bluetooth task uses  *)
(* too, for EQ3_DISCONNECT: what is asked for while it is taken is         *)
(* dropped.  Of the Bluetooth task only that is modelled here (the rest is *)
(* Eq3Engine), and time is left out: a delayed command may be due as soon  *)
(* as it is pending.  The WiFi driver and the flash storage are external.  *)
(***************************************************************************)
EXTENDS Naturals, Sequences

CONSTANTS
    Ssids,              \* names of networks
    Brokers,            \* MQTT settings
    None,               \* the empty name, the empty setting
    MAXCONNATTEMPTS,    \* 25
    MaxEvents,          \* bound on the events queued for the event task
    OverrideGpio        \* can the button hold the hub in access point mode?

ASSUME WifiAssumption ==
    /\ None \notin Ssids \cup Brokers
    /\ MAXCONNATTEMPTS \in Nat /\ MaxEvents \in Nat
    /\ OverrideGpio \in BOOLEAN

VARIABLES
    nvs,            \* flash: version number, layout of the blob and the blob
    saving,         \* saveConnectionInfo() has written the blob only
    connectionInfo, \* the configuration in memory
    haveconninfo,
    sta_configured,
    mode,           \* external: "off", "AP" or "STA"
    link,           \* external: "idle", "connecting" or "connected"
    events,         \* external: events posted and not handled yet
    waiting,        \* the event task is in wifidone(), waiting for the time
    connattempts,
    web,            \* g_mongooseStarted
    parms,          \* confparms(): the broker settings for the client
    client,         \* the settings the MQTT client was started with
    nextcmd,        \* the delayed command that is running, or "none"
    reboot,         \* reboot_requested
    led,            \* the status LED
    submitted,      \* history: a configuration was submitted since the boot
    dropped,        \* history: setnextcmd() did not take this access point's
                    \* RESTART_WIFI, another delayed command was running
    aborted         \* history: why the hub restarted itself last

flashVars == <<nvs, saving>>
driverVars == <<mode, link>>
wifiVars == <<sta_configured, mode, link, events, led>>
taskVars == <<waiting, connattempts, web>>
mqttVars == <<parms, client>>
vars == <<flashVars, connectionInfo, haveconninfo, wifiVars, taskVars,
          mqttVars, nextcmd, reboot, submitted, dropped, aborted>>

-----------------------------------------------------------------------------
(* Values *)

Config == [ssid : Ssids \cup {None}, mqtt : Brokers \cup {None}, ntp : BOOLEAN]

NoConfig == [ssid |-> None, mqtt |-> None, ntp |-> FALSE]

\* Versions of the record; "other" stands for the ones this code rejects.
Version == {"none", "v1", "v2", "v3", "other"}

Flash == [version : Version, layout : Version, blob : Config]

\* nvs_get_blob() is asked for the size of the version's record and fails
\* when the blob is larger.
Smaller(v, w) == <<v, w>> \in {<<"v1", "v2">>, <<"v1", "v3">>, <<"v2", "v3">>}

Readable(f) ==
    f.version \in {"v1", "v2", "v3"} /\ ~Smaller(f.version, f.layout)

\* The record of version 1 has no NTP settings; they are defaulted first.
Loaded(f) ==
    IF ~Readable(f) THEN [connectionInfo EXCEPT !.ntp = FALSE]
    ELSE [f.blob EXCEPT !.ntp = @ /\ f.version # "v1"]

\* getConnectionInfo() returns 0
HasNetwork(f) == Readable(f) /\ f.blob.ssid # None

-----------------------------------------------------------------------------
(* Start and restart *)

\* Memory after a start, when app_main() has delayed the start of WiFi; flash
\* keeps what it has.
Fresh ==
    /\ saving = FALSE /\ connectionInfo = NoConfig /\ haveconninfo = FALSE
    /\ sta_configured = FALSE /\ mode = "off" /\ link = "idle" /\ events = <<>>
    /\ waiting = FALSE /\ connattempts = 0 /\ web = FALSE
    /\ parms = None /\ client = None
    /\ nextcmd = "START_WIFI" /\ reboot = FALSE /\ led = "off"
    /\ submitted = FALSE /\ dropped = FALSE

\* A new hub, or one whose configuration an earlier release has stored.
Init ==
    /\ Fresh /\ aborted = "no"
    /\ nvs \in {[version |-> v, layout |-> v, blob |-> c] :
                    v \in Version, c \in Config}
    /\ nvs.version = "none" => nvs.blob = NoConfig
    /\ nvs.version = "v1" => ~nvs.blob.ntp

\* The same by a restart: by power, by esp_restart() or by a failed check.
Restart(why) ==
    /\ saving' = FALSE /\ connectionInfo' = NoConfig /\ haveconninfo' = FALSE
    /\ sta_configured' = FALSE /\ mode' = "off" /\ link' = "idle"
    /\ events' = <<>> /\ waiting' = FALSE /\ connattempts' = 0 /\ web' = FALSE
    /\ parms' = None /\ client' = None
    /\ nextcmd' = "START_WIFI" /\ reboot' = FALSE /\ led' = "off"
    /\ submitted' = FALSE /\ dropped' = FALSE
    /\ aborted' = why /\ UNCHANGED nvs

PowerLoss == mode # "off" /\ Restart("power")

esp_restart == reboot /\ Restart("request")

-----------------------------------------------------------------------------
(* Becoming a station or an access point *)

\* esp_wifi_stop() reports a connection it ends; one that is still being
\* made may be reported too.
StopEvents ==
    CASE link = "connected"  -> {<<"STA_DISCONNECTED">>}
      [] link = "connecting" -> {<<>>, <<"STA_DISCONNECTED">>}
      [] link = "idle"       -> {<<>>}

\* left: the events that are queued before the driver adds its own.
becomeAccessPoint(left) ==
    /\ mode' = "AP" /\ link' = "idle" /\ sta_configured' = FALSE
    /\ dropped' = FALSE
    /\ \E evs \in StopEvents : events' = left \o evs \o <<"AP_START">>

\* A station that is set up only connects again.
becomeStation(left) ==
    /\ mode' = "STA" /\ sta_configured' = TRUE /\ events' = left
    /\ dropped' = FALSE
    /\ link' = IF sta_configured /\ link # "idle" THEN link ELSE "connecting"

\* Where becomeStation() ends in a restart: the assertion on the name, and
\* ESP_ERROR_CHECK when the driver refuses a second esp_wifi_connect().
StationAborts ==
    \/ connectionInfo.ssid = None /\ Restart("ssid")
    \/ sta_configured /\ link # "idle" /\ Restart("connect")

\* Mutant: the broker settings are not passed on.
bootWiFi2_noparms(pressed, f) ==
    \/ /\ pressed \/ ~HasNetwork(f)
       /\ becomeAccessPoint(events) /\ led' = "on"
       /\ connectionInfo' = IF pressed THEN connectionInfo ELSE Loaded(f)
       /\ UNCHANGED <<haveconninfo, parms>>
    \/ /\ ~pressed /\ HasNetwork(f)
       /\ connectionInfo' = Loaded(f) /\ haveconninfo' = TRUE
       /\ becomeStation(events) /\ led' = "off" /\ UNCHANGED parms

\* The configuration is read from the flash f again.
bootWiFi2(pressed, f) ==
    \/ /\ pressed \/ ~HasNetwork(f)
       /\ becomeAccessPoint(events) /\ led' = "on"
       /\ connectionInfo' = IF pressed THEN connectionInfo ELSE Loaded(f)
       /\ UNCHANGED <<haveconninfo, parms>>
    \/ /\ ~pressed /\ HasNetwork(f)
       /\ connectionInfo' = Loaded(f) /\ haveconninfo' = TRUE
       /\ becomeStation(events) /\ led' = "off"
       /\ parms' = f.blob.mqtt

checkOverrideGpio == IF OverrideGpio THEN BOOLEAN ELSE {FALSE}

-----------------------------------------------------------------------------
(* The delayed command *)

restart_wifi == nextcmd = "RESTART_WIFI"

\* Only the first one is kept.
setnextcmd(cmd) == nextcmd' = IF nextcmd = "none" THEN cmd ELSE nextcmd

\* The Bluetooth task, at the end of an attempt
DelayDisconnect ==
    /\ nextcmd = "none" /\ setnextcmd("EQ3_DISCONNECT")
    /\ UNCHANGED <<flashVars, connectionInfo, haveconninfo, wifiVars, taskVars,
                   mqttVars, reboot, submitted, dropped, aborted>>

\* The main task, two seconds later
DisconnectDone ==
    /\ nextcmd = "EQ3_DISCONNECT" /\ nextcmd' = "none"
    /\ UNCHANGED <<flashVars, connectionInfo, haveconninfo, wifiVars, taskVars,
                   mqttVars, reboot, submitted, dropped, aborted>>

-----------------------------------------------------------------------------
(* The main task *)

\* START_WIFI
bootWiFi ==
    /\ mode = "off" /\ nextcmd = "START_WIFI" /\ nextcmd' = "none"
    /\ \E pressed \in checkOverrideGpio : bootWiFi2(pressed, nvs)
    /\ UNCHANGED <<flashVars, taskVars, client, reboot, submitted, aborted>>

\* Mutant: the delayed command is not marked as done.
restart_station_again ==
    /\ restart_wifi /\ connectionInfo.ssid # None
    /\ becomeStation(events) /\ led' = "off"
    /\ UNCHANGED <<flashVars, connectionInfo, haveconninfo, taskVars,
                   mqttVars, nextcmd, reboot, submitted, aborted>>

\* RESTART_WIFI
restart_station ==
    /\ restart_wifi
    /\ \/ StationAborts
       \/ /\ connectionInfo.ssid # None
          /\ becomeStation(events) /\ led' = "off" /\ nextcmd' = "none"
          /\ UNCHANGED <<flashVars, connectionInfo, haveconninfo, taskVars,
                         mqttVars, reboot, submitted, aborted>>

-----------------------------------------------------------------------------
(* The event task: event_handler() and wifidone() *)

Handling(ev) == ~waiting /\ events # <<>> /\ Head(events) = ev

\* wifidone(0), with a network to try again or without
AsAccessPoint(retry) ==
    /\ IF retry THEN setnextcmd("RESTART_WIFI") ELSE UNCHANGED nextcmd
    /\ dropped' = (retry /\ nextcmd \notin {"none", "RESTART_WIFI"})

\* Mutant: wifidone(0) is only called for a hub that has been a station.
ApStart_once ==
    /\ Handling("AP_START") /\ events' = Tail(events)
    /\ web' = TRUE /\ AsAccessPoint(haveconninfo /\ client # None)
    /\ UNCHANGED <<flashVars, connectionInfo, haveconninfo, sta_configured,
                   driverVars, led, waiting, connattempts, mqttVars, reboot,
                   submitted, aborted>>

ApStart ==
    /\ Handling("AP_START") /\ events' = Tail(events)
    /\ web' = TRUE /\ AsAccessPoint(haveconninfo)
    /\ UNCHANGED <<flashVars, connectionInfo, haveconninfo, sta_configured,
                   driverVars, led, waiting, connattempts, mqttVars, reboot,
                   submitted, aborted>>

\* Mutant: the counter is reset by every attempt.
NextAttempt_forgets == 0

NextAttempt == connattempts + 1

Retry == led' = "off" /\ becomeStation(Tail(events))

\* connattempts++ > MAXCONNATTEMPTS
GiveUp == connattempts > MAXCONNATTEMPTS

StaDisconnected ==
    /\ Handling("STA_DISCONNECTED")
    /\ \/ ~GiveUp /\ StationAborts
       \/ /\ \/ /\ GiveUp /\ connattempts' = 0
                /\ led' = "on" /\ becomeAccessPoint(Tail(events))
             \/ /\ ~GiveUp /\ connattempts' = NextAttempt
                /\ connectionInfo.ssid # None /\ Retry
          /\ UNCHANGED <<flashVars, connectionInfo, haveconninfo, waiting, web,
                         mqttVars, nextcmd, reboot, submitted, aborted>>

\* The end of wifidone(1): connect_server() for the first time only, and no
\* RESTART_WIFI any more.
Connected ==
    /\ client' = IF client = None THEN parms ELSE client
    /\ nextcmd' = IF restart_wifi THEN "none" ELSE nextcmd

StaGotIp ==
    /\ Handling("STA_GOT_IP") /\ events' = Tail(events)
    /\ connattempts' = 0 /\ web' = TRUE
    /\ waiting' = connectionInfo.ntp
    /\ IF connectionInfo.ntp THEN UNCHANGED <<client, nextcmd>> ELSE Connected
    /\ UNCHANGED <<flashVars, connectionInfo, haveconninfo, sta_configured,
                   driverVars, led, parms, reboot, submitted, dropped, aborted>>

\* The time was set, or 30 tries of two seconds are over.
NtpDone ==
    /\ waiting /\ waiting' = FALSE /\ Connected
    /\ UNCHANGED <<flashVars, connectionInfo, haveconninfo, wifiVars,
                   connattempts, web, parms, reboot, submitted, dropped,
                   aborted>>

-----------------------------------------------------------------------------
(* The web task *)

Browsing == web /\ ~saving /\ (mode = "AP" \/ link = "connected")

\* Every page that is not known shows the configuration, read from flash.
serve_config_page ==
    /\ Browsing
    /\ connectionInfo' = Loaded(nvs)
    /\ UNCHANGED <<flashVars, haveconninfo, wifiVars, taskVars, mqttVars,
                   nextcmd, reboot, submitted, dropped, aborted>>

\* Mutant: the version number is written before the blob.
configSubmit_version(c) ==
    /\ Browsing /\ Len(events) <= MaxEvents
    /\ connectionInfo' = c /\ submitted' = TRUE
    /\ nvs' = [nvs EXCEPT !.version = "v3"] /\ saving' = TRUE
    /\ UNCHANGED <<haveconninfo, wifiVars, taskVars, mqttVars, nextcmd,
                   reboot, dropped, aborted>>

\* The form's values, up to nvs_set_blob() in saveConnectionInfo()
configSubmit(c) ==
    /\ Browsing /\ Len(events) <= MaxEvents
    /\ connectionInfo' = c /\ submitted' = TRUE
    /\ nvs' = [nvs EXCEPT !.layout = "v3", !.blob = c] /\ saving' = TRUE
    /\ UNCHANGED <<haveconninfo, wifiVars, taskVars, mqttVars, nextcmd,
                   reboot, dropped, aborted>>

\* The version number, and the configuration is applied: at once as an
\* access point, by a restart as a station.
configApply ==
    /\ saving /\ saving' = FALSE
    /\ nvs' = [nvs EXCEPT !.version = "v3"]
    /\ UNCHANGED <<taskVars, client, nextcmd, submitted, aborted>>
    /\ IF sta_configured
       THEN /\ reboot' = TRUE
            /\ UNCHANGED <<connectionInfo, haveconninfo, wifiVars, parms,
                           dropped>>
       ELSE /\ UNCHANGED reboot
            /\ \E pressed \in checkOverrideGpio : bootWiFi2(pressed, nvs')

-----------------------------------------------------------------------------
(* The driver *)

DriverStep(from, to, ev) ==
    /\ mode = "STA" /\ link = from /\ link' = to /\ Len(events) <= MaxEvents
    /\ events' = Append(events, ev)
    /\ UNCHANGED <<flashVars, connectionInfo, haveconninfo, sta_configured,
                   mode, led, taskVars, mqttVars, nextcmd, reboot, submitted,
                   dropped, aborted>>

ConnectSucceeds == DriverStep("connecting", "connected", "STA_GOT_IP")
ConnectFails    == DriverStep("connecting", "idle", "STA_DISCONNECTED")
LinkLost        == DriverStep("connected", "idle", "STA_DISCONNECTED")

-----------------------------------------------------------------------------
EventTask == ApStart \/ StaDisconnected \/ StaGotIp \/ NtpDone

Next ==
    \/ DelayDisconnect \/ DisconnectDone
    \/ bootWiFi \/ restart_station
    \/ ApStart \/ StaDisconnected \/ StaGotIp \/ NtpDone
    \/ serve_config_page \/ configApply
    \/ \E c \in Config : configSubmit(c)
    \/ ConnectSucceeds \/ ConnectFails \/ LinkLost
    \/ PowerLoss \/ esp_restart

Spec == Init /\ [][Next]_vars

\* Tasks run, the delayed command's countdown ends, the driver reports how
\* an attempt to connect went.  Nobody has to submit, browse or cut power, and
\* no command has to be sent to a valve.
Fairness ==
    /\ WF_vars(bootWiFi) /\ WF_vars(restart_station)
    /\ WF_vars(EventTask) /\ WF_vars(configApply)
    /\ WF_vars(ConnectSucceeds \/ ConnectFails)

FairSpec == Spec /\ Fairness

-----------------------------------------------------------------------------
(* Properties *)

\* Types of all variables.
TypeOK ==
    /\ nvs \in Flash /\ saving \in BOOLEAN /\ connectionInfo \in Config
    /\ haveconninfo \in BOOLEAN /\ sta_configured \in BOOLEAN
    /\ mode \in {"off", "AP", "STA"}
    /\ link \in {"idle", "connecting", "connected"}
    /\ events \in Seq({"AP_START", "STA_DISCONNECTED", "STA_GOT_IP"})
    /\ waiting \in BOOLEAN /\ connattempts \in 0 .. MAXCONNATTEMPTS + 1
    /\ web \in BOOLEAN /\ parms \in Brokers \cup {None}
    /\ client \in Brokers \cup {None}
    /\ nextcmd \in {"none", "START_WIFI", "RESTART_WIFI", "EQ3_DISCONNECT"}
    /\ reboot \in BOOLEAN /\ led \in {"off", "on"}
    /\ submitted \in BOOLEAN /\ dropped \in BOOLEAN
    /\ aborted \in {"no", "power", "request", "ssid", "connect"}

Queued(ev) == \E i \in 1 .. Len(events) : events[i] = ev

\* The hub never sits still.  A station is connected, or trying, or the event
\* that makes it try again is queued, whichever task set it up.  An access
\* point that knows a network will try it again: RESTART_WIFI is pending or
\* the event that sets it is queued, although wifidone(1) cancels the command
\* up to a minute after the station was connected.  The one way to lose it is
\* setnextcmd() (main/eq3_main.c:103): an EQ3_DISCONNECT is running at the very
\* moment wifidone(0) asks.
NeverStranded ==
    /\ mode = "STA" => link # "idle" \/ Queued("STA_DISCONNECTED")
    /\ mode = "AP" /\ haveconninfo =>
          restart_wifi \/ Queued("AP_START") \/ dropped

\* RESTART_WIFI is pending for an access point, never for a station at work,
\* as long as no configuration was submitted since the boot.
RestartOnlyAsAp == restart_wifi => mode = "AP" \/ submitted

\* Once the station is connected and its callback has ended, the MQTT client
\* runs with the stored settings, if none were submitted since the boot.
ClientIsCurrent ==
    link = "connected" /\ events = <<>> /\ ~waiting /\ ~submitted
        => client = nvs.blob.mqtt

\* A record that is marked with the current version has its layout, also
\* when power fails within saveConnectionInfo().
NeverWrongLayout == nvs.version = "v3" => nvs.layout = "v3"

\* README, line 187: the LED shows whether the hub is in access point mode.
LedShowsAp == mode # "off" => (led = "on") = (mode = "AP")

\* README, line 129: if the connection fails the hub reverts to AP mode;
\* main/eq3_main.c:1122: after a time as access point it is a station again,
\* if the slot was free when wifidone(0) asked for that.
ModesAlternate ==
    /\ (mode = "STA") ~> (link = "connected" \/ mode # "STA")
    /\ (mode = "AP" /\ haveconninfo)
          ~> (mode # "AP" \/ ~haveconninfo \/ dropped)

(* What an assertion and a comment say, and the code does not keep to *)

\* main/eq3_main.c:1122: "Max 5 minutes as AP then we retry station mode."
AccessPointIsLeft ==
    (mode = "AP" /\ haveconninfo) ~> (mode # "AP" \/ ~haveconninfo)

\* main/eq3_bootwifi.c:951: becomeStation() is called with a network's name.
SsidNeverEmpty == aborted # "ssid"
=============================================================================
