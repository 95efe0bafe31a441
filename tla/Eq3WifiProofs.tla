---------------------------- MODULE Eq3WifiProofs ----------------------------
(***************************************************************************)
(* Theorems about Eq3Wifi, for any networks and brokers, any number of     *)
(* attempts and any number of queued events.                               *)
(***************************************************************************)
EXTENDS Eq3Wifi, SequenceTheorems, TLAPS

-----------------------------------------------------------------------------
(* The queue of the event task *)

Ev == {"AP_START", "STA_DISCONNECTED", "STA_GOT_IP"}

Has(q, ev) == \E i \in 1 .. Len(q) : q[i] = ev

\* Behind each address the driver reported waits the start of an access point.
Covered(q) ==
    \A i \in 1 .. Len(q) :
        q[i] = "STA_GOT_IP" => \E j \in (i + 1) .. Len(q) : q[j] = "AP_START"

LEMMA TailFacts ==
    ASSUME NEW q \in Seq(Ev), q # <<>>
    PROVE  /\ Tail(q) \in Seq(Ev) /\ Len(q) \in Nat /\ Len(q) > 0
           /\ Len(Tail(q)) = Len(q) - 1 /\ Head(q) = q[1]
           /\ \A i \in 1 .. Len(q) - 1 : Tail(q)[i] = q[i + 1]
  OBVIOUS

\* What is in the queue and not at its head is left when the head is taken.
LEMMA HasTail ==
    ASSUME NEW q \in Seq(Ev), q # <<>>, NEW ev, Head(q) # ev, Has(q, ev)
    PROVE  Has(Tail(q), ev)
  <1>1. PICK i \in 1 .. Len(q) : q[i] = ev
    BY DEF Has
  <1>2. i # 1
    BY <1>1, TailFacts
  <1>3. i - 1 \in 1 .. Len(q) - 1 /\ (i - 1) + 1 = i
    BY <1>2, TailFacts
  <1>4. Tail(q)[i - 1] = ev /\ i - 1 \in 1 .. Len(Tail(q))
    BY <1>1, <1>3, TailFacts
  <1> QED BY <1>4 DEF Has

LEMMA CoveredTail ==
    ASSUME NEW q \in Seq(Ev), q # <<>>, Covered(q)
    PROVE  /\ Covered(Tail(q))
           /\ Head(q) = "STA_GOT_IP" => Has(Tail(q), "AP_START")
  <1>0. Len(q) \in Nat /\ Len(Tail(q)) = Len(q) - 1
    BY TailFacts
  <1>1. ASSUME NEW i \in 1 .. Len(q), q[i] = "STA_GOT_IP"
        PROVE  \E j \in i .. Len(q) - 1 : Tail(q)[j] = "AP_START"
    <2>1. PICK k \in (i + 1) .. Len(q) : q[k] = "AP_START"
      BY <1>1 DEF Covered
    <2>2. k - 1 \in i .. Len(q) - 1 /\ k - 1 \in 1 .. Len(q) - 1 /\ (k - 1) + 1 = k
      BY <1>0
    <2>3. Tail(q)[k - 1] = "AP_START"
      BY <2>1, <2>2, TailFacts
    <2> QED BY <2>2, <2>3
  <1>2. ASSUME NEW i \in 1 .. Len(Tail(q)), Tail(q)[i] = "STA_GOT_IP"
        PROVE  \E j \in (i + 1) .. Len(Tail(q)) : Tail(q)[j] = "AP_START"
    <2>1. i \in 1 .. Len(q) - 1 /\ i + 1 \in 1 .. Len(q)
      BY <1>0
    <2>2. q[i + 1] = "STA_GOT_IP"
      BY <1>2, <2>1, TailFacts
    <2> QED BY <1>0, <1>1, <2>1, <2>2
  <1>3. ASSUME Head(q) = "STA_GOT_IP" PROVE Has(Tail(q), "AP_START")
    <2>1. 1 \in 1 .. Len(q) /\ q[1] = "STA_GOT_IP"
      BY <1>3, TailFacts
    <2> QED BY <1>0, <1>1, <2>1 DEF Has
  <1> QED BY <1>2, <1>3 DEF Covered

\* An access point announces itself behind everything that was reported.
LEMMA AnnouncedLast ==
    ASSUME NEW q \in Seq(Ev)
    PROVE  /\ q \o <<"AP_START">> \in Seq(Ev)
           /\ Covered(q \o <<"AP_START">>)
           /\ Has(q \o <<"AP_START">>, "AP_START")
  <1> DEFINE e == q \o <<"AP_START">>
  <1>1. /\ e \in Seq(Ev) /\ Len(e) = Len(q) + 1 /\ Len(q) \in Nat
        /\ e[Len(q) + 1] = "AP_START"
    BY DEF Ev
  <1> HIDE DEF e
  <1>2. \A i \in 1 .. Len(e) : e[i] = "STA_GOT_IP" => Len(e) \in (i + 1) .. Len(e)
    BY <1>1
  <1>3. Covered(e)
    BY <1>1, <1>2 DEF Covered
  <1>4. Has(e, "AP_START")
    BY <1>1 DEF Has
  <1> QED BY <1>1, <1>3, <1>4 DEF e

\* The driver's event is queued behind the others.
LEMMA HasAppend ==
    ASSUME NEW q \in Seq(Ev), NEW ev \in Ev
    PROVE  Append(q, ev) \in Seq(Ev) /\ Has(Append(q, ev), ev)
  <1>1. /\ Append(q, ev) \in Seq(Ev) /\ Len(Append(q, ev)) = Len(q) + 1
        /\ Len(q) \in Nat /\ Append(q, ev)[Len(q) + 1] = ev
    OBVIOUS
  <1> QED BY <1>1 DEF Has

\* Queues of one and of two events, as they are taken and filled.
LEMMA ShortQueues ==
    ASSUME NEW a, NEW b
    PROVE  /\ Head(<<a>>) = a /\ Tail(<<a>>) = <<>> /\ <<a>> # <<>>
           /\ Head(<<a, b>>) = a /\ Tail(<<a, b>>) = <<b>> /\ <<a, b>> # <<>>
           /\ Append(<<>>, a) = <<a>> /\ Append(<<a>>, b) = <<a, b>>
           /\ <<>> \o <<>> \o <<a>> = <<a>>
  <1>1. /\ Head(<<a>>) = a /\ Head(<<a, b>>) = a /\ <<a>> # <<>> /\ <<a, b>> # <<>>
        /\ Tail(<<a>>) = <<>> /\ Tail(<<a, b>>) = <<b>>
    OBVIOUS
  <1>2. Append(<<>>, a) = <<a>> /\ <<>> \o <<>> \o <<a>> = <<a>>
    OBVIOUS
  <1>3. Append(<<a>>, b) = <<a, b>>
    <2> DEFINE s == Append(<<a>>, b)
               t == <<a, b>>
    <2>1. s \in Seq({a, b}) /\ Len(s) = 2 /\ s[1] = a /\ s[2] = b
      OBVIOUS
    <2>2. t \in Seq({a, b}) /\ Len(t) = 2 /\ t[1] = a /\ t[2] = b
      OBVIOUS
    <2> HIDE DEF s, t
    <2>3. Len(s) = Len(t) /\ \A i \in 1 .. Len(s) : s[i] = t[i]
      BY <2>1, <2>2
    <2>4. s = t
      BY <2>1, <2>2, <2>3, SeqEqual, Zenon
    <2> QED BY <2>4 DEF s, t
  <1> QED BY <1>1, <1>2, <1>3

-----------------------------------------------------------------------------
(* Type correctness *)

Delayed == {"none", "START_WIFI", "RESTART_WIFI", "EQ3_DISCONNECT"}

\* The queue and the driver after a change of mode.
ModeTyped ==
    /\ mode' \in {"off", "AP", "STA"} /\ sta_configured' \in BOOLEAN
    /\ link' \in {"idle", "connecting", "connected"} /\ events' \in Seq(Ev)
    /\ dropped' \in BOOLEAN

\* becomeAccessPoint() announces the access point behind what is queued.
LEMMA ApEffect ==
    ASSUME TypeOK, NEW left \in Seq(Ev), becomeAccessPoint(left)
    PROVE  /\ ModeTyped /\ mode' = "AP" /\ link' = "idle"
           /\ Covered(events') /\ Has(events', "AP_START")
  <1>1. PICK evs \in StopEvents : events' = left \o evs \o <<"AP_START">>
    BY DEF becomeAccessPoint
  <1>2. evs \in Seq(Ev)
    <2>1. <<>> \in Seq(Ev) /\ <<"STA_DISCONNECTED">> \in Seq(Ev)
      BY DEF Ev
    <2>2. link \in {"idle", "connecting", "connected"}
      BY DEF TypeOK
    <2>3. evs = <<>> \/ evs = <<"STA_DISCONNECTED">>
      BY <2>2 DEF StopEvents
    <2> QED BY <2>1, <2>3
  <1>3. left \o evs \in Seq(Ev)
    BY <1>2
  <1>4. /\ events' \in Seq(Ev) /\ Covered(events') /\ Has(events', "AP_START")
    BY <1>1, <1>3, AnnouncedLast
  <1>5. /\ mode' = "AP" /\ link' = "idle" /\ sta_configured' \in BOOLEAN
        /\ dropped' \in BOOLEAN
    BY DEF becomeAccessPoint
  <1> QED BY <1>4, <1>5 DEF ModeTyped

\* becomeStation() leaves a station that is connected or trying.
LEMMA StationEffect ==
    ASSUME TypeOK, NEW left \in Seq(Ev), becomeStation(left)
    PROVE  /\ ModeTyped /\ mode' = "STA" /\ link' # "idle" /\ events' = left
           /\ link = "idle" => link' = "connecting"
  <1>1. /\ mode' = "STA" /\ events' = left /\ sta_configured' \in BOOLEAN
        /\ dropped' \in BOOLEAN
    BY DEF becomeStation
  <1>2. link' = IF sta_configured /\ link # "idle" THEN link ELSE "connecting"
    BY DEF becomeStation
  <1>3. link \in {"idle", "connecting", "connected"}
    BY DEF TypeOK
  <1>4. link' \in {"connecting", "connected"} /\ (link = "idle" => link' = "connecting")
    BY <1>2, <1>3
  <1> QED BY <1>1, <1>4 DEF ModeTyped

LEMMA ConfigNtp ==
    ASSUME NEW c \in Config, NEW b \in BOOLEAN
    PROVE  [c EXCEPT !.ntp = b] \in Config
  BY DEF Config

LEMMA LoadedType ==
    ASSUME TypeOK, NEW f \in Flash
    PROVE  Loaded(f) \in Config /\ f.blob.mqtt \in Brokers \cup {None}
  <1>1. /\ f.blob \in Config /\ connectionInfo \in Config
        /\ f.blob.mqtt \in Brokers \cup {None}
    BY DEF TypeOK, Flash, Config
  <1>2. (f.blob.ntp /\ f.version # "v1") \in BOOLEAN
    OBVIOUS
  <1>3. /\ [connectionInfo EXCEPT !.ntp = FALSE] \in Config
        /\ [f.blob EXCEPT !.ntp = (f.blob.ntp /\ f.version # "v1")] \in Config
    BY <1>1, <1>2, ConfigNtp
  <1> QED BY <1>1, <1>3 DEF Loaded

\* bootWiFi2() ends as an access point, or as a station of the network in
\* the flash with the settings of its broker.
LEMMA BootEffect ==
    ASSUME TypeOK, NEW pressed \in BOOLEAN, NEW f \in Flash, bootWiFi2(pressed, f)
    PROVE  /\ ModeTyped /\ led' \in {"off", "on"} /\ connectionInfo' \in Config
           /\ haveconninfo' \in BOOLEAN /\ parms' \in Brokers \cup {None}
           /\ \/ /\ becomeAccessPoint(events)
                 /\ UNCHANGED <<haveconninfo, parms>>
              \/ /\ becomeStation(events)
                 /\ haveconninfo' = TRUE /\ parms' = f.blob.mqtt
  <1>1. /\ events \in Seq(Ev) /\ connectionInfo \in Config /\ haveconninfo \in BOOLEAN
        /\ parms \in Brokers \cup {None}
    BY DEF TypeOK, Ev
  <1>2. Loaded(f) \in Config /\ f.blob.mqtt \in Brokers \cup {None}
    BY LoadedType
  <1>3. CASE /\ becomeAccessPoint(events) /\ led' = "on"
             /\ connectionInfo' = IF pressed THEN connectionInfo ELSE Loaded(f)
             /\ UNCHANGED <<haveconninfo, parms>>
    <2>1. ModeTyped
      BY <1>1, <1>3, ApEffect
    <2>2. connectionInfo' \in Config /\ haveconninfo' \in BOOLEAN
      BY <1>1, <1>2, <1>3
    <2> QED BY <1>1, <1>3, <2>1, <2>2
  <1>4. CASE /\ connectionInfo' = Loaded(f) /\ haveconninfo' = TRUE
             /\ becomeStation(events) /\ led' = "off" /\ parms' = f.blob.mqtt
    <2>1. ModeTyped
      BY <1>1, <1>4, StationEffect
    <2>2. haveconninfo' \in BOOLEAN
      BY <1>4
    <2> QED BY <1>2, <1>4, <2>1, <2>2
  <1> QED BY <1>3, <1>4 DEF bootWiFi2

LEMMA InitType == Init => TypeOK
  <1> SUFFICES ASSUME Init PROVE TypeOK
    OBVIOUS
  <1>1. connectionInfo \in Config
    BY DEF Init, Fresh, Config, NoConfig
  <1>2. nvs \in Flash
    BY DEF Init, Flash
  <1>3. /\ saving \in BOOLEAN /\ haveconninfo \in BOOLEAN /\ sta_configured \in BOOLEAN
        /\ waiting \in BOOLEAN /\ web \in BOOLEAN /\ nextcmd \in Delayed
        /\ reboot \in BOOLEAN /\ submitted \in BOOLEAN /\ dropped \in BOOLEAN
    BY DEF Init, Fresh, Delayed
  <1>4. /\ mode = "off" /\ link = "idle" /\ events = <<>> /\ connattempts = 0
        /\ parms = None /\ client = None /\ led = "off" /\ aborted = "no"
    BY DEF Init, Fresh
  <1>5. connattempts \in 0 .. MAXCONNATTEMPTS + 1
    BY <1>4, WifiAssumption
  <1> QED BY <1>1, <1>2, <1>3, <1>4, <1>5 DEF TypeOK, Delayed

LEMMA RestartType ==
    ASSUME TypeOK, NEW why \in {"no", "power", "request", "ssid", "connect"}, Restart(why)
    PROVE  TypeOK'
  <1>1. connectionInfo' \in Config
    BY DEF Restart, Config, NoConfig
  <1>2. nvs' \in Flash
    BY DEF Restart, TypeOK
  <1>3. /\ saving' \in BOOLEAN /\ haveconninfo' \in BOOLEAN /\ sta_configured' \in BOOLEAN
        /\ waiting' \in BOOLEAN /\ web' \in BOOLEAN /\ nextcmd' \in Delayed
        /\ reboot' \in BOOLEAN /\ submitted' \in BOOLEAN /\ dropped' \in BOOLEAN
    BY DEF Restart, Delayed
  <1>4. /\ mode' = "off" /\ link' = "idle" /\ events' = <<>> /\ connattempts' = 0
        /\ parms' = None /\ client' = None /\ led' = "off" /\ aborted' = why
    BY DEF Restart
  <1>5. connattempts' \in 0 .. MAXCONNATTEMPTS + 1
    BY <1>4, WifiAssumption
  <1> QED BY <1>1, <1>2, <1>3, <1>4, <1>5 DEF TypeOK, Delayed

\* StationAborts is a restart.
LEMMA AbortRestarts ==
    ASSUME StationAborts
    PROVE  \E why \in {"no", "power", "request", "ssid", "connect"} : Restart(why)
  BY DEF StationAborts

LEMMA NextType == ASSUME TypeOK, [Next]_vars PROVE TypeOK'
  <1> USE DEF flashVars, driverVars, wifiVars, taskVars, mqttVars, Delayed
  <1>0. events \in Seq(Ev) /\ nvs \in Flash /\ checkOverrideGpio \subseteq BOOLEAN
    BY DEF TypeOK, Ev, checkOverrideGpio
  <1>1. CASE bootWiFi
    <2>1. PICK pressed \in BOOLEAN : bootWiFi2(pressed, nvs)
      BY <1>0, <1>1 DEF bootWiFi
    <2>2. /\ ModeTyped /\ led' \in {"off", "on"} /\ connectionInfo' \in Config
          /\ haveconninfo' \in BOOLEAN /\ parms' \in Brokers \cup {None}
      BY <1>0, <2>1, BootEffect
    <2>3. nextcmd' \in Delayed /\ UNCHANGED <<flashVars, taskVars, client, reboot,
                                               submitted, aborted>>
      BY <1>1 DEF bootWiFi
    <2> QED BY <2>2, <2>3 DEF TypeOK, ModeTyped, Ev
  <1>2. CASE restart_station
    <2>1. CASE StationAborts
      BY <2>1, AbortRestarts, RestartType
    <2>2. CASE ~StationAborts
      <3>1. ModeTyped
        BY <1>0, <1>2, <2>2, StationEffect DEF restart_station
      <3>2. /\ led' \in {"off", "on"} /\ nextcmd' \in Delayed
        BY <1>2, <2>2 DEF restart_station
      <3>3. UNCHANGED <<flashVars, connectionInfo, haveconninfo, taskVars,
                        mqttVars, reboot, submitted, aborted>>
        BY <1>2, <2>2 DEF restart_station
      <3> QED BY <3>1, <3>2, <3>3 DEF TypeOK, ModeTyped, Ev
    <2> QED BY <2>1, <2>2
  <1>3. CASE ApStart
    <2>1. /\ events' \in Seq(Ev) /\ web' \in BOOLEAN
      BY <1>0, <1>3, TailFacts DEF ApStart, Handling
    <2>2. UNCHANGED <<flashVars, connectionInfo, haveconninfo, sta_configured,
                      driverVars, led, waiting, connattempts, mqttVars, reboot,
                      submitted, aborted>>
      BY <1>3 DEF ApStart
    <2>3. nextcmd' \in Delayed /\ dropped' \in BOOLEAN
      BY <1>3 DEF ApStart, AsAccessPoint, setnextcmd, TypeOK
    <2> QED BY <2>1, <2>2, <2>3 DEF TypeOK, Ev
  <1>4. CASE StaDisconnected
    <2>1. CASE StationAborts
      BY <2>1, AbortRestarts, RestartType
    <2>2. CASE ~StationAborts
      <3>0. Tail(events) \in Seq(Ev)
        BY <1>0, <1>4, TailFacts DEF StaDisconnected, Handling
      <3>1. ModeTyped
        BY <1>4, <2>2, <3>0, ApEffect, StationEffect DEF StaDisconnected, Retry
      <3>2. led' \in {"off", "on"}
        BY <1>4, <2>2 DEF StaDisconnected, Retry
      <3>3. connattempts' \in 0 .. MAXCONNATTEMPTS + 1
        <4>1. connattempts \in 0 .. MAXCONNATTEMPTS + 1 /\ MAXCONNATTEMPTS \in Nat
          BY WifiAssumption DEF TypeOK
        <4>2. \/ connattempts' = 0
              \/ ~(connattempts > MAXCONNATTEMPTS) /\ connattempts' = connattempts + 1
          BY <1>4, <2>2 DEF StaDisconnected, GiveUp, NextAttempt
        <4> QED BY <4>1, <4>2
      <3>4. UNCHANGED <<flashVars, connectionInfo, haveconninfo, waiting, web,
                        mqttVars, nextcmd, reboot, submitted, aborted>>
        BY <1>4, <2>2 DEF StaDisconnected
      <3> QED BY <3>1, <3>2, <3>3, <3>4 DEF TypeOK, ModeTyped, Ev
    <2> QED BY <2>1, <2>2
  <1>c. Connected => nextcmd' \in Delayed /\ client' \in Brokers \cup {None}
    BY DEF Connected, TypeOK
  <1>5. CASE StaGotIp
    <2>1. /\ events' \in Seq(Ev) /\ web' \in BOOLEAN
          /\ connattempts' \in 0 .. MAXCONNATTEMPTS + 1
      BY <1>0, <1>5, TailFacts, WifiAssumption DEF StaGotIp, Handling
    <2>2. waiting' \in BOOLEAN
      BY <1>5 DEF StaGotIp, TypeOK, Config
    <2>3. nextcmd' \in Delayed /\ client' \in Brokers \cup {None}
      BY <1>5, <1>c DEF StaGotIp, TypeOK
    <2>4. UNCHANGED <<flashVars, connectionInfo, haveconninfo, sta_configured,
                      driverVars, led, parms, reboot, submitted, dropped, aborted>>
      BY <1>5 DEF StaGotIp
    <2> QED BY <2>1, <2>2, <2>3, <2>4 DEF TypeOK, Ev
  <1>6. CASE NtpDone
    <2>1. waiting' \in BOOLEAN /\ nextcmd' \in Delayed /\ client' \in Brokers \cup {None}
      BY <1>6, <1>c DEF NtpDone
    <2>2. UNCHANGED <<flashVars, connectionInfo, haveconninfo, wifiVars,
                      connattempts, web, parms, reboot, submitted, dropped, aborted>>
      BY <1>6 DEF NtpDone
    <2> QED BY <2>1, <2>2 DEF TypeOK
  <1>7. CASE serve_config_page
    <2>1. connectionInfo' \in Config
      BY <1>0, <1>7, LoadedType DEF serve_config_page
    <2>2. UNCHANGED <<flashVars, haveconninfo, wifiVars, taskVars, mqttVars,
                      nextcmd, reboot, submitted, dropped, aborted>>
      BY <1>7 DEF serve_config_page
    <2> QED BY <2>1, <2>2 DEF TypeOK
  <1>8. CASE configApply
    <2>1. nvs' \in Flash
      BY <1>0, <1>8 DEF configApply, Flash, Version
    <2>2. saving' \in BOOLEAN /\ UNCHANGED <<taskVars, client, nextcmd, submitted, aborted>>
      BY <1>8 DEF configApply
    <2>3. CASE sta_configured
      <3>1. /\ reboot' \in BOOLEAN
            /\ UNCHANGED <<connectionInfo, haveconninfo, wifiVars, parms, dropped>>
        BY <1>8, <2>3 DEF configApply
      <3> QED BY <2>1, <2>2, <3>1 DEF TypeOK
    <2>4. CASE ~sta_configured
      <3>1. PICK pressed \in BOOLEAN : bootWiFi2(pressed, nvs')
        BY <1>0, <1>8, <2>4 DEF configApply
      <3>2. UNCHANGED reboot
        BY <1>8, <2>4 DEF configApply
      <3>3. /\ ModeTyped /\ led' \in {"off", "on"} /\ connectionInfo' \in Config
            /\ haveconninfo' \in BOOLEAN /\ parms' \in Brokers \cup {None}
        <4> DEFINE f == nvs'
        <4>1. f \in Flash /\ bootWiFi2(pressed, f)
          BY <2>1, <3>1
        <4> HIDE DEF f
        <4> QED BY <4>1, BootEffect
      <3> QED BY <2>1, <2>2, <3>2, <3>3 DEF TypeOK, ModeTyped, Ev
    <2> QED BY <2>3, <2>4
  <1>9. ASSUME NEW c \in Config, configSubmit(c) PROVE TypeOK'
    <2>1. nvs' \in Flash
      BY <1>0, <1>9 DEF configSubmit, Flash, Version
    <2>2. connectionInfo' \in Config /\ submitted' \in BOOLEAN /\ saving' \in BOOLEAN
      BY <1>9 DEF configSubmit
    <2>3. UNCHANGED <<haveconninfo, wifiVars, taskVars, mqttVars, nextcmd,
                      reboot, dropped, aborted>>
      BY <1>9 DEF configSubmit
    <2> QED BY <2>1, <2>2, <2>3 DEF TypeOK
  <1>10. ASSUME NEW from, NEW to \in {"idle", "connected"}, NEW ev \in Ev,
                DriverStep(from, to, ev)
         PROVE  TypeOK'
    <2>1. link' \in {"idle", "connecting", "connected"} /\ events' \in Seq(Ev)
      BY <1>0, <1>10, HasAppend DEF DriverStep
    <2>2. UNCHANGED <<flashVars, connectionInfo, haveconninfo, sta_configured, mode,
                      led, taskVars, mqttVars, nextcmd, reboot, submitted, dropped,
                      aborted>>
      BY <1>10 DEF DriverStep
    <2> QED BY <2>1, <2>2 DEF TypeOK, Ev
  <1>11. CASE ConnectSucceeds \/ ConnectFails \/ LinkLost
    <2>1. "STA_GOT_IP" \in Ev /\ "STA_DISCONNECTED" \in Ev
      BY DEF Ev
    <2> QED BY <1>10, <1>11, <2>1 DEF ConnectSucceeds, ConnectFails, LinkLost
  <1>12. CASE PowerLoss \/ esp_restart
    BY <1>12, RestartType DEF PowerLoss, esp_restart
  <1>13. CASE DelayDisconnect \/ DisconnectDone
    <2>1. nextcmd' \in Delayed
      BY <1>13 DEF DelayDisconnect, DisconnectDone, setnextcmd
    <2>2. UNCHANGED <<flashVars, connectionInfo, haveconninfo, wifiVars, taskVars,
                      mqttVars, reboot, submitted, dropped, aborted>>
      BY <1>13 DEF DelayDisconnect, DisconnectDone
    <2> QED BY <2>1, <2>2 DEF TypeOK
  <1>14. CASE UNCHANGED vars
    BY <1>14 DEF TypeOK, vars
  <1> QED BY <1>1, <1>2, <1>3, <1>4, <1>5, <1>6, <1>7, <1>8, <1>9, <1>11, <1>12, <1>13,
             <1>14
          DEF Next

\* Every variable keeps its type; the count of attempts stops one behind
\* MAXCONNATTEMPTS.
THEOREM WifiTypeCorrect == Spec => []TypeOK
  <1>1. TypeOK /\ [Next]_vars => TypeOK'
    BY NextType
  <1> QED BY <1>1, InitType, PTL DEF Spec

-----------------------------------------------------------------------------
(* The stored record *)

\* Between its two writes saveConnectionInfo() has written the layout.
LayoutInv == NeverWrongLayout /\ (saving => nvs.layout = "v3")

LEMMA LayoutStep == ASSUME TypeOK, LayoutInv, [Next]_vars PROVE LayoutInv'
  <1> USE DEF LayoutInv, NeverWrongLayout
  <1>0. nvs \in Flash
    BY DEF TypeOK
  <1>1. ASSUME NEW c \in Config, configSubmit(c) PROVE LayoutInv'
    <2>1. nvs' = [nvs EXCEPT !.layout = "v3", !.blob = c]
      BY <1>1 DEF configSubmit
    <2>2. nvs'.layout = "v3"
      BY <1>0, <2>1 DEF Flash
    <2> QED BY <2>2
  <1>2. CASE configApply
    <2>1. saving /\ ~saving' /\ nvs' = [nvs EXCEPT !.version = "v3"]
      BY <1>2 DEF configApply
    <2>2. nvs'.layout = nvs.layout
      BY <1>0, <2>1 DEF Flash
    <2> QED BY <2>1, <2>2
  <1>3. ASSUME NEW why, Restart(why) PROVE LayoutInv'
    BY <1>3 DEF Restart
  <1>4. CASE StationAborts \/ PowerLoss \/ esp_restart
    BY <1>3, <1>4 DEF StationAborts, PowerLoss, esp_restart
  <1>5. CASE UNCHANGED flashVars
    BY <1>5 DEF flashVars
  <1>6. CASE restart_station \/ StaDisconnected
    <2>1. StationAborts \/ UNCHANGED flashVars
      BY <1>6 DEF restart_station, StaDisconnected, flashVars
    <2> QED BY <1>4, <1>5, <2>1
  <1>7. CASE ConnectSucceeds \/ ConnectFails \/ LinkLost
    <2>1. UNCHANGED flashVars
      BY <1>7 DEF ConnectSucceeds, ConnectFails, LinkLost, DriverStep, flashVars
    <2> QED BY <1>5, <2>1
  <1>8. CASE \/ bootWiFi \/ ApStart \/ StaGotIp \/ NtpDone \/ serve_config_page
             \/ DelayDisconnect \/ DisconnectDone
    <2>1. UNCHANGED flashVars
      BY <1>8 DEF bootWiFi, ApStart, StaGotIp, NtpDone, serve_config_page,
                  DelayDisconnect, DisconnectDone, flashVars
    <2> QED BY <1>5, <2>1
  <1>9. CASE UNCHANGED vars
    BY <1>5, <1>9 DEF vars
  <1> QED BY <1>1, <1>2, <1>4, <1>6, <1>7, <1>8, <1>9 DEF Next

\* Power may fail between the two writes of saveConnectionInfo(): a record
\* marked with the current version still has its layout.
THEOREM RecordNeverMisread == Spec => []NeverWrongLayout
  <1>1. Init => LayoutInv
    <2> SUFFICES ASSUME Init PROVE LayoutInv
      OBVIOUS
    <2>1. PICK v \in Version, c \in Config : nvs = [version |-> v, layout |-> v, blob |-> c]
      BY DEF Init
    <2>2. nvs.version = nvs.layout
      BY <2>1
    <2>3. saving = FALSE
      BY DEF Init, Fresh
    <2> QED BY <2>2, <2>3 DEF LayoutInv, NeverWrongLayout
  <1>2. TypeOK /\ LayoutInv /\ [Next]_vars => LayoutInv'
    BY LayoutStep
  <1>3. LayoutInv => NeverWrongLayout
    BY DEF LayoutInv
  <1> QED BY <1>1, <1>2, <1>3, WifiTypeCorrect, PTL DEF Spec

-----------------------------------------------------------------------------
(* The hub never sits still *)

\* What a late STA_GOT_IP could undo: wifidone(1) cancels RESTART_WIFI, also
\* when the hub has become an access point meanwhile.  The event that will set
\* it again is queued behind.
StrandInv ==
    /\ mode = "STA" => link # "idle" \/ Has(events, "STA_DISCONNECTED")
    /\ mode = "AP" =>
          /\ haveconninfo => restart_wifi \/ Has(events, "AP_START") \/ dropped
          /\ Covered(events)
          /\ waiting => Has(events, "AP_START")

\* After becomeAccessPoint() and after becomeStation() all is well, whatever
\* the tasks are in the middle of.
LEMMA NewModeSafe ==
    ASSUME TypeOK, NEW left \in Seq(Ev), becomeAccessPoint(left) \/ becomeStation(left)
    PROVE  StrandInv'
  <1>1. CASE becomeAccessPoint(left)
    <2>1. mode' = "AP" /\ Covered(events') /\ Has(events', "AP_START")
      BY <1>1, ApEffect
    <2> QED BY <2>1 DEF StrandInv
  <1>2. CASE becomeStation(left)
    <2>1. mode' = "STA" /\ link' # "idle"
      BY <1>2, StationEffect
    <2> QED BY <2>1 DEF StrandInv
  <1> QED BY <1>1, <1>2

LEMMA StrandStep == ASSUME TypeOK, StrandInv, [Next]_vars PROVE StrandInv'
  <1> USE DEF flashVars, driverVars, wifiVars, taskVars, mqttVars, restart_wifi
  <1>0. events \in Seq(Ev) /\ checkOverrideGpio \subseteq BOOLEAN /\ nvs \in Flash
    BY DEF TypeOK, Ev, checkOverrideGpio
  <1>1. ASSUME NEW why, Restart(why) PROVE StrandInv'
    <2>1. mode' = "off"
      BY <1>1 DEF Restart
    <2> QED BY <2>1 DEF StrandInv
  <1>2. CASE StationAborts \/ PowerLoss \/ esp_restart
    BY <1>1, <1>2 DEF StationAborts, PowerLoss, esp_restart
  <1>3. ASSUME NEW pressed, NEW f, bootWiFi2(pressed, f) PROVE StrandInv'
    <2>1. becomeAccessPoint(events) \/ becomeStation(events)
      BY <1>3 DEF bootWiFi2
    <2> QED BY <1>0, <2>1, NewModeSafe
  <1>4. CASE restart_station
    <2>1. StationAborts \/ becomeStation(events)
      BY <1>4 DEF restart_station
    <2> QED BY <1>0, <1>2, <2>1, NewModeSafe
  <1>5. CASE StaDisconnected
    <2>0. Tail(events) \in Seq(Ev)
      BY <1>0, <1>5, TailFacts DEF StaDisconnected, Handling
    <2>1. StationAborts \/ becomeAccessPoint(Tail(events)) \/ becomeStation(Tail(events))
      BY <1>5 DEF StaDisconnected, Retry
    <2> QED BY <1>2, <2>0, <2>1, NewModeSafe
  <1>6. CASE ApStart
    <2>1. /\ events # <<>> /\ Head(events) = "AP_START" /\ events' = Tail(events)
          /\ ~waiting /\ UNCHANGED <<mode, link, haveconninfo, waiting>>
      BY <1>6 DEF ApStart, Handling
    <2>2. haveconninfo => restart_wifi' \/ dropped'
      BY <1>6 DEF ApStart, AsAccessPoint, setnextcmd
    <2>3. Covered(events) => Covered(events')
      BY <1>0, <2>1, CoveredTail
    <2>4. Has(events, "STA_DISCONNECTED") => Has(events', "STA_DISCONNECTED")
      BY <1>0, <2>1, HasTail
    <2> QED BY <2>1, <2>2, <2>3, <2>4 DEF StrandInv
  <1>7. CASE StaGotIp
    <2>1. /\ events # <<>> /\ Head(events) = "STA_GOT_IP" /\ events' = Tail(events)
          /\ UNCHANGED <<mode, link, haveconninfo>>
      BY <1>7 DEF StaGotIp, Handling
    <2>2. Covered(events) => Covered(events') /\ Has(events', "AP_START")
      BY <1>0, <2>1, CoveredTail
    <2>3. Has(events, "STA_DISCONNECTED") => Has(events', "STA_DISCONNECTED")
      BY <1>0, <2>1, HasTail
    <2> QED BY <2>1, <2>2, <2>3 DEF StrandInv
  <1>8. CASE NtpDone
    <2>1. waiting /\ ~waiting' /\ UNCHANGED <<mode, link, events, haveconninfo>>
      BY <1>8 DEF NtpDone
    <2> QED BY <2>1 DEF StrandInv
  <1>9. ASSUME UNCHANGED <<mode, link, events, haveconninfo, restart_wifi, waiting, dropped>>
        PROVE  StrandInv'
    BY <1>9 DEF StrandInv
  <1>10. CASE serve_config_page \/ \E c \in Config : configSubmit(c)
    <2>1. UNCHANGED <<mode, link, events, haveconninfo, restart_wifi, waiting, dropped>>
      BY <1>10 DEF serve_config_page, configSubmit
    <2> QED BY <1>9, <2>1
  <1>11. CASE configApply
    <2>1. CASE sta_configured
      <3>1. UNCHANGED <<mode, link, events, haveconninfo, restart_wifi, waiting, dropped>>
        BY <1>11, <2>1 DEF configApply
      <3> QED BY <1>9, <3>1
    <2>2. CASE ~sta_configured
      <3>1. becomeAccessPoint(events) \/ becomeStation(events)
        BY <1>11, <2>2 DEF configApply, bootWiFi2
      <3> QED BY <1>0, <3>1, NewModeSafe
    <2> QED BY <2>1, <2>2
  <1>12. ASSUME NEW from, NEW to, NEW ev \in Ev, DriverStep(from, to, ev),
                to = "idle" => ev = "STA_DISCONNECTED"
         PROVE  StrandInv'
    <2>1. mode' = "STA" /\ link' = to /\ events' = Append(events, ev)
      BY <1>12 DEF DriverStep
    <2>2. Has(events', ev)
      BY <1>0, <2>1, HasAppend
    <2> QED BY <1>12, <2>1, <2>2 DEF StrandInv
  <1>13. CASE ConnectSucceeds \/ ConnectFails \/ LinkLost
    <2>1. "STA_GOT_IP" \in Ev /\ "STA_DISCONNECTED" \in Ev
      BY DEF Ev
    <2> QED BY <1>12, <1>13, <2>1 DEF ConnectSucceeds, ConnectFails, LinkLost
  <1>14. CASE bootWiFi
    BY <1>3, <1>14 DEF bootWiFi
  <1>15. CASE DelayDisconnect \/ DisconnectDone
    <2>1. UNCHANGED <<mode, link, events, haveconninfo, restart_wifi, waiting, dropped>>
      BY <1>15 DEF DelayDisconnect, DisconnectDone, setnextcmd
    <2> QED BY <1>9, <2>1
  <1>16. CASE UNCHANGED vars
    BY <1>9, <1>16 DEF vars
  <1> QED BY <1>2, <1>4, <1>5, <1>6, <1>7, <1>8, <1>10, <1>11, <1>13, <1>14, <1>15,
             <1>16 DEF Next

\* In every interleaving of the event, web, main and Bluetooth tasks, with stale
\* events in the queue and wifidone(1) waiting for the time: a station is
\* connected, trying or about to try again, and an access point that knows a
\* network has its RESTART_WIFI ahead unless setnextcmd() found the slot taken
\* by another delayed command when wifidone(0) asked (eq3_main.c:103, 1123).
THEOREM HubNeverStranded == Spec => []NeverStranded
  <1>1. Init => StrandInv
    BY DEF Init, Fresh, StrandInv
  <1>2. TypeOK /\ StrandInv /\ [Next]_vars => StrandInv'
    BY StrandStep
  <1>3. StrandInv => NeverStranded
    BY DEF StrandInv, NeverStranded, Queued, Has
  <1> QED BY <1>1, <1>2, <1>3, WifiTypeCorrect, PTL DEF Spec

-----------------------------------------------------------------------------
(* As long as no configuration is submitted *)

ApOrderly ==
    /\ link = "idle" /\ ~waiting
    /\ events = <<>> \/ (events = <<"AP_START">> /\ ~restart_wifi)

\* The event task is at most two events behind the driver.
StaOrderly ==
    /\ ~restart_wifi /\ haveconninfo
    /\ \/ link = "connecting" /\ events = <<>> /\ ~waiting
       \/ link = "connected" /\ events = <<>>
       \/ link = "connected" /\ events = <<"STA_GOT_IP">> /\ ~waiting
       \/ link = "idle" /\ events = <<"STA_DISCONNECTED">>
       \/ link = "idle" /\ events = <<"STA_GOT_IP", "STA_DISCONNECTED">> /\ ~waiting

OffOrderly == ~restart_wifi /\ ~waiting /\ events = <<>> /\ link = "idle"

ModeOrderly ==
    /\ mode = "off" => OffOrderly
    /\ mode = "AP" => ApOrderly
    /\ mode = "STA" => StaOrderly

ClientInv ==
    /\ haveconninfo => parms = nvs.blob.mqtt
    /\ client # None => client = nvs.blob.mqtt
    /\ link = "connected" /\ events = <<>> /\ ~waiting => client = nvs.blob.mqtt

OrderlyInv ==
    /\ restart_wifi => haveconninfo
    /\ saving => submitted
    /\ ~submitted => ModeOrderly /\ ClientInv

LEMMA OrderlyStep == ASSUME TypeOK, OrderlyInv, [Next]_vars PROVE OrderlyInv'
  <1> USE DEF flashVars, driverVars, wifiVars, taskVars, mqttVars, restart_wifi
  <1>0. /\ events \in Seq(Ev) /\ mode \in {"off", "AP", "STA"}
        /\ nvs \in Flash /\ checkOverrideGpio \subseteq BOOLEAN
    BY DEF TypeOK, Ev, checkOverrideGpio
  <1>q. /\ Head(<<"AP_START">>) = "AP_START" /\ Tail(<<"AP_START">>) = <<>>
        /\ Head(<<"STA_GOT_IP">>) = "STA_GOT_IP" /\ Tail(<<"STA_GOT_IP">>) = <<>>
        /\ Head(<<"STA_DISCONNECTED">>) = "STA_DISCONNECTED"
        /\ Tail(<<"STA_DISCONNECTED">>) = <<>>
        /\ Head(<<"STA_GOT_IP", "STA_DISCONNECTED">>) = "STA_GOT_IP"
        /\ Tail(<<"STA_GOT_IP", "STA_DISCONNECTED">>) = <<"STA_DISCONNECTED">>
        /\ Append(<<>>, "STA_GOT_IP") = <<"STA_GOT_IP">>
        /\ Append(<<>>, "STA_DISCONNECTED") = <<"STA_DISCONNECTED">>
        /\ Append(<<"STA_GOT_IP">>, "STA_DISCONNECTED")
              = <<"STA_GOT_IP", "STA_DISCONNECTED">>
    BY ShortQueues
  <1>r. ASSUME NEW why, Restart(why) PROVE OrderlyInv'
    <2>1. ~restart_wifi' /\ ~saving' /\ ~haveconninfo' /\ ~waiting'
      BY <1>r DEF Restart
    <2>2. mode' = "off" /\ events' = <<>> /\ link' = "idle" /\ client' = None
      BY <1>r DEF Restart
    <2> QED BY <2>1, <2>2 DEF OrderlyInv, ModeOrderly, OffOrderly, ClientInv
  <1>s. CASE StationAborts \/ PowerLoss \/ esp_restart
    BY <1>r, <1>s DEF StationAborts, PowerLoss, esp_restart
  \* The two changes of mode, from a state without link and without events.
  <1>a. ASSUME link = "idle", becomeAccessPoint(<<>>), ~waiting', ~restart_wifi'
        PROVE  ModeOrderly'
    <2>1. PICK evs \in StopEvents : events' = <<>> \o evs \o <<"AP_START">>
      BY <1>a DEF becomeAccessPoint
    <2>2. evs = <<>>
      BY <1>a DEF StopEvents
    <2>3. events' = <<"AP_START">>
      BY <2>1, <2>2, ShortQueues
    <2>4. mode' = "AP" /\ link' = "idle"
      BY <1>a DEF becomeAccessPoint
    <2> QED BY <1>a, <2>3, <2>4 DEF ModeOrderly, ApOrderly
  <1>b. ASSUME link = "idle", becomeStation(<<>>), ~waiting', ~restart_wifi', haveconninfo'
        PROVE  ModeOrderly' /\ link' = "connecting"
    <2>1. mode' = "STA" /\ link' = "connecting" /\ events' = <<>>
      BY <1>b DEF becomeStation
    <2> QED BY <1>b, <2>1 DEF ModeOrderly, StaOrderly
  <1>1. CASE bootWiFi
    <2>1. PICK pressed \in BOOLEAN : bootWiFi2(pressed, nvs)
      BY <1>0, <1>1 DEF bootWiFi
    <2>2. /\ mode = "off"
          /\ UNCHANGED <<nvs, saving, waiting, client, restart_wifi, submitted>>
      BY <1>1 DEF bootWiFi
    <2>3. \/ becomeAccessPoint(events) /\ UNCHANGED <<haveconninfo, parms>>
          \/ becomeStation(events) /\ haveconninfo' = TRUE /\ parms' = nvs.blob.mqtt
      BY <2>1 DEF bootWiFi2
    <2>4. CASE submitted
      BY <2>2, <2>3, <2>4 DEF OrderlyInv
    <2>5. CASE ~submitted
      <3>1. ClientInv /\ ~restart_wifi /\ ~waiting /\ events = <<>> /\ link = "idle"
        BY <2>2, <2>5 DEF OrderlyInv, ModeOrderly, OffOrderly
      <3>2. ModeOrderly' /\ link' # "connected"
        <4>1. CASE becomeAccessPoint(events)
          <5>1. link' = "idle"
            BY <4>1 DEF becomeAccessPoint
          <5>2. becomeAccessPoint(<<>>) /\ ~waiting' /\ ~restart_wifi'
            BY <2>2, <3>1, <4>1
          <5> QED BY <1>a, <3>1, <5>1, <5>2
        <4>2. CASE becomeStation(events) /\ haveconninfo' = TRUE
          <5>1. becomeStation(<<>>) /\ ~waiting' /\ ~restart_wifi' /\ haveconninfo'
            BY <2>2, <3>1, <4>2
          <5> QED BY <1>b, <3>1, <5>1
        <4> QED BY <2>3, <4>1, <4>2
      <3>3. ClientInv'
        BY <2>2, <2>3, <3>1, <3>2 DEF ClientInv
      <3> QED BY <2>2, <2>5, <3>1, <3>2, <3>3 DEF OrderlyInv
    <2> QED BY <2>4, <2>5
  <1>2. CASE restart_station /\ ~StationAborts
    <2>1. /\ restart_wifi /\ ~restart_wifi' /\ becomeStation(events)
          /\ UNCHANGED <<nvs, saving, haveconninfo, waiting, parms, client, submitted>>
      BY <1>2 DEF restart_station
    <2>2. CASE submitted
      BY <2>1, <2>2 DEF OrderlyInv
    <2>3. CASE ~submitted
      <3>1. mode = "AP" /\ haveconninfo /\ ClientInv
        BY <1>0, <2>1, <2>3 DEF OrderlyInv, ModeOrderly, OffOrderly, StaOrderly
      <3>2. link = "idle" /\ ~waiting /\ events = <<>>
        BY <2>1, <2>3, <3>1 DEF OrderlyInv, ModeOrderly, ApOrderly
      <3>3. becomeStation(<<>>) /\ ~waiting' /\ haveconninfo'
        BY <2>1, <3>1, <3>2
      <3>4. ModeOrderly' /\ link' = "connecting"
        BY <1>b, <2>1, <3>2, <3>3
      <3>5. ClientInv'
        BY <2>1, <3>1, <3>4 DEF ClientInv
      <3> QED BY <2>1, <2>3, <3>4, <3>5 DEF OrderlyInv
    <2> QED BY <2>2, <2>3
  <1>3. CASE ApStart
    <2>1. /\ events # <<>> /\ Head(events) = "AP_START" /\ events' = Tail(events)
          /\ ~waiting
          /\ UNCHANGED <<nvs, saving, mode, link, haveconninfo, waiting, parms,
                         client, submitted>>
      BY <1>3 DEF ApStart, Handling
    <2>2. restart_wifi' => restart_wifi \/ haveconninfo
      BY <1>3 DEF ApStart, AsAccessPoint, setnextcmd
    <2>3. CASE submitted
      BY <2>1, <2>2, <2>3 DEF OrderlyInv
    <2>4. CASE ~submitted
      <3>1. mode = "AP" /\ events = <<"AP_START">> /\ link = "idle" /\ ClientInv
        BY <1>0, <1>q, <2>1, <2>4
        DEF OrderlyInv, ModeOrderly, OffOrderly, ApOrderly, StaOrderly
      <3>2. events' = <<>>
        BY <1>q, <2>1, <3>1
      <3>3. ModeOrderly'
        BY <2>1, <3>1, <3>2 DEF ModeOrderly, ApOrderly
      <3>4. ClientInv'
        BY <2>1, <3>1 DEF ClientInv
      <3> QED BY <2>1, <2>2, <2>4, <3>3, <3>4 DEF OrderlyInv
    <2> QED BY <2>3, <2>4
  <1>4. CASE StaDisconnected /\ ~StationAborts
    <2>1. /\ ~waiting /\ events # <<>> /\ Head(events) = "STA_DISCONNECTED"
          /\ becomeAccessPoint(Tail(events)) \/ becomeStation(Tail(events))
          /\ UNCHANGED <<nvs, saving, haveconninfo, waiting, parms, client,
                         restart_wifi, submitted>>
      BY <1>4 DEF StaDisconnected, Retry, Handling
    <2>2. CASE submitted
      BY <2>1, <2>2 DEF OrderlyInv
    <2>3. CASE ~submitted
      <3>1. /\ link = "idle" /\ events = <<"STA_DISCONNECTED">> /\ ClientInv
            /\ ~restart_wifi /\ haveconninfo
        BY <1>0, <1>q, <2>1, <2>3
        DEF OrderlyInv, ModeOrderly, OffOrderly, ApOrderly, StaOrderly
      <3>2. /\ ~waiting' /\ ~restart_wifi' /\ haveconninfo'
            /\ becomeAccessPoint(<<>>) \/ becomeStation(<<>>)
        BY <1>q, <2>1, <3>1
      <3>3. ModeOrderly' /\ link' # "connected"
        <4>1. CASE becomeAccessPoint(<<>>)
          <5>1. link' = "idle"
            BY <4>1 DEF becomeAccessPoint
          <5> QED BY <1>a, <3>1, <3>2, <4>1, <5>1
        <4>2. CASE becomeStation(<<>>)
          BY <1>b, <3>1, <3>2, <4>2
        <4> QED BY <3>2, <4>1, <4>2
      <3>4. ClientInv'
        BY <2>1, <3>1, <3>3 DEF ClientInv
      <3> QED BY <2>1, <2>3, <3>1, <3>3, <3>4 DEF OrderlyInv
    <2> QED BY <2>2, <2>3
  \* The end of wifidone(1) starts the client with the stored settings.
  <1>c. ASSUME Connected, ClientInv, haveconninfo, UNCHANGED <<nvs, parms, haveconninfo>>
        PROVE  client' = nvs'.blob.mqtt /\ parms' = nvs'.blob.mqtt /\ ~restart_wifi'
    BY <1>c DEF Connected, ClientInv
  <1>5. CASE StaGotIp
    <2>1. /\ ~waiting /\ events # <<>> /\ Head(events) = "STA_GOT_IP"
          /\ events' = Tail(events)
          /\ UNCHANGED <<nvs, saving, mode, link, haveconninfo, parms, submitted>>
      BY <1>5 DEF StaGotIp, Handling
    <2>2. \/ waiting' /\ UNCHANGED <<client, restart_wifi>>
          \/ ~waiting' /\ Connected
      BY <1>5 DEF StaGotIp
    <2>3. restart_wifi' => restart_wifi
      BY <2>2 DEF Connected
    <2>4. CASE submitted
      BY <2>1, <2>3, <2>4 DEF OrderlyInv
    <2>5. CASE ~submitted
      <3>1. /\ mode = "STA" /\ ClientInv /\ ~restart_wifi /\ haveconninfo
            /\ \/ link = "connected" /\ events = <<"STA_GOT_IP">>
               \/ link = "idle" /\ events = <<"STA_GOT_IP", "STA_DISCONNECTED">>
        BY <1>0, <1>q, <2>1, <2>5
        DEF OrderlyInv, ModeOrderly, OffOrderly, ApOrderly, StaOrderly
      <3>2. \/ link' = "connected" /\ events' = <<>>
            \/ link' = "idle" /\ events' = <<"STA_DISCONNECTED">>
        BY <1>q, <2>1, <3>1
      <3>3. ModeOrderly'
        BY <2>1, <2>3, <3>1, <3>2 DEF ModeOrderly, StaOrderly
      <3>4. ClientInv'
        <4>1. CASE waiting' /\ UNCHANGED <<client, restart_wifi>>
          BY <2>1, <3>1, <4>1 DEF ClientInv
        <4>2. CASE Connected
          <5>1. client' = nvs'.blob.mqtt /\ parms' = nvs'.blob.mqtt
            BY <1>c, <2>1, <3>1, <4>2
          <5> QED BY <5>1 DEF ClientInv
        <4> QED BY <2>2, <4>1, <4>2
      <3> QED BY <2>1, <2>3, <2>5, <3>1, <3>3, <3>4 DEF OrderlyInv
    <2> QED BY <2>4, <2>5
  <1>6. CASE NtpDone
    <2>1. /\ waiting /\ ~waiting' /\ Connected
          /\ UNCHANGED <<nvs, saving, mode, link, events, haveconninfo, parms, submitted>>
      BY <1>6 DEF NtpDone
    <2>2. ~restart_wifi'
      BY <2>1 DEF Connected
    <2>3. CASE submitted
      BY <2>1, <2>2, <2>3 DEF OrderlyInv
    <2>4. CASE ~submitted
      <3>1. /\ mode = "STA" /\ ClientInv /\ ~restart_wifi /\ haveconninfo
            /\ \/ link = "connected" /\ events = <<>>
               \/ link = "idle" /\ events = <<"STA_DISCONNECTED">>
        BY <1>0, <2>1, <2>4
        DEF OrderlyInv, ModeOrderly, OffOrderly, ApOrderly, StaOrderly
      <3>2. ModeOrderly'
        BY <2>1, <2>2, <3>1 DEF ModeOrderly, StaOrderly
      <3>3. client' = nvs'.blob.mqtt /\ parms' = nvs'.blob.mqtt
        BY <1>c, <2>1, <3>1
      <3>4. ClientInv'
        BY <3>3 DEF ClientInv
      <3> QED BY <2>1, <2>2, <2>4, <3>2, <3>4 DEF OrderlyInv
    <2> QED BY <2>3, <2>4
  <1>7. ASSUME UNCHANGED <<nvs, saving, mode, link, events, haveconninfo, waiting,
                           parms, client, restart_wifi, submitted>>
        PROVE  OrderlyInv'
    BY <1>7 DEF OrderlyInv, ModeOrderly, OffOrderly, ApOrderly, StaOrderly, ClientInv
  <1>8. CASE serve_config_page
    <2>1. UNCHANGED <<nvs, saving, mode, link, events, haveconninfo, waiting,
                      parms, client, restart_wifi, submitted>>
      BY <1>8 DEF serve_config_page
    <2> QED BY <1>7, <2>1
  <1>9. CASE configApply
    <2>1. saving /\ ~saving' /\ UNCHANGED <<restart_wifi, submitted>>
      BY <1>9 DEF configApply
    <2>2. haveconninfo => haveconninfo'
      BY <1>9 DEF configApply, bootWiFi2
    <2> QED BY <2>1, <2>2 DEF OrderlyInv
  <1>10. ASSUME NEW c, configSubmit(c) PROVE OrderlyInv'
    <2>1. submitted' /\ UNCHANGED <<restart_wifi, haveconninfo>>
      BY <1>10 DEF configSubmit
    <2> QED BY <2>1 DEF OrderlyInv
  <1>11. ASSUME NEW from, NEW to, NEW ev, DriverStep(from, to, ev),
                <<from, to, ev>> \in {<<"connecting", "connected", "STA_GOT_IP">>,
                                      <<"connecting", "idle", "STA_DISCONNECTED">>,
                                      <<"connected", "idle", "STA_DISCONNECTED">>}
         PROVE  OrderlyInv'
    <2>1. /\ mode = "STA" /\ link = from /\ link' = to /\ events' = Append(events, ev)
          /\ UNCHANGED <<nvs, saving, mode, haveconninfo, waiting, parms, client,
                         restart_wifi, submitted>>
      BY <1>11 DEF DriverStep
    <2>2. CASE submitted
      BY <2>1, <2>2 DEF OrderlyInv
    <2>3. CASE ~submitted
      <3>1. StaOrderly /\ ClientInv
        BY <2>1, <2>3 DEF OrderlyInv, ModeOrderly
      <3>2. CASE /\ from = "connecting" /\ to = "connected" /\ ev = "STA_GOT_IP"
        <4>1. events' = <<"STA_GOT_IP">> /\ ~waiting
          BY <1>q, <2>1, <3>1, <3>2 DEF StaOrderly
        <4>2. StaOrderly' /\ events' # <<>>
          BY <2>1, <3>1, <3>2, <4>1 DEF StaOrderly
        <4> QED BY <2>1, <3>1, <4>2 DEF OrderlyInv, ModeOrderly, ClientInv
      <3>3. CASE to = "idle" /\ ev = "STA_DISCONNECTED" /\ from # "idle"
        <4>1. \/ events' = <<"STA_DISCONNECTED">>
              \/ events' = <<"STA_GOT_IP", "STA_DISCONNECTED">> /\ ~waiting
          BY <1>q, <2>1, <3>1, <3>3 DEF StaOrderly
        <4>2. StaOrderly'
          BY <2>1, <3>1, <3>3, <4>1 DEF StaOrderly
        <4> QED BY <2>1, <3>1, <3>3, <4>2 DEF OrderlyInv, ModeOrderly, ClientInv
      <3> QED BY <1>11, <3>2, <3>3
    <2> QED BY <2>2, <2>3
  <1>12. CASE ConnectSucceeds \/ ConnectFails \/ LinkLost
    BY <1>11, <1>12 DEF ConnectSucceeds, ConnectFails, LinkLost
  <1>13. CASE DelayDisconnect \/ DisconnectDone
    <2>1. UNCHANGED <<nvs, saving, mode, link, events, haveconninfo, waiting,
                      parms, client, restart_wifi, submitted>>
      BY <1>13 DEF DelayDisconnect, DisconnectDone, setnextcmd
    <2> QED BY <1>7, <2>1
  <1>14. CASE UNCHANGED vars
    BY <1>7, <1>14 DEF vars
  <1> QED
    <2>1. restart_station => StationAborts \/ (restart_station /\ ~StationAborts)
      OBVIOUS
    <2>2. StaDisconnected => StationAborts \/ (StaDisconnected /\ ~StationAborts)
      OBVIOUS
    <2> QED BY <1>s, <1>1, <1>2, <1>3, <1>4, <1>5, <1>6, <1>8, <1>9, <1>10, <1>12, <1>13, <1>14,
               <2>1, <2>2 DEF Next

LEMMA OrderlyAlways == Spec => []OrderlyInv
  <1>1. Init => OrderlyInv
    <2> SUFFICES ASSUME Init PROVE OrderlyInv
      OBVIOUS
    <2>1. ~restart_wifi /\ ~saving /\ ~haveconninfo /\ ~waiting
      BY DEF Init, Fresh, restart_wifi
    <2>2. mode = "off" /\ events = <<>> /\ link = "idle" /\ client = None
      BY DEF Init, Fresh
    <2> QED BY <2>1, <2>2 DEF OrderlyInv, ModeOrderly, OffOrderly, ClientInv
  <1>2. TypeOK /\ OrderlyInv /\ [Next]_vars => OrderlyInv'
    BY OrderlyStep
  <1> QED BY <1>1, <1>2, WifiTypeCorrect, PTL DEF Spec

\* As long as no configuration is submitted RESTART_WIFI is only pending for
\* an access point: it never tears down a station at work.
THEOREM RestartSparesStation == Spec => []RestartOnlyAsAp
  <1>1. TypeOK /\ OrderlyInv => RestartOnlyAsAp
    BY DEF TypeOK, OrderlyInv, ModeOrderly, OffOrderly, StaOrderly, RestartOnlyAsAp
  <1> QED BY <1>1, OrderlyAlways, WifiTypeCorrect, PTL

\* Until a configuration is submitted a connected station whose callback has
\* ended runs the MQTT client with the stored settings.
THEOREM ClientHasStoredSettings == Spec => []ClientIsCurrent
  <1>1. OrderlyInv => ClientIsCurrent
    BY DEF OrderlyInv, ClientInv, ClientIsCurrent
  <1> QED BY <1>1, OrderlyAlways, PTL
=============================================================================
