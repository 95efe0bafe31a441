---------------------------- MODULE Eq3GapProofs ----------------------------
(***************************************************************************)
(* Theorems about the scanner of Eq3Gap, for any set of devices and any    *)
(* number of scans.                                                        *)
(***************************************************************************)
EXTENDS Eq3Gap, TLAPS

\* An element appended to a sequence joins its range and nothing else does.
LEMMA AppendRange ==
    ASSUME NEW S, NEW s \in Seq(S), NEW e \in S
    PROVE  Range(Append(s, e)) = Range(s) \cup {e}
  <1> DEFINE t == Append(s, e)
  <1>1. t \in Seq(S) /\ Len(t) = Len(s) + 1 /\ DOMAIN t = 1 .. Len(s) + 1
        /\ DOMAIN s = 1 .. Len(s) /\ Len(s) \in Nat
    OBVIOUS
  <1>2. t[Len(s) + 1] = e /\ \A i \in 1 .. Len(s) : t[i] = s[i]
    OBVIOUS
  <1>3. 1 .. Len(s) + 1 = (1 .. Len(s)) \cup {Len(s) + 1}
    BY <1>1
  <1> HIDE DEF t
  <1>4. Range(t) = Range(s) \cup {e}
    BY <1>1, <1>2, <1>3 DEF Range
  <1> QED BY <1>4 DEF t

\* Appending an element that is not in a sequence repeats nothing.
LEMMA AppendInjective ==
    ASSUME NEW S, NEW s \in Seq(S), NEW e \in S,
           IsInjective(s), e \notin Range(s)
    PROVE  IsInjective(Append(s, e))
  <1> DEFINE t == Append(s, e)
  <1>1. DOMAIN t = 1 .. Len(s) + 1 /\ DOMAIN s = 1 .. Len(s) /\ Len(s) \in Nat
    OBVIOUS
  <1>2. t[Len(s) + 1] = e /\ \A i \in 1 .. Len(s) : t[i] = s[i]
    OBVIOUS
  <1>3. \A i \in 1 .. Len(s) : s[i] # e
    BY <1>1 DEF Range
  <1>4. \A i \in 1 .. Len(s) + 1 : i \in 1 .. Len(s) \/ i = Len(s) + 1
    BY <1>1
  <1> HIDE DEF t
  <1>5. IsInjective(t)
    BY <1>1, <1>2, <1>3, <1>4 DEF IsInjective
  <1> QED BY <1>5 DEF t

\* The web page's pointer stays a pointer when it moves on.
LEMMA WalkForward ==
    ASSUME NEW w \in [on : BOOLEAN, gen : Nat, pos : Nat, asked : Nat]
    PROVE  [w EXCEPT !.pos = @ + 1] \in [on : BOOLEAN, gen : Nat, pos : Nat, asked : Nat]
  OBVIOUS

\* An action preserves the types of all variables.
LEMMA TypeStep == TypeOK /\ [Next]_vars => TypeOK'
  <1> SUFFICES ASSUME TypeOK, [Next]_vars PROVE TypeOK'
    OBVIOUS
  <1> USE DEF TypeOK, listVars, radioVars, mqttVars, scanVars, NoReport
  <1>1. CASE start_scan
    BY <1>1 DEF start_scan
  <1>2. CASE ScanParamSetComplete
    BY <1>2 DEF ScanParamSetComplete, free_found_devices
  <1>3. CASE ScanStartComplete
    <2>1. /\ radio' \in {"idle", "scanning"} /\ seen' \subseteq Devs
          /\ refused' \in BOOLEAN
      <3>1. CASE radio' = "scanning" /\ seen' = {} /\ UNCHANGED refused
        BY <3>1
      <3>2. CASE /\ refused' = (refused \/ radio = "idle")
                 /\ UNCHANGED <<radio, seen>>
        BY <3>2, Zenon
      <3> QED BY <1>3, <3>1, <3>2, Zenon DEF ScanStartComplete
    <2>2. start_owed' \in Nat
      BY <1>3 DEF ScanStartComplete
    <2>3. UNCHANGED <<listVars, gap_scanning, gap_initialised, walk, params_owed,
                      mqttVars, scanVars>>
      BY <1>3, Zenon DEF ScanStartComplete
    <2> QED BY <2>1, <2>2, <2>3
  <1>4. ASSUME NEW d \in Devs, InqResult(d) PROVE TypeOK'
    <2>1. found_devices' \in Seq(Devs) /\ num_devices' \in Nat
      <3>1. CASE d \in Range(found_devices)
        BY <1>4, <3>1 DEF InqResult, add_found_device
      <3>2. CASE d \notin Range(found_devices)
        <4>1. found_devices' = Append(found_devices, d) /\ num_devices' = num_devices + 1
          BY <1>4, <3>2, Zenon DEF InqResult, add_found_device
        <4> QED BY <4>1
      <3> QED BY <3>1, <3>2
    <2>2. seen' \subseteq Devs
      BY <1>4 DEF InqResult
    <2> QED BY <1>4, <2>1, <2>2 DEF InqResult
  <1>5. CASE InqComplete
    <2>1. CASE found_devices = <<>>
      BY <1>5, <2>1 DEF InqComplete
    <2>2. CASE found_devices # <<>>
      <3>1. made' = made + 1 /\ made' \in 1 .. made' /\ published \in Seq(1 .. made')
        BY <1>5, <2>2 DEF InqComplete
      <3>2. published' \in Seq(1 .. made')
        <4>1. Append(published, made') \in Seq(1 .. made')
          BY <3>1
        <4> QED BY <1>5, <2>2, <3>1, <4>1 DEF InqComplete
      <3>3. sending' = made' \/ sending' = sending
        BY <1>5, <2>2 DEF InqComplete
      <3>4. made' \in Nat /\ devlist' \in 0 .. made' /\ sending' \in 0 .. made'
        BY <1>5, <2>2, <3>1, <3>3 DEF InqComplete
      <3> QED BY <1>5, <2>2, <3>2, <3>4 DEF InqComplete
    <2> QED BY <2>1, <2>2
  <1>6. CASE send_device_list
    BY <1>6 DEF send_device_list
  <1>7. CASE serve_device_list
    BY <1>7 DEF serve_device_list
  <1>8. CASE WalkStep
    <2>1. walk' \in [on : BOOLEAN, gen : Nat, pos : Nat, asked : Nat]
      <3>1. [walk EXCEPT !.pos = @ + 1] \in [on : BOOLEAN, gen : Nat, pos : Nat, asked : Nat]
        BY WalkForward
      <3>2. NoWalk \in [on : BOOLEAN, gen : Nat, pos : Nat, asked : Nat]
        BY DEF NoWalk
      <3> QED BY <1>8, <3>1, <3>2 DEF WalkStep
    <2> QED BY <1>8, <2>1 DEF WalkStep
  <1>9. CASE MqttConnected
    BY <1>9 DEF MqttConnected
  <1>10. CASE PublishQueued
    <2>1. published' \in Seq(1 .. made)
      <3>1. CASE devlist = NoReport
        BY <1>10, <3>1 DEF PublishQueued
      <3>2. CASE devlist # NoReport
        <4>1. devlist \in 1 .. made
          BY <3>2
        <4>2. Append(published, devlist) \in Seq(1 .. made)
          BY <4>1
        <4>3. published' = Append(published, devlist)
          BY <1>10, <3>2 DEF PublishQueued
        <4> QED BY <4>2, <4>3
      <3> QED BY <3>1, <3>2
    <2>2. connecting' \in {"no", "publishing"}
      BY <1>10 DEF PublishQueued
    <2> QED BY <1>10, <2>1, <2>2 DEF PublishQueued
  <1>11. CASE DropQueued
    BY <1>11 DEF DropQueued
  <1>12. CASE MqttDisconnected
    BY <1>12 DEF MqttDisconnected
  <1>13. CASE UNCHANGED vars
    BY <1>13 DEF vars
  <1> QED
    BY <1>1, <1>2, <1>3, <1>4, <1>5, <1>6, <1>7, <1>8, <1>9, <1>10, <1>11,
       <1>12, <1>13 DEF Next

\* Type correctness of the scanner and its three tasks: in particular only a
\* real report is published.
THEOREM GapTypeCorrect == Spec => []TypeOK
  <1>1. Init => TypeOK
    <2>1. NoWalk \in [on : BOOLEAN, gen : Nat, pos : Nat, asked : Nat]
      BY DEF NoWalk
    <2>2. <<>> \in Seq(Devs) /\ <<>> \in Seq(1 .. 0)
      OBVIOUS
    <2>3. 0 \in 0 .. 0
      OBVIOUS
    <2> SUFFICES ASSUME Init PROVE TypeOK
      OBVIOUS
    <2>4. /\ made \in Nat /\ devlist \in 0 .. made /\ sending \in 0 .. made
          /\ published \in Seq(1 .. made) /\ found_devices \in Seq(Devs)
      BY <2>2, <2>3 DEF Init, NoReport
    <2>5. /\ gap_scanning \in BOOLEAN /\ gap_initialised \in BOOLEAN
          /\ walk \in [on : BOOLEAN, gen : Nat, pos : Nat, asked : Nat]
          /\ overlapped \in BOOLEAN /\ refused \in BOOLEAN
          /\ radio \in {"idle", "scanning"} /\ repclient \in BOOLEAN
          /\ connecting \in {"no", "begun", "publishing"} /\ seen \subseteq Devs
      BY <2>1 DEF Init
    <2>6. /\ num_devices \in Nat /\ freed \in Nat /\ params_owed \in Nat
          /\ start_owed \in Nat /\ scans \in Nat
      BY DEF Init
    <2> QED BY <2>4, <2>5, <2>6 DEF TypeOK
  <1> QED BY <1>1, TypeStep, PTL DEF Spec

-----------------------------------------------------------------------------
(* The count and the list *)

\* Only two handlers touch the list: one empties it, one appends a device
\* that is not in it.
LEMMA CountStep == TypeOK /\ CountIsLength /\ [Next]_vars => CountIsLength'
  <1> SUFFICES ASSUME TypeOK, CountIsLength, [Next]_vars PROVE CountIsLength'
    OBVIOUS
  <1>1. CASE UNCHANGED <<found_devices, num_devices>>
    BY <1>1 DEF CountIsLength
  <1>2. CASE ScanParamSetComplete
    <2>1. found_devices' = <<>> /\ num_devices' = 0
      BY <1>2 DEF ScanParamSetComplete, free_found_devices
    <2> QED BY <2>1 DEF CountIsLength
  <1>3. ASSUME NEW d \in Devs, InqResult(d) PROVE CountIsLength'
    <2>1. CASE d \in Range(found_devices)
      BY <1>1, <1>3, <2>1 DEF InqResult, add_found_device
    <2>2. CASE d \notin Range(found_devices)
      <3>1. found_devices \in Seq(Devs) /\ IsInjective(found_devices)
        BY DEF TypeOK, CountIsLength, IsInjective
      <3>2. found_devices' = Append(found_devices, d) /\ num_devices' = num_devices + 1
        BY <1>3, <2>2 DEF InqResult, add_found_device
      <3>3. IsInjective(found_devices')
        BY <2>2, <3>1, <3>2, AppendInjective
      <3>4. /\ Len(found_devices') = Len(found_devices) + 1
            /\ DOMAIN found_devices' = 1 .. Len(found_devices')
        BY <3>1, <3>2
      <3> QED BY <3>2, <3>3, <3>4 DEF CountIsLength, IsInjective
    <2> QED BY <2>1, <2>2
  <1>4. \/ UNCHANGED <<found_devices, num_devices>> \/ ScanParamSetComplete
        \/ \E d \in Devs : InqResult(d)
    BY DEF Next, vars, listVars, start_scan, ScanStartComplete, InqComplete,
           send_device_list, serve_device_list, WalkStep, MqttConnected,
           PublishQueued, DropQueued, MqttDisconnected
  <1> QED BY <1>1, <1>2, <1>3, <1>4

\* The buffer that scan_done() allocates from num_devices has room for every
\* device in the list, however scans overlap, fail and are walked.
THEOREM ReportFits == Spec => []CountIsLength
  <1>1. Init => CountIsLength
    BY DEF Init, CountIsLength
  <1> QED BY <1>1, CountStep, GapTypeCorrect, PTL DEF Spec

-----------------------------------------------------------------------------
(* A report is published once *)

\* A report that waits was not published: one in devlist unless connected_cb()
\* has just sent it, one in send_device_list() never, and the two differ.
ReportInv ==
    /\ IsInjective(published)
    /\ devlist # NoReport /\ connecting # "publishing" =>
          devlist \notin Range(published)
    /\ sending # NoReport => sending \notin Range(published) /\ sending # devlist

\* A step keeps waiting reports unpublished.
LEMMA ReportStep == TypeOK /\ ReportInv /\ [Next]_vars => ReportInv'
  <1> SUFFICES ASSUME TypeOK, ReportInv, [Next]_vars PROVE ReportInv'
    OBVIOUS
  <1>0. published \in Seq(1 .. made) /\ made \in Nat
    BY DEF TypeOK
  <1>1. CASE UNCHANGED <<published, devlist, sending, connecting>>
    BY <1>1 DEF ReportInv
  <1>2. CASE InqComplete
    <2>1. CASE found_devices = <<>>
      BY <1>1, <1>2, <2>1 DEF InqComplete, mqttVars
    <2>2. CASE found_devices # <<>>
      <3>1. /\ made' = made + 1 /\ made' \notin Range(published)
            /\ made' # devlist /\ made' # NoReport
        <4>1. made' = made + 1
          BY <1>2, <2>2 DEF InqComplete
        <4>2. Range(published) \subseteq 1 .. made
          BY <1>0 DEF Range
        <4>3. devlist \in 0 .. made
          BY DEF TypeOK
        <4> QED BY <1>0, <4>1, <4>2, <4>3 DEF NoReport
      <3>2. published \in Seq(1 .. made') /\ made' \in 1 .. made'
        BY <1>0, <3>1
      <3>3. UNCHANGED <<devlist, connecting>> /\ sending = NoReport
        BY <1>2, <2>2 DEF InqComplete, BtIdle
      <3>4. CASE repclient
        <4>1. published' = Append(published, made') /\ sending' = NoReport
          BY <1>2, <2>2, <3>3, <3>4 DEF InqComplete
        <4>2. IsInjective(published') /\ Range(published') = Range(published) \cup {made'}
          BY <3>1, <3>2, <4>1, AppendInjective, AppendRange DEF ReportInv
        <4> QED BY <3>1, <3>3, <4>1, <4>2 DEF ReportInv
      <3>5. CASE ~repclient
        <4>1. published' = published /\ sending' = made'
          BY <1>2, <2>2, <3>5 DEF InqComplete
        <4> QED BY <3>1, <3>3, <4>1 DEF ReportInv
      <3> QED BY <3>4, <3>5
    <2> QED BY <2>1, <2>2
  <1>3. CASE send_device_list
    <2>1. /\ devlist' = sending /\ sending' = NoReport /\ sending # NoReport
          /\ UNCHANGED <<published, connecting>>
      BY <1>3 DEF send_device_list
    <2> QED BY <2>1 DEF ReportInv
  <1>4. CASE MqttConnected
    <2>1. /\ UNCHANGED <<published, devlist, sending>>
          /\ connecting = "no" /\ connecting' = "begun"
      BY <1>4 DEF MqttConnected
    <2> QED BY <2>1 DEF ReportInv
  <1>5. CASE PublishQueued
    <2>1. CASE devlist = NoReport
      BY <1>5, <2>1 DEF PublishQueued, ReportInv
    <2>2. CASE devlist # NoReport
      <3>1. /\ published' = Append(published, devlist)
            /\ connecting = "begun" /\ connecting' = "publishing"
            /\ UNCHANGED <<devlist, sending>>
        BY <1>5, <2>2 DEF PublishQueued
      <3>2. devlist \in 1 .. made
        BY <2>2 DEF TypeOK, NoReport
      <3>3. devlist \notin Range(published)
        BY <2>2, <3>1 DEF ReportInv
      <3>4. IsInjective(published') /\ Range(published') = Range(published) \cup {devlist}
        BY <1>0, <3>1, <3>2, <3>3, AppendInjective, AppendRange DEF ReportInv
      <3> QED BY <3>1, <3>4 DEF ReportInv
    <2> QED BY <2>1, <2>2
  <1>6. CASE DropQueued
    <2>1. devlist' = NoReport /\ UNCHANGED <<published, sending>>
      BY <1>6 DEF DropQueued
    <2> QED BY <2>1 DEF ReportInv
  <1>7. \/ UNCHANGED <<published, devlist, sending, connecting>>
        \/ InqComplete \/ send_device_list \/ MqttConnected \/ PublishQueued
        \/ DropQueued
    BY DEF Next, vars, mqttVars, start_scan, ScanParamSetComplete,
           ScanStartComplete, InqResult, serve_device_list, WalkStep,
           MqttDisconnected
  <1> QED BY <1>1, <1>2, <1>3, <1>4, <1>5, <1>6, <1>7

\* Whatever the interleaving of the Bluetooth and MQTT tasks, and however
\* often the broker's connection is lost, no report is published twice.
THEOREM NoReportTwice == Spec => []PublishedOnce
  <1>1. Init => ReportInv
    BY DEF Init, ReportInv, IsInjective
  <1>2. ReportInv => PublishedOnce
    BY DEF ReportInv, PublishedOnce
  <1> QED BY <1>1, <1>2, ReportStep, GapTypeCorrect, PTL DEF Spec

-----------------------------------------------------------------------------
(* The list of a finished scan *)

\* When scans do not overlap at most one of the scanner's three stages is
\* pending, the flag is up while one is, the list is empty from the parameters
\* event to the start of the radio, and it otherwise holds what was heard.
ScanInv ==
    /\ params_owed \in 0 .. 1 /\ start_owed \in 0 .. 1
    /\ params_owed > 0 => start_owed = 0 /\ radio = "idle"
    /\ start_owed > 0 => radio = "idle" /\ found_devices = <<>>
    /\ ScanPending => gap_scanning
    /\ radio = "scanning" \/ ~gap_scanning => Range(found_devices) = seen

\* The empty list holds no device.
LEMMA EmptyRange == Range(<<>>) = {}
  <1>1. DOMAIN <<>> = {}
    OBVIOUS
  <1> QED BY <1>1 DEF Range

\* Overlapping is remembered.
LEMMA OverlapStays == TypeOK /\ [Next]_vars /\ ~overlapped' => ~overlapped
  BY DEF TypeOK, Next, vars, scanVars, start_scan, ScanParamSetComplete,
         ScanStartComplete, InqResult, InqComplete, send_device_list,
         serve_device_list, WalkStep, MqttConnected, PublishQueued, DropQueued,
         MqttDisconnected

\* A step of scans that do not overlap keeps the stages apart.
LEMMA ScanStep == ~overlapped' /\ TypeOK /\ ScanInv /\ [Next]_vars => ScanInv'
  <1> SUFFICES ASSUME ~overlapped', TypeOK, ScanInv, [Next]_vars PROVE ScanInv'
    OBVIOUS
  <1>1. CASE UNCHANGED <<listVars, radioVars, gap_scanning>>
    BY <1>1 DEF ScanInv, ScanPending, listVars, radioVars
  <1>2. CASE start_scan
    <2>1. ~ScanPending
      BY <1>2 DEF start_scan
    <2>2. params_owed = 0 /\ start_owed = 0 /\ radio = "idle"
      BY <2>1 DEF ScanPending, TypeOK
    <2>3. /\ gap_scanning' = TRUE /\ params_owed' = 1
          /\ UNCHANGED <<start_owed, radio, seen, found_devices>>
      BY <1>2, <2>2 DEF start_scan, listVars
    <2> QED BY <2>2, <2>3 DEF ScanInv, ScanPending
  <1>3. CASE ScanParamSetComplete
    <2>1. params_owed = 1 /\ start_owed = 0 /\ radio = "idle" /\ gap_scanning = TRUE
      BY <1>3 DEF ScanParamSetComplete, ScanInv, ScanPending, TypeOK
    <2>2. /\ params_owed' = 0 /\ start_owed' = 1 /\ found_devices' = <<>>
          /\ UNCHANGED <<gap_scanning, radio, seen>>
      BY <1>3, <2>1 DEF ScanParamSetComplete, free_found_devices
    <2> QED BY <2>1, <2>2 DEF ScanInv, ScanPending
  <1>4. CASE ScanStartComplete
    <2>1. /\ start_owed = 1 /\ params_owed = 0 /\ radio = "idle"
          /\ found_devices = <<>> /\ gap_scanning = TRUE
      BY <1>4 DEF ScanStartComplete, ScanInv, ScanPending, TypeOK
    <2>2. start_owed' = 0 /\ UNCHANGED <<found_devices, gap_scanning, params_owed>>
      BY <1>4, <2>1 DEF ScanStartComplete, listVars
    <2>3. (radio' = "scanning" /\ seen' = {}) \/ radio' = "idle"
      BY <1>4, <2>1 DEF ScanStartComplete
    <2> QED BY <2>1, <2>2, <2>3, EmptyRange DEF ScanInv, ScanPending
  <1>5. ASSUME NEW d \in Devs, InqResult(d) PROVE ScanInv'
    <2>1. /\ radio = "scanning" /\ params_owed = 0 /\ start_owed = 0
          /\ UNCHANGED <<gap_scanning, params_owed, start_owed, radio>>
      BY <1>5 DEF InqResult, ScanInv, TypeOK
    <2>2. gap_scanning = TRUE /\ Range(found_devices) = seen
      BY <2>1 DEF ScanInv, ScanPending, TypeOK
    <2>3. Range(found_devices') = seen'
      <3>0. seen' = seen \cup {d} /\ found_devices \in Seq(Devs)
        BY <1>5 DEF InqResult, TypeOK
      <3>1. CASE d \in Range(found_devices)
        BY <1>5, <2>2, <3>0, <3>1 DEF InqResult, add_found_device
      <3>2. CASE d \notin Range(found_devices)
        <4>1. found_devices' = Append(found_devices, d)
          BY <1>5, <3>2 DEF InqResult, add_found_device
        <4>2. Range(found_devices') = Range(found_devices) \cup {d}
          BY <3>0, <4>1, AppendRange
        <4> QED BY <2>2, <3>0, <4>2
      <3> QED BY <3>1, <3>2
    <2> QED BY <2>1, <2>2, <2>3 DEF ScanInv, ScanPending
  <1>6. CASE InqComplete
    <2>1. /\ radio = "scanning" /\ params_owed = 0 /\ start_owed = 0
          /\ radio' = "idle" /\ gap_scanning' = FALSE
          /\ UNCHANGED <<params_owed, start_owed, found_devices, seen>>
      BY <1>6 DEF InqComplete, ScanInv, TypeOK, listVars
    <2> QED BY <2>1 DEF ScanInv, ScanPending
  <1>7. \/ UNCHANGED <<listVars, radioVars, gap_scanning>>
        \/ start_scan \/ ScanParamSetComplete \/ ScanStartComplete
        \/ \E d \in Devs : InqResult(d)
        \/ InqComplete
    BY DEF Next, vars, send_device_list, serve_device_list, WalkStep,
           MqttConnected, PublishQueued, DropQueued, MqttDisconnected
  <1> QED BY <1>1, <1>2, <1>3, <1>4, <1>5, <1>6, <1>7

\* Until scans overlap, the stages are apart.
OrderlyInv == ~overlapped => ScanInv

LEMMA OrderlyAlways == Spec => []OrderlyInv
  <1>1. Init => OrderlyInv
    BY EmptyRange DEF Init, OrderlyInv, ScanInv, ScanPending
  <1>2. TypeOK /\ OrderlyInv /\ [Next]_vars => OrderlyInv'
    BY ScanStep, OverlapStays DEF OrderlyInv
  <1> QED BY <1>1, <1>2, GapTypeCorrect, PTL DEF Spec

\* As long as no scan is requested while one is under way, a list handed out
\* as complete holds exactly the devices its scan heard, also when the radio
\* refuses to start.
THEOREM FinishedListIsExact == Spec => []ListIsTheScan
  <1>1. OrderlyInv => ListIsTheScan
    BY DEF OrderlyInv, ScanInv, ListIsTheScan
  <1> QED BY <1>1, OrderlyAlways, PTL

\* As long as no scan is requested while one is under way, a list handed out
\* as complete is not being filled.
THEOREM NoScanBehindACompleteList == Spec => []CompleteMeansComplete
  <1>1. OrderlyInv => CompleteMeansComplete
    BY DEF OrderlyInv, ScanInv, CompleteMeansComplete
  <1> QED BY <1>1, OrderlyAlways, PTL

\* A walk was asked for no later than now; without a scan requested since,
\* its list is alive and no scan is pending that could free it.
WalkInv ==
    Walking =>
        /\ walk.asked <= scans
        /\ walk.asked = scans /\ ~overlapped
              => walk.gen = freed /\ ~ScanPending

\* A step keeps a walked list alive unless it is a request for a scan.
LEMMA WalkInvStep ==
    TypeOK /\ OrderlyInv /\ WalkInv /\ [Next]_vars => WalkInv'
  <1> SUFFICES ASSUME TypeOK, OrderlyInv, WalkInv, [Next]_vars PROVE WalkInv'
    OBVIOUS
  <1>0. scans \in Nat /\ walk.asked \in Nat
    BY DEF TypeOK
  <1>1. CASE UNCHANGED <<walk, freed, scans, overlapped>> /\ (ScanPending' => ScanPending)
    BY <1>1 DEF WalkInv, Walking
  <1>2. CASE start_scan
    <2>1. scans' = scans + 1 /\ UNCHANGED walk
      BY <1>2 DEF start_scan
    <2> QED BY <1>0, <2>1 DEF WalkInv, Walking
  <1>3. CASE ScanParamSetComplete
    <2>1. ScanPending /\ UNCHANGED <<walk, scans, overlapped>>
      BY <1>3 DEF ScanParamSetComplete, ScanPending, scanVars
    <2> QED BY <2>1 DEF WalkInv, Walking
  <1>4. CASE ScanStartComplete
    <2>1. ScanPending /\ UNCHANGED <<walk, scans, overlapped>>
      BY <1>4 DEF ScanStartComplete, ScanPending, scanVars
    <2> QED BY <2>1 DEF WalkInv, Walking
  <1>5. CASE serve_device_list
    <2>1. /\ walk'.asked = scans /\ walk'.gen = freed /\ ~gap_scanning
          /\ UNCHANGED <<freed, scans, overlapped, params_owed, start_owed, radio>>
      BY <1>5 DEF serve_device_list, listVars, radioVars, scanVars
    <2>2. ~overlapped => ~ScanPending
      BY <2>1 DEF OrderlyInv, ScanInv
    <2>3. ScanPending' <=> ScanPending
      BY <2>1 DEF ScanPending
    <2> QED BY <1>0, <2>1, <2>2, <2>3 DEF WalkInv
  <1>6. CASE WalkStep
    <2>1. /\ walk' = [walk EXCEPT !.pos = @ + 1] \/ walk' = NoWalk
          /\ UNCHANGED <<freed, scans, overlapped, params_owed, start_owed, radio>>
      BY <1>6 DEF WalkStep, listVars, radioVars, scanVars
    <2>2. walk'.on => walk.on /\ walk'.asked = walk.asked /\ walk'.gen = walk.gen
      <3>1. walk \in [on : BOOLEAN, gen : Nat, pos : Nat, asked : Nat]
        BY DEF TypeOK
      <3> QED BY <2>1, <3>1 DEF NoWalk
    <2>3. ScanPending' <=> ScanPending
      BY <2>1 DEF ScanPending
    <2> QED BY <2>1, <2>2, <2>3 DEF WalkInv, Walking
  <1>7. ASSUME NEW d \in Devs, InqResult(d) PROVE WalkInv'
    <2>1. UNCHANGED <<walk, freed, scans, overlapped, params_owed, start_owed, radio>>
      BY <1>7 DEF InqResult, scanVars
    <2> QED BY <1>1, <2>1 DEF ScanPending
  <1>8. CASE InqComplete
    <2>1. /\ UNCHANGED <<walk, freed, scans, overlapped, params_owed, start_owed>>
          /\ radio = "scanning"
      BY <1>8 DEF InqComplete, listVars, scanVars
    <2> QED BY <1>1, <2>1 DEF ScanPending
  <1>9. CASE UNCHANGED <<walk, listVars, radioVars, scanVars>>
    BY <1>1, <1>9 DEF listVars, radioVars, scanVars, ScanPending
  <1>10. \/ UNCHANGED <<walk, listVars, radioVars, scanVars>>
         \/ start_scan \/ ScanParamSetComplete \/ ScanStartComplete
         \/ \E d \in Devs : InqResult(d)
         \/ InqComplete \/ serve_device_list \/ WalkStep
    BY DEF Next, vars, send_device_list, MqttConnected, PublishQueued,
           DropQueued, MqttDisconnected
  <1> QED BY <1>2, <1>3, <1>4, <1>5, <1>6, <1>7, <1>8, <1>9, <1>10

\* The rule the source gives to those who parse the list is enough: without a
\* call of start_scan() during the walk, and without overlapping scans, no
\* scan requested earlier frees the list under the web page.
THEOREM WalkRuleSuffices == Spec => []WalkedListIsAlive
  <1>1. Init => WalkInv
    BY DEF Init, WalkInv, Walking, NoWalk
  <1>2. WalkInv => WalkedListIsAlive
    BY DEF WalkInv, WalkedListIsAlive
  <1> QED BY <1>1, <1>2, WalkInvStep, OrderlyAlways, GapTypeCorrect, PTL DEF Spec
=============================================================================
