-------------------------- MODULE Eq3EngineProofs --------------------------
(* Theorems about Eq3Engine, for every value of its constants. *)
EXTENDS Eq3Engine, TLAPS

\* enqueue_command keeps a list of commands.
LEMMA EnqueueType ==
    ASSUME NEW q \in Seq(Command), NEW new \in Command
    PROVE  enqueue_command(q, new) \in Seq(Command)
  BY DEF enqueue_command

\* A command that is requeued keeps its type.
LEMMA RetryType ==
    ASSUME NEW h \in Command, h.retries - 1 > 0
    PROVE  [h EXCEPT !.retries = @ - 1] \in Command
<1>1. h.retries - 1 \in 1 .. MAX_CMD_RETRIES
  BY EngineAssumption DEF Command
<1> QED  BY <1>1 DEF Command

\* A failure leaves only commands with a retry left in the queue.
LEMMA FailureType ==
    ASSUME NEW q \in Seq(Command)
    PROVE  QueueAfterFailure(q) \in Seq(Command)
<1>1. CASE q = <<>>
  BY <1>1 DEF QueueAfterFailure
<1>2. CASE q # <<>>
  <2>1. Head(q) \in Command /\ Tail(q) \in Seq(Command)
    BY <1>2
  <2>2. CASE Head(q).retries - 1 <= 0
    BY <1>2, <2>1, <2>2 DEF QueueAfterFailure
  <2>3. CASE ~(Head(q).retries - 1 <= 0)
    <3>1. Head(q).retries - 1 > 0
      BY <2>1, <2>3, EngineAssumption DEF Command
    <3>2. [Head(q) EXCEPT !.retries = @ - 1] \in Command
      BY <2>1, <3>1, RetryType
    <3> QED  BY <1>2, <2>1, <2>3, <3>2 DEF QueueAfterFailure
  <2> QED  BY <2>2, <2>3
<1> QED  BY <1>1, <1>2

\* Removing the head leaves a queue of commands.
LEMMA SuccessType ==
    ASSUME NEW q \in Seq(Command)
    PROVE  QueueAfterSuccess(q) \in Seq(Command)
  BY DEF QueueAfterSuccess

\* The state of app_main() before its loop is well typed.
LEMMA InitType == Init => TypeOK
<1> SUFFICES ASSUME Init PROVE TypeOK
  OBVIOUS
<1>1. cmdqueue \in Seq(Command)
  BY DEF Init
<1>2. nextcmd \in [running : BOOLEAN, cmd : DelayedCmd, countdown : Nat]
  BY EngineAssumption DEF Init, DelayedCmd
<1>3. ble_operation_time \in 0 .. (BLE_OPERATION_TIMEOUT - 1)
  BY EngineAssumption DEF Init
<1> QED  BY <1>1, <1>2, <1>3 DEF Init, TypeOK, NoMsg

\* What a verdict on a command writes has its type.
VerdictTyped ==
    /\ cmdqueue' \in Seq(Command) /\ uncharged' \in BOOLEAN
    /\ nextcmd' \in [running : BOOLEAN, cmd : DelayedCmd, countdown : Nat]
    /\ outstanding_timer' \in BOOLEAN /\ armed' \in BOOLEAN

PublishTyped ==
    published' \in [kind : {"none", "error", "status"}, trv : Devs \cup {NoDev}]

\* gattc_command_error() keeps the types of all it assigns.
LEMMA ErrorType ==
    ASSUME TypeOK, NEW bleda \in Devs \cup {NoDev}, NEW flag \in BOOLEAN,
           gattc_command_error(bleda, flag)
    PROVE  VerdictTyped /\ PublishTyped
<1>1. cmdqueue' \in Seq(Command) /\ uncharged' \in BOOLEAN
  BY FailureType DEF TypeOK, gattc_command_error, command_complete
<1>2. published' \in [kind : {"none", "error", "status"},
                      trv : Devs \cup {NoDev}]
  BY DEF gattc_command_error, NoMsg
<1>3. nextcmd' \in [running : BOOLEAN, cmd : DelayedCmd, countdown : Nat]
  BY EngineAssumption
  DEF TypeOK, gattc_command_error, setnextcmd, DelayedCmd
<1>4. outstanding_timer' \in BOOLEAN /\ armed' \in BOOLEAN
  BY DEF TypeOK, gattc_command_error, runtimer
<1> QED  BY <1>1, <1>2, <1>3, <1>4 DEF VerdictTyped, PublishTyped

\* So does the success path.
LEMMA DoneType ==
    ASSUME TypeOK, CommandDone
    PROVE  VerdictTyped
<1>1. cmdqueue' \in Seq(Command) /\ uncharged' \in BOOLEAN
  BY SuccessType DEF TypeOK, CommandDone, command_complete
<1>2. nextcmd' \in [running : BOOLEAN, cmd : DelayedCmd, countdown : Nat]
  BY EngineAssumption DEF TypeOK, CommandDone, setnextcmd, DelayedCmd
<1>3. outstanding_timer' \in BOOLEAN /\ armed' \in BOOLEAN
  BY DEF TypeOK, CommandDone, runtimer
<1> QED  BY <1>1, <1>2, <1>3 DEF VerdictTyped

-----------------------------------------------------------------------------
(* The cases of a step.  The requests of the chain of events only differ in  *)
(* the event that answers them; a DISCONNECT event has three causes.         *)

Asked == {"MTU", "SEARCH", "REG", "WRITE"}

Answerable(d, e) == e \in Asked /\ (e = "MTU" => "OPEN" \notin owed[d])

Ends(d, local) ==
    \/ "DISC" \in owed[d] /\ (local => link[d] = "closing")
    \/ ~local /\ link[d] = "up" /\ "OPEN" \notin owed[d]

RequestStep ==
    \/ \E src \in Sources, d \in Devs, c \in Cmds, j \in Junk :
          handle_request(src, d, c, j)
    \/ schedule_reboot

EventStep ==
    \/ \E d \in Devs : ConnectEvt(d) \/ OpenEvtOk(d) \/ OpenEvtFail(d)
    \/ \E d \in Devs, ok \in BOOLEAN : CloseEvt(d, ok)
    \/ \E d \in Devs, e \in Asked : Answerable(d, e) /\ RequestFailed(d, e)
    \/ \E d \in Devs, e \in Asked, more \in SUBSET {"SEARCH", "REG", "NOTIFY"} :
          /\ more # {} \/ "nochar" \in Faults
          /\ Answerable(d, e) /\ RequestDone(d, e, more)
    \/ \E d \in Devs : SearchResEvt(d) \/ SendCommand(d)
    \/ \E d \in Devs, info, ok \in BOOLEAN : NotifyEvt(d, info, ok)
    \/ UnregForNotifyEvt
    \/ \E d \in Devs, local \in BOOLEAN : Ends(d, local) /\ DisconnectEvt(d, local)
    \/ \E d \in Devs, e \in Event : Lose(d, e)

WifiStep == WifiApStart \/ WifiConnected \/ WifiLost \/ ConfigSubmitAp

\* Every step is a request, the alarm, a tick, a Bluetooth event or a WiFi
\* event; the handlers of the chain are grouped by what they ask for.
LEMMA NextCases ==
    ASSUME Next
    PROVE  RequestStep \/ timer_group0_isr \/ MainTick \/ EventStep \/ WifiStep
<1>1. ASSUME NEW d \in Devs, StackAnswer(d)  PROVE EventStep
  <2>1. CASE ConnectEvt(d) \/ OpenEvtOk(d) \/ OpenEvtFail(d)
    BY <2>1 DEF EventStep
  <2>2. CASE \E ok \in BOOLEAN : CloseEvt(d, ok)
    BY <2>2 DEF EventStep
  <2>3. CASE CfgMtuEvt(d)
    <3>1. CASE RequestFailed(d, "MTU")
      BY <2>3, <3>1 DEF EventStep, CfgMtuEvt, Asked, Answerable
    <3>2. CASE RequestDone(d, "MTU", {"SEARCH"})
      <4> {"SEARCH"} \in SUBSET {"SEARCH", "REG", "NOTIFY"}
        OBVIOUS
      <4> QED  BY <2>3, <3>2 DEF EventStep, CfgMtuEvt, Asked, Answerable
    <3> QED  BY <2>3, <3>1, <3>2 DEF CfgMtuEvt
  <2>4. CASE SearchCmplEvt(d)
    <3>1. CASE RequestFailed(d, "SEARCH")
      BY <3>1 DEF EventStep, Asked, Answerable
    <3>2. CASE RequestDone(d, "SEARCH", {"REG"})
      <4> {"REG"} \in SUBSET {"SEARCH", "REG", "NOTIFY"}
        OBVIOUS
      <4> QED  BY <3>2 DEF EventStep, Asked, Answerable
    <3>3. CASE "nochar" \in Faults /\ RequestDone(d, "SEARCH", {})
      <4> {} \in SUBSET {"SEARCH", "REG", "NOTIFY"}
        OBVIOUS
      <4> QED  BY <3>3 DEF EventStep, Asked, Answerable
    <3> QED  BY <2>4, <3>1, <3>2, <3>3 DEF SearchCmplEvt
  <2>5. CASE RegForNotifyEvt(d)
    <3>1. CASE RequestFailed(d, "REG")
      BY <3>1 DEF EventStep, Asked, Answerable
    <3> QED  BY <2>5, <3>1 DEF RegForNotifyEvt, EventStep
  <2>6. CASE WriteCharEvt(d)
    <3>1. CASE RequestFailed(d, "WRITE")
      BY <3>1 DEF EventStep, Asked, Answerable
    <3>2. CASE RequestDone(d, "WRITE", {"NOTIFY"})
      <4> {"NOTIFY"} \in SUBSET {"SEARCH", "REG", "NOTIFY"}
        OBVIOUS
      <4> QED  BY <3>2 DEF EventStep, Asked, Answerable
    <3> QED  BY <2>6, <3>1, <3>2 DEF WriteCharEvt
  <2>7. CASE DisconnectOwed(d)
    BY <2>7 DEF DisconnectOwed, EventStep, Ends, Deliver
  <2>8. CASE \E info, ok \in BOOLEAN : NotifyEvt(d, info, ok)
    BY <2>8 DEF EventStep
  <2> QED  BY <1>1, <2>1, <2>2, <2>3, <2>4, <2>5, <2>6, <2>7, <2>8
           DEF StackAnswer
<1>2. ASSUME NEW d \in Devs, PeerDrop(d)  PROVE EventStep
  BY <1>2 DEF PeerDrop, EventStep, Ends
<1>3. ASSUME NEW d \in Devs, SearchResEvt(d)  PROVE EventStep
  BY <1>3 DEF EventStep
<1>4. ASSUME NEW d \in Devs, NEW e \in Event, Lose(d, e)  PROVE EventStep
  BY <1>4 DEF EventStep
<1>5. UnregForNotifyEvt => EventStep
  BY DEF EventStep
<1> QED  BY <1>1, <1>2, <1>3, <1>4, <1>5 DEF Next, RequestStep, WifiStep

-----------------------------------------------------------------------------
(* Type correctness *)

\* Requests keep the types.
LEMMA RequestStepType == ASSUME TypeOK, RequestStep PROVE TypeOK'
<1>1. ASSUME NEW src \in Sources, NEW d \in Devs, NEW c \in Cmds,
             NEW j \in Junk, handle_request(src, d, c, j)
      PROVE  TypeOK'
  <2>1. [bleda |-> d, cmd |-> c, junk |-> j, retries |-> MAX_CMD_RETRIES,
         tries |-> 0] \in Command
    BY EngineAssumption DEF Command
  <2>2. cmdqueue' \in Seq(Command)
    BY <1>1, <2>1, EnqueueType DEF handle_request, TypeOK
  <2>3. outstanding_timer' \in BOOLEAN /\ armed' \in BOOLEAN
    BY <1>1 DEF TypeOK, handle_request, WakeIfIdle, runtimer
  <2> QED  BY <1>1, <2>2, <2>3
           DEF TypeOK, handle_request, Quiet, NoMsg, opVars, gattVars, stackVars
<1>2. CASE schedule_reboot
  <2>1. outstanding_timer' \in BOOLEAN /\ armed' \in BOOLEAN
    BY <1>2 DEF TypeOK, schedule_reboot, WakeIfIdle, runtimer
  <2> QED  BY <1>2, <2>1
           DEF TypeOK, schedule_reboot, Quiet, NoMsg, queueVars, opVars,
               gattVars, stackVars
<1> QED  BY <1>1, <1>2 DEF RequestStep

\* The alarm and the main loop keep the types.
LEMMA TickStepType ==
    ASSUME TypeOK, timer_group0_isr \/ MainTick PROVE TypeOK'
<1> USE DEF Quiet, NoMsg, queueVars, opVars, gattVars, stackVars, envVars
<1>0. Tick => ticks' \in Nat
  BY DEF TypeOK, Tick
<1>q. Quiet => PublishTyped
  BY DEF PublishTyped
<1>n. NoTimer => outstanding_timer' \in BOOLEAN /\ armed' \in BOOLEAN
  BY DEF TypeOK, NoTimer
<1>1. CASE timer_group0_isr
  <2>1. ticks' \in Nat
    BY <1>1 DEF TypeOK, timer_group0_isr
  <2>2. /\ armed' = FALSE /\ published' = NoMsg
        /\ UNCHANGED <<outstanding_timer, queueVars, opVars, gattVars,
                       stackVars, envVars, nextcmd>>
    BY <1>1 DEF timer_group0_isr
  <2>3. VerdictTyped /\ PublishTyped
    BY <2>2 DEF TypeOK, VerdictTyped, PublishTyped
  <2>4. UNCHANGED <<opVars, gattVars, stackVars, envVars>>
    BY <2>2
  <2> QED  BY <2>1, <2>3, <2>4 DEF TypeOK, VerdictTyped, PublishTyped
<1>2. CASE Countdown
  BY <1>2 DEF TypeOK, Countdown, Tick, runtimer
<1>3. CASE FireDisconnect
  <2>1. /\ link' \in [Devs -> {"down", "opening", "up", "closing"}]
        /\ owed' \in [Devs -> SUBSET Event] /\ unreg_owed' \in BOOLEAN
    BY <1>3 DEF TypeOK, FireDisconnect, esp_ble_gattc_close, Event, Chain
  <2>2. nextcmd' \in [running : BOOLEAN, cmd : DelayedCmd, countdown : Nat]
    BY <1>3 DEF FireDisconnect, Fire, DelayedCmd
  <2> QED  BY <1>3, <2>1, <2>2 DEF TypeOK, FireDisconnect, Fire, Tick, runtimer
<1>4. CASE FireStartWifi
  <2>1. Tick /\ nextcmd' \in [running : BOOLEAN, cmd : DelayedCmd, countdown : Nat]
    BY <1>4 DEF FireStartWifi, Fire, DelayedCmd
  <2>2. wifi' \in {"off", "trying", "ap", "cfgap", "sta"}
    BY <1>4 DEF TypeOK, FireStartWifi
  <2>3. /\ ticks' \in Nat /\ PublishTyped
        /\ outstanding_timer' \in BOOLEAN /\ armed' \in BOOLEAN
    BY <1>0, <1>q, <1>n, <1>4, <2>1 DEF FireStartWifi
  <2>4. UNCHANGED <<queueVars, opVars, gattVars, stackVars, requests,
                    reboot_requested, restarted>>
    BY <1>4 DEF FireStartWifi
  <2> QED  BY <2>1, <2>2, <2>3, <2>4 DEF TypeOK, PublishTyped
<1>5. CASE FireRestartWifi
  <2>1. Tick /\ nextcmd' \in [running : BOOLEAN, cmd : DelayedCmd, countdown : Nat]
    BY <1>5 DEF FireRestartWifi, Fire, DelayedCmd
  <2>2. wifi' \in {"off", "trying", "ap", "cfgap", "sta"}
    BY <1>5 DEF TypeOK, FireRestartWifi
  <2>3. /\ ticks' \in Nat /\ PublishTyped
        /\ outstanding_timer' \in BOOLEAN /\ armed' \in BOOLEAN
    BY <1>0, <1>q, <1>n, <1>5, <2>1 DEF FireRestartWifi
  <2>4. UNCHANGED <<queueVars, opVars, gattVars, stackVars, requests,
                    reboot_requested, restarted>>
    BY <1>5 DEF FireRestartWifi
  <2> QED  BY <2>1, <2>2, <2>3, <2>4 DEF TypeOK, PublishTyped
<1>6. CASE run_command
  <2> DEFINE h == Head(cmdqueue)
  <2>1. h \in Command /\ Tail(cmdqueue) \in Seq(Command)
    BY <1>6 DEF TypeOK, run_command
  <2>2. [h EXCEPT !.tries = @ + 1] \in Command
    BY <2>1 DEF Command
  <2>3. cmdqueue' \in Seq(Command)
    <3> HIDE DEF h
    <3>1. cmdqueue' = <<[h EXCEPT !.tries = @ + 1]>> \o Tail(cmdqueue)
      BY <1>6 DEF run_command, h
    <3>2. <<[h EXCEPT !.tries = @ + 1]>> \in Seq(Command)
      BY <2>2
    <3> QED  BY <2>1, <3>1, <3>2
  <2>4. /\ link' \in [Devs -> {"down", "opening", "up", "closing"}]
        /\ owed' \in [Devs -> SUBSET Event]
        /\ action' \in [cmd : Cmds \cup {NoCmd}, bleda : Devs \cup {NoDev}]
    BY <1>6, <2>1
    DEF TypeOK, run_command, esp_ble_gattc_open, Event, Chain, Command
  <2>5. Tick /\ ble_operation_time' \in 0 .. (BLE_OPERATION_TIMEOUT - 1)
    BY <1>6, EngineAssumption DEF run_command
  <2>6. /\ ticks' \in Nat /\ PublishTyped
        /\ outstanding_timer' \in BOOLEAN /\ armed' \in BOOLEAN
    BY <1>0, <1>q, <1>n, <1>6, <2>5 DEF run_command
  <2>7. /\ in_progress' \in BOOLEAN /\ uncharged' \in BOOLEAN /\ UNCHANGED unreg_owed
        /\ UNCHANGED <<gattVars, envVars, nextcmd>>
    BY <1>6 DEF run_command, esp_ble_gattc_open
  <2> QED  BY <2>3, <2>4, <2>5, <2>6, <2>7 DEF TypeOK, PublishTyped
<1>7. CASE IdleTick
  <2>1. /\ ticks' \in Nat /\ PublishTyped
        /\ outstanding_timer' \in BOOLEAN /\ armed' \in BOOLEAN
    BY <1>0, <1>q, <1>n, <1>7 DEF IdleTick
  <2>2. /\ restarted' = reboot_requested
        /\ UNCHANGED <<queueVars, opVars, gattVars, stackVars, nextcmd,
                       wifi, requests, reboot_requested>>
    BY <1>7 DEF IdleTick
  <2> QED  BY <2>1, <2>2 DEF TypeOK, PublishTyped
<1>8. CASE OperationTick
  <2>1. ble_operation_time' \in 0 .. (BLE_OPERATION_TIMEOUT - 1)
    BY <1>8, EngineAssumption DEF TypeOK, OperationTick
  <2> QED  BY <1>8, <2>1 DEF TypeOK, OperationTick, Tick, runtimer
<1>9. CASE OperationTimeout
  <2>1. action.bleda \in Devs \cup {NoDev}
    BY DEF TypeOK
  <2>2. gattc_command_error(action.bleda, FALSE)
    BY <1>9 DEF OperationTimeout
  <2>3. VerdictTyped /\ PublishTyped
    BY <2>1, <2>2, ErrorType
  <2>4. Tick /\ ble_operation_time' \in 0 .. (BLE_OPERATION_TIMEOUT - 1)
    BY <1>9, EngineAssumption DEF OperationTimeout
  <2>5. UNCHANGED <<action, gattVars, stackVars, envVars>>
    BY <1>9 DEF OperationTimeout
  <2>6. ticks' \in Nat /\ in_progress' \in BOOLEAN
    BY <1>0, <1>9, <2>4 DEF OperationTimeout
  <2> QED  BY <2>3, <2>4, <2>5, <2>6 DEF TypeOK, VerdictTyped, PublishTyped
<1> QED  BY <1>1, <1>2, <1>3, <1>4, <1>5, <1>6, <1>7, <1>8, <1>9 DEF MainTick

\* Bluetooth events keep the types.
LEMMA EventStepType == ASSUME TypeOK, EventStep PROVE TypeOK'
<1> USE DEF Quiet, NoMsg, queueVars, opVars, gattVars, stackVars, envVars,
            Unchanged, Answer, Event, Chain
<1>0. action.bleda \in Devs \cup {NoDev}
  BY DEF TypeOK
<1>1. ASSUME NEW d \in Devs, ConnectEvt(d)  PROVE TypeOK'
  BY <1>1 DEF TypeOK, ConnectEvt
<1>2. ASSUME NEW d \in Devs, OpenEvtOk(d)  PROVE TypeOK'
  BY <1>2 DEF TypeOK, OpenEvtOk
<1>3. ASSUME NEW d \in Devs, OpenEvtFail(d)  PROVE TypeOK'
  <2>1. gattc_command_error(action.bleda, outstanding_timer)
    BY <1>3 DEF OpenEvtFail
  <2>2. VerdictTyped /\ PublishTyped
    BY <1>0, <2>1, ErrorType DEF TypeOK
  <2> QED  BY <1>3, <2>2 DEF TypeOK, OpenEvtFail, VerdictTyped, PublishTyped
<1>4. ASSUME NEW d \in Devs, NEW ok \in BOOLEAN, CloseEvt(d, ok)
      PROVE  TypeOK'
  BY <1>4 DEF TypeOK, CloseEvt, runtimer
<1>5. ASSUME NEW d \in Devs, NEW e \in Asked, RequestFailed(d, e)
      PROVE  TypeOK'
  <2>0. remote_bda \in Devs \cup {NoDev} /\ outstanding_timer \in BOOLEAN
    BY DEF TypeOK
  <2>1. gattc_command_error(remote_bda, outstanding_timer)
    BY <1>5 DEF RequestFailed
  <2>2. VerdictTyped /\ PublishTyped
    BY <2>0, <2>1, ErrorType
  <2> QED  BY <1>5, <2>2 DEF TypeOK, RequestFailed, VerdictTyped, PublishTyped
<1>6. ASSUME NEW d \in Devs, NEW e \in Asked,
             NEW more \in SUBSET {"SEARCH", "REG", "NOTIFY"},
             RequestDone(d, e, more)
      PROVE  TypeOK'
  <2>1. owed' \in [Devs -> SUBSET Event]
    BY <1>6 DEF TypeOK, RequestDone
  <2> QED  BY <1>6, <2>1 DEF TypeOK, RequestDone
<1>7. ASSUME NEW d \in Devs, SearchResEvt(d)  PROVE TypeOK'
  BY <1>7 DEF TypeOK, SearchResEvt
<1>8. ASSUME NEW d \in Devs, SendCommand(d)  PROVE TypeOK'
  BY <1>8 DEF TypeOK, SendCommand
<1>9. ASSUME NEW d \in Devs, NEW info \in BOOLEAN, NEW ok \in BOOLEAN,
             NotifyEvt(d, info, ok)
      PROVE  TypeOK'
  <2>1. /\ owed' \in [Devs -> SUBSET Event]
        /\ published' \in [kind : {"none", "error", "status"},
                           trv : Devs \cup {NoDev}]
    BY <1>9 DEF TypeOK, NotifyEvt
  <2>2. CASE ok
    BY <1>9, <2>1, <2>2 DEF TypeOK, NotifyEvt
  <2>3. CASE ~ok
    <3>1. CommandDone
      BY <1>9, <2>3 DEF NotifyEvt
    <3>2. VerdictTyped
      BY <3>1, DoneType
    <3> QED  BY <1>9, <2>1, <2>3, <3>2 DEF TypeOK, NotifyEvt, VerdictTyped
  <2> QED  BY <2>2, <2>3
<1>10. CASE UnregForNotifyEvt
  <2>1. CommandDone
    BY <1>10 DEF UnregForNotifyEvt
  <2>2. VerdictTyped
    BY <2>1, DoneType
  <2>3. /\ unreg_owed' = FALSE /\ published' = NoMsg
        /\ UNCHANGED <<opVars, gattVars, link, owed, envVars, ticks>>
    BY <1>10 DEF UnregForNotifyEvt
  <2>4. PublishTyped /\ unreg_owed' \in BOOLEAN
    BY <2>3 DEF PublishTyped
  <2>5. UNCHANGED <<opVars, gattVars, link, owed, envVars, ticks>>
    BY <2>3
  <2> HIDE DEF Event, Chain, Quiet, NoMsg, Answer
  <2> QED  BY <2>2, <2>4, <2>5 DEF TypeOK, VerdictTyped, PublishTyped
<1>11. ASSUME NEW d \in Devs, NEW local \in BOOLEAN, DisconnectEvt(d, local)
       PROVE  TypeOK'
  <2>1. /\ link' \in [Devs -> {"down", "opening", "up", "closing"}]
        /\ owed' \in [Devs -> SUBSET Event]
    BY <1>11 DEF TypeOK, DisconnectEvt
  <2>2. CASE local
    <3>1. /\ UNCHANGED <<cmdqueue, uncharged, outstanding_timer, armed, nextcmd>>
          /\ published' = NoMsg
      BY <1>11, <2>2 DEF DisconnectEvt
    <3>2. /\ get_server' = FALSE /\ in_progress' = FALSE
          /\ UNCHANGED <<ble_operation_time, action, connection_open,
                         remote_bda, unreg_owed, envVars, ticks>>
      BY <1>11 DEF DisconnectEvt
    <3>3. VerdictTyped /\ PublishTyped
      BY <3>1 DEF TypeOK, VerdictTyped, PublishTyped
    <3> QED  BY <2>1, <3>2, <3>3 DEF TypeOK, VerdictTyped, PublishTyped
  <2>3. CASE ~local
    <3>1. gattc_command_error(action.bleda, outstanding_timer)
      BY <1>11, <2>3 DEF DisconnectEvt
    <3>2. VerdictTyped /\ PublishTyped
      BY <1>0, <3>1, ErrorType DEF TypeOK
    <3> QED  BY <1>11, <2>1, <3>2
             DEF TypeOK, DisconnectEvt, VerdictTyped, PublishTyped
  <2> QED  BY <2>2, <2>3
<1>12. ASSUME NEW d \in Devs, NEW e \in Event, Lose(d, e)  PROVE TypeOK'
  BY <1>12 DEF TypeOK, Lose
<1> QED  BY <1>1, <1>2, <1>3, <1>4, <1>5, <1>6, <1>7, <1>8, <1>9, <1>10,
            <1>11, <1>12 DEF EventStep

\* WiFi events keep the types.
LEMMA WifiStepType == ASSUME TypeOK, WifiStep PROVE TypeOK'
<1> USE DEF Quiet, NoMsg, timerVars, queueVars, opVars, gattVars, stackVars
<1>1. CASE WifiApStart
  <2>1. nextcmd' \in [running : BOOLEAN, cmd : DelayedCmd, countdown : Nat]
    BY <1>1, EngineAssumption DEF TypeOK, WifiApStart, setnextcmd, DelayedCmd
  <2> QED  BY <1>1, <2>1 DEF TypeOK, WifiApStart, runtimer
<1>2. CASE WifiConnected
  <2>1. nextcmd' \in [running : BOOLEAN, cmd : DelayedCmd, countdown : Nat]
    BY <1>2 DEF TypeOK, WifiConnected, DelayedCmd
  <2> QED  BY <1>2, <2>1 DEF TypeOK, WifiConnected
<1>3. CASE WifiLost
  BY <1>3 DEF TypeOK, WifiLost
<1>4. CASE ConfigSubmitAp
  BY <1>4 DEF TypeOK, ConfigSubmitAp
<1> QED  BY <1>1, <1>2, <1>3, <1>4 DEF WifiStep

\* So does a stuttering step.
LEMMA StutterType == ASSUME TypeOK, UNCHANGED vars PROVE TypeOK'
  BY DEF TypeOK, vars, timerVars, queueVars, opVars, gattVars, stackVars, envVars

\* Whatever the stack, the WiFi driver and the callers of handle_request do,
\* the engine's state keeps its types: no queued command ever has 0 retries
\* left, ble_operation_time stays below BLE_OPERATION_TIMEOUT.
THEOREM TypeCorrect == Spec => []TypeOK
<1>1. Init => TypeOK
  BY InitType
<1>2. TypeOK /\ [Next]_vars => TypeOK'
  BY NextCases, RequestStepType, TickStepType, EventStepType, WifiStepType,
     StutterType
<1> QED  BY <1>1, <1>2, PTL DEF Spec

-----------------------------------------------------------------------------
(* The timer.  Every step treats it in one of five ways. *)

TimerKept    == UNCHANGED timerVars /\ (UNCHANGED nextcmd \/ ~nextcmd'.running)
TimerStarted == ticks' = ticks /\ runtimer(outstanding_timer)
TickRearmed  == Tick /\ runtimer(FALSE)
TickStopped  == Tick /\ NoTimer /\ ~nextcmd'.running

\* Every step treats the timer in one of these five ways.
LEMMA TimerStep ==
    ASSUME TypeOK, Next
    PROVE  TimerKept \/ TimerStarted \/ timer_group0_isr \/ TickRearmed
             \/ TickStopped
<1> USE DEF timerVars
<1>1. CASE RequestStep
  BY <1>1 DEF RequestStep, handle_request, schedule_reboot, WakeIfIdle,
              TimerKept, TimerStarted
<1>2. CASE MainTick
  <2>1. CASE Countdown
    BY <2>1 DEF Countdown, TickRearmed
  <2>2. CASE FireDisconnect
    BY <2>2 DEF FireDisconnect, Fire, TickRearmed
  <2>3. CASE FireStartWifi \/ FireRestartWifi
    BY <2>3 DEF FireStartWifi, FireRestartWifi, Fire, TickStopped
  <2>4. CASE run_command \/ IdleTick
    BY <2>4 DEF run_command, IdleTick, TickStopped
  <2>5. CASE OperationTick
    BY <2>5 DEF OperationTick, TickRearmed
  <2>6. CASE OperationTimeout
    BY <2>6 DEF OperationTimeout, gattc_command_error, TickRearmed
  <2> QED  BY <1>2, <2>1, <2>2, <2>3, <2>4, <2>5, <2>6 DEF MainTick
<1>3. CASE EventStep
  <2> USE DEF Unchanged
  <2>1. ASSUME NEW d \in Devs, ConnectEvt(d) \/ OpenEvtOk(d) \/ SearchResEvt(d)
                                \/ SendCommand(d)
        PROVE  TimerKept
    BY <2>1 DEF ConnectEvt, OpenEvtOk, SearchResEvt, SendCommand, TimerKept
  <2>2. ASSUME NEW d \in Devs, OpenEvtFail(d)  PROVE TimerStarted
    BY <2>2 DEF OpenEvtFail, gattc_command_error, TimerStarted
  <2>3. ASSUME NEW d \in Devs, NEW ok \in BOOLEAN, CloseEvt(d, ok)
        PROVE  TimerStarted
    BY <2>3 DEF CloseEvt, TimerStarted
  <2>4. ASSUME NEW d \in Devs, NEW e \in Asked, RequestFailed(d, e)
        PROVE  TimerStarted
    BY <2>4 DEF RequestFailed, gattc_command_error, TimerStarted
  <2>5. ASSUME NEW d \in Devs, NEW e \in Asked,
               NEW more \in SUBSET {"SEARCH", "REG", "NOTIFY"},
               RequestDone(d, e, more)
        PROVE  TimerKept
    BY <2>5 DEF RequestDone, TimerKept
  <2>6. ASSUME NEW d \in Devs, NEW info \in BOOLEAN, NEW ok \in BOOLEAN,
               NotifyEvt(d, info, ok)
        PROVE  TimerKept \/ TimerStarted
    BY <2>6 DEF NotifyEvt, CommandDone, TimerKept, TimerStarted
  <2>7. UnregForNotifyEvt => TimerStarted
    BY DEF UnregForNotifyEvt, CommandDone, TimerStarted
  <2>8. ASSUME NEW d \in Devs, NEW local \in BOOLEAN, DisconnectEvt(d, local)
        PROVE  TimerKept \/ TimerStarted
    BY <2>8 DEF DisconnectEvt, gattc_command_error, TimerKept, TimerStarted
  <2>9. ASSUME NEW d \in Devs, NEW e \in Event, Lose(d, e)  PROVE TimerKept
    BY <2>9 DEF Lose, TimerKept
  <2> QED  BY <1>3, <2>1, <2>2, <2>3, <2>4, <2>5, <2>6, <2>7, <2>8, <2>9
           DEF EventStep
<1>4. CASE WifiStep
  <2>1. CASE WifiApStart
    BY <2>1 DEF WifiApStart, TimerStarted
  <2>2. CASE WifiConnected
    BY <2>2 DEF TypeOK, WifiConnected, TimerKept
  <2>3. CASE WifiLost \/ ConfigSubmitAp
    BY <2>3 DEF WifiLost, ConfigSubmitAp, TimerKept
  <2> QED  BY <1>4, <2>1, <2>2, <2>3 DEF WifiStep
<1> QED  BY <1>1, <1>2, <1>3, <1>4, NextCases

TimerInv == TypeOK /\ TimerToken /\ DelayedCommandTicks

\* The three parts of TimerInv are inductive together.
LEMMA TimerInductive == TimerInv /\ [Next]_vars => TimerInv'
<1> SUFFICES ASSUME TimerInv, [Next]_vars PROVE TimerInv'
  OBVIOUS
<1> USE DEF TimerInv
<1>1. TypeOK'
  BY NextCases, RequestStepType, TickStepType, EventStepType, WifiStepType,
     StutterType
<1>2. CASE UNCHANGED vars
  BY <1>1, <1>2 DEF vars, timerVars, TimerToken, DelayedCommandTicks
<1>3. CASE Next
  <2>1. CASE TimerKept
    BY <1>1, <2>1 DEF TimerKept, timerVars, TimerToken, DelayedCommandTicks
  <2>2. CASE TimerStarted
    BY <1>1, <2>2 DEF TypeOK, TimerStarted, runtimer, TimerToken,
                      DelayedCommandTicks
  <2>3. CASE timer_group0_isr
    BY <1>1, <2>3 DEF TypeOK, timer_group0_isr, TimerToken, DelayedCommandTicks
  <2>4. CASE TickRearmed
    BY <1>1, <2>4 DEF TypeOK, TickRearmed, Tick, runtimer, TimerToken,
                      DelayedCommandTicks
  <2>5. CASE TickStopped
    BY <1>1, <2>5 DEF TypeOK, TickStopped, Tick, NoTimer, TimerToken,
                      DelayedCommandTicks
  <2> QED  BY <1>3, <2>1, <2>2, <2>3, <2>4, <2>5, TimerStep
<1> QED  BY <1>2, <1>3

\* Hence they hold in every environment.
LEMMA TimerHolds == Spec => []TimerInv
<1>1. Init => TimerInv
  BY InitType DEF Init, TimerInv, TimerToken, DelayedCommandTicks
<1> QED  BY <1>1, TimerInductive, PTL DEF Spec

\* In every environment the flag outstanding_timer tells exactly whether an
\* alarm is armed or its event queued, and at most one event is queued.
THEOREM TimerIsOne == Spec => []TimerToken
<1>1. TimerInv => TimerToken
  BY DEF TimerInv
<1> QED  BY <1>1, TimerHolds, PTL

\* In every environment a pending delayed command has a running timer.
THEOREM DelayedCommandNeverForgotten == Spec => []DelayedCommandTicks
<1>1. TimerInv => DelayedCommandTicks
  BY DEF TimerInv
<1> QED  BY <1>1, TimerHolds, PTL

-----------------------------------------------------------------------------
(* The queue.  Every step treats it in one of four ways. *)

QueueKept == UNCHANGED <<cmdqueue, uncharged, action>>

Enqueued ==
    /\ UNCHANGED <<uncharged, action>>
    /\ \E new \in Command :
          /\ new.tries = 0 /\ new.retries = MAX_CMD_RETRIES
          /\ cmdqueue' = enqueue_command(cmdqueue, new)

Settled ==
    /\ uncharged' = FALSE
    /\ \/ cmdqueue' = QueueAfterSuccess(cmdqueue)
       \/ cmdqueue' = QueueAfterFailure(cmdqueue)

\* No step treats the queue in a fifth way.
LEMMA QueueStep ==
    ASSUME TypeOK, Next
    PROVE  QueueKept \/ Enqueued \/ Settled \/ run_command
<1> USE DEF queueVars, opVars
<1>0. /\ command_complete(TRUE) => Settled
      /\ command_complete(FALSE) => Settled
  BY DEF command_complete, Settled
<1>1. CASE RequestStep
  <2>1. ASSUME NEW src \in Sources, NEW d \in Devs, NEW c \in Cmds,
               NEW j \in Junk, handle_request(src, d, c, j)
        PROVE  Enqueued
    <3> DEFINE new == [bleda |-> d, cmd |-> c, junk |-> j,
                       retries |-> MAX_CMD_RETRIES, tries |-> 0]
    <3>1. new \in Command
      BY EngineAssumption DEF Command
    <3> QED  BY <2>1, <3>1 DEF handle_request, Enqueued
  <2>2. schedule_reboot => QueueKept
    BY DEF schedule_reboot, QueueKept
  <2> QED  BY <1>1, <2>1, <2>2 DEF RequestStep
<1>2. CASE timer_group0_isr
  BY <1>2 DEF timer_group0_isr, QueueKept
<1>3. CASE MainTick
  <2>1. CASE Countdown \/ FireDisconnect \/ IdleTick \/ OperationTick
    BY <2>1 DEF Countdown, FireDisconnect, IdleTick, OperationTick, QueueKept
  <2>2. CASE FireStartWifi \/ FireRestartWifi
    BY <2>2 DEF FireStartWifi, FireRestartWifi, QueueKept
  <2>3. CASE OperationTimeout
    BY <1>0, <2>3 DEF OperationTimeout, gattc_command_error
  <2> QED  BY <1>3, <2>1, <2>2, <2>3 DEF MainTick
<1>4. CASE EventStep
  <2> USE DEF Unchanged
  <2>1. ASSUME NEW d \in Devs, ConnectEvt(d) \/ OpenEvtOk(d) \/ SearchResEvt(d)
                                \/ SendCommand(d)
        PROVE  QueueKept
    BY <2>1 DEF ConnectEvt, OpenEvtOk, SearchResEvt, SendCommand, QueueKept
  <2>2. ASSUME NEW d \in Devs, OpenEvtFail(d)  PROVE Settled
    BY <1>0, <2>2 DEF OpenEvtFail, gattc_command_error
  <2>3. ASSUME NEW d \in Devs, NEW ok \in BOOLEAN, CloseEvt(d, ok)
        PROVE  QueueKept
    BY <2>3 DEF CloseEvt, QueueKept
  <2>4. ASSUME NEW d \in Devs, NEW e \in Asked, RequestFailed(d, e)
        PROVE  Settled
    BY <1>0, <2>4 DEF RequestFailed, gattc_command_error
  <2>5. ASSUME NEW d \in Devs, NEW e \in Asked,
               NEW more \in SUBSET {"SEARCH", "REG", "NOTIFY"},
               RequestDone(d, e, more)
        PROVE  QueueKept
    BY <2>5 DEF RequestDone, QueueKept
  <2>6. ASSUME NEW d \in Devs, NEW info \in BOOLEAN, NEW ok \in BOOLEAN,
               NotifyEvt(d, info, ok)
        PROVE  QueueKept \/ Settled
    BY <1>0, <2>6 DEF NotifyEvt, CommandDone, QueueKept
  <2>7. UnregForNotifyEvt => Settled
    BY <1>0 DEF UnregForNotifyEvt, CommandDone
  <2>8. ASSUME NEW d \in Devs, NEW local \in BOOLEAN, DisconnectEvt(d, local)
        PROVE  QueueKept \/ Settled
    BY <1>0, <2>8 DEF DisconnectEvt, gattc_command_error, QueueKept
  <2>9. ASSUME NEW d \in Devs, NEW e \in Event, Lose(d, e)  PROVE QueueKept
    BY <2>9 DEF Lose, QueueKept
  <2> QED  BY <1>4, <2>1, <2>2, <2>3, <2>4, <2>5, <2>6, <2>7, <2>8, <2>9
           DEF EventStep
<1>5. CASE WifiStep
  BY <1>5 DEF WifiStep, WifiApStart, WifiConnected, WifiLost, ConfigSubmitAp,
              QueueKept
<1> QED  BY <1>1, <1>2, <1>3, <1>4, <1>5, NextCases

\* A command added to a list that is not empty leaves its head alone.
LEMMA EnqueueHead ==
    ASSUME NEW q \in Seq(Command), NEW new \in Command, q # <<>>
    PROVE  /\ enqueue_command(q, new) # <<>>
           /\ Head(enqueue_command(q, new)) = Head(q)
  BY DEF enqueue_command

\* Requests append behind the head, a verdict clears uncharged.
LEMMA VerdictInductive ==
    TypeOK /\ VerdictFindsItsCommand /\ [Next]_vars => VerdictFindsItsCommand'
<1> SUFFICES ASSUME TypeOK, VerdictFindsItsCommand, [Next]_vars
             PROVE  VerdictFindsItsCommand'
  OBVIOUS
<1>1. CASE UNCHANGED vars
  BY <1>1 DEF vars, queueVars, opVars, VerdictFindsItsCommand
<1>2. CASE QueueKept
  BY <1>2 DEF QueueKept, VerdictFindsItsCommand
<1>3. CASE Enqueued
  BY <1>3, EnqueueHead DEF TypeOK, Enqueued, VerdictFindsItsCommand
<1>4. CASE Settled
  BY <1>4 DEF Settled, VerdictFindsItsCommand
<1>5. CASE run_command
  <2> DEFINE h == [Head(cmdqueue) EXCEPT !.tries = @ + 1]
  <2>1. Head(cmdqueue) \in Command /\ Tail(cmdqueue) \in Seq(Command)
    BY <1>5 DEF TypeOK, run_command
  <2>2. h \in Command /\ h.bleda = Head(cmdqueue).bleda
        /\ h.cmd = Head(cmdqueue).cmd
    BY <2>1 DEF Command
  <2>3. cmdqueue' = <<h>> \o Tail(cmdqueue)
    BY <1>5 DEF run_command
  <2>4. cmdqueue' # <<>> /\ Head(cmdqueue') = h
    <3> HIDE DEF h
    <3> QED  BY <2>1, <2>2, <2>3
  <2>5. action'.cmd = Head(cmdqueue).cmd /\ action'.bleda = Head(cmdqueue).bleda
    BY <1>5 DEF run_command
  <2> HIDE DEF h
  <2> QED  BY <2>2, <2>4, <2>5 DEF VerdictFindsItsCommand
<1> QED  BY <1>1, <1>2, <1>3, <1>4, <1>5, QueueStep

\* In every environment, lost and late events included, the first verdict on
\* an attempt settles the command that was sent, not another one.
THEOREM FirstVerdictIsRight == Spec => []VerdictFindsItsCommand
<1>1. Init => VerdictFindsItsCommand
  BY DEF Init, VerdictFindsItsCommand
<1> QED  BY <1>1, TypeCorrect, VerdictInductive, PTL DEF Spec

-----------------------------------------------------------------------------
(* One conversation at a time, when the stack answers every request in time  *)
(* and the station does not fall back to an access point.                    *)

Reliable == Faults = {} /\ ~ApFalls

ConvInv == OneConversation /\ AttemptInv

\* Steps that leave connections, attempts and the delayed command alone.
ConvKept ==
    /\ UNCHANGED <<link, owed, unreg_owed, uncharged, connection_open,
                   remote_bda, in_progress, action>>
    /\ nextcmd'.running = nextcmd.running /\ nextcmd'.cmd = nextcmd.cmd
    /\ outstanding_timer' \/ outstanding_timer' = outstanding_timer
         \/ ~in_progress

\* Such a step keeps the invariant.
LEMMA ConvKeptOK == ASSUME TypeOK, ConvInv, ConvKept PROVE ConvInv'
<1> USE DEF ConvInv, ConvKept
<1>1. OneConversation'
  BY DEF OneConversation, Busy
<1>2. ASSUME NEW d \in Devs PROVE LinkInv(d)'
  <2>1. LinkInv(d) /\ (Busy(d) => in_progress)
    BY DEF AttemptInv, OneConversation
  <2>2. Disconnecting' = Disconnecting
    BY DEF Disconnecting
  <2> QED  BY <2>1, <2>2 DEF LinkInv, Busy
<1>3. /\ (nextcmd.cmd # "RESTART_WIFI")'
      /\ (Disconnecting => ~uncharged)'
      /\ (Starting => ~in_progress /\ ~unreg_owed)'
      /\ (uncharged => in_progress)'
  BY DEF AttemptInv, Disconnecting, Starting
<1> QED  BY <1>1, <1>2, <1>3 DEF AttemptInv

\* A verdict on an operation leads to EQ3_DISCONNECT.
VerdictGiven ==
    /\ uncharged' = FALSE /\ outstanding_timer' = TRUE
    /\ Disconnecting' /\ ~Starting' /\ nextcmd'.cmd # "RESTART_WIFI"

\* After a verdict the delayed command is a disconnect, whether setnextcmd()
\* took it or one was pending.
LEMMA DelayOK ==
    ASSUME TypeOK, AttemptInv, in_progress \/ unreg_owed,
           setnextcmd("EQ3_DISCONNECT", DisconnectDelay)
    PROVE  Disconnecting' /\ ~Starting' /\ nextcmd'.cmd # "RESTART_WIFI"
<1>1. CASE nextcmd.running
  <2>1. nextcmd' = nextcmd /\ nextcmd.cmd = "EQ3_DISCONNECT"
    BY <1>1 DEF TypeOK, AttemptInv, setnextcmd, Starting, DelayedCmd
  <2> QED  BY <1>1, <2>1 DEF Disconnecting, Starting
<1>2. CASE ~nextcmd.running
  BY <1>2 DEF setnextcmd, Disconnecting, Starting
<1> QED  BY <1>1, <1>2

\* A failure is a verdict.
LEMMA ErrorOK ==
    ASSUME TypeOK, AttemptInv, in_progress, NEW b, NEW f,
           gattc_command_error(b, f)
    PROVE  VerdictGiven
<1>1. Disconnecting' /\ ~Starting' /\ nextcmd'.cmd # "RESTART_WIFI"
  BY DelayOK DEF gattc_command_error
<1> QED  BY <1>1 DEF gattc_command_error, command_complete, runtimer, VerdictGiven

\* A success is a verdict.
LEMMA DoneOK ==
    ASSUME TypeOK, AttemptInv, in_progress \/ unreg_owed, CommandDone
    PROVE  VerdictGiven
<1>1. Disconnecting' /\ ~Starting' /\ nextcmd'.cmd # "RESTART_WIFI"
  BY DelayOK DEF CommandDone
<1> QED  BY <1>1 DEF CommandDone, command_complete, runtimer, VerdictGiven

\* The alarm and the main loop keep the invariant: run_command() finds every
\* connection down, and the disconnect finds the attempt settled.
LEMMA ConvTicks ==
    ASSUME Reliable, TypeOK, ConvInv, timer_group0_isr \/ MainTick
    PROVE  ConvInv'
<1> USE DEF queueVars, opVars, gattVars, stackVars, envVars
<1>1. CASE timer_group0_isr
  <2>1. ConvKept
    BY <1>1 DEF timer_group0_isr, ConvKept
  <2> QED  BY <2>1, ConvKeptOK
<1>2. CASE Countdown
  <2>1. ConvKept
    BY <1>2 DEF TypeOK, Countdown, runtimer, ConvKept
  <2> QED  BY <2>1, ConvKeptOK
<1>3. CASE IdleTick
  <2>1. ConvKept
    BY <1>3 DEF IdleTick, ConvKept
  <2> QED  BY <2>1, ConvKeptOK
<1>4. CASE OperationTick
  <2>1. ConvKept
    BY <1>4 DEF OperationTick, runtimer, ConvKept
  <2> QED  BY <2>1, ConvKeptOK
<1>5. CASE FireRestartWifi
  BY <1>5 DEF FireRestartWifi, Fire, ConvInv, AttemptInv
<1>6. CASE FireStartWifi
  <2>1. ~in_progress /\ ~unreg_owed
    BY <1>6 DEF FireStartWifi, Fire, ConvInv, AttemptInv, Starting
  <2>2. /\ UNCHANGED <<link, owed, unreg_owed, uncharged, connection_open,
                       remote_bda, in_progress, action>>
        /\ nextcmd' = [running |-> FALSE, cmd |-> "START_WIFI", countdown |-> 0]
    BY <1>6 DEF FireStartWifi, Fire
  <2>3. \A d \in Devs : ~Busy(d)
    BY <2>1 DEF ConvInv, OneConversation
  <2>4. \A d \in Devs : LinkInv(d)'
    BY <2>2, <2>3 DEF Busy, LinkInv
  <2>5. OneConversation'
    BY <2>2 DEF ConvInv, OneConversation, Busy
  <2> QED  BY <2>1, <2>2, <2>4, <2>5
           DEF ConvInv, AttemptInv, Disconnecting, Starting
<1>7. CASE FireDisconnect
  <2>1. /\ UNCHANGED <<uncharged, connection_open, remote_bda, in_progress,
                       action, unreg_owed>>
        /\ nextcmd' = [running |-> FALSE, cmd |-> "EQ3_DISCONNECT",
                       countdown |-> 0]
        /\ outstanding_timer' = TRUE /\ Disconnecting
    BY <1>7 DEF FireDisconnect, Fire, runtimer, Disconnecting, esp_ble_gattc_close
  <2>2. ~uncharged
    BY <2>1 DEF ConvInv, AttemptInv
  <2>3. \A d \in Devs : "OPEN" \notin owed[d]
    BY <2>2 DEF ConvInv, AttemptInv, LinkInv
  <2>4. CASE UNCHANGED <<link, owed>> /\ \A d \in Devs : link[d] # "up"
    <3>1. \A d \in Devs : LinkInv(d)'
      BY <2>1, <2>2, <2>4 DEF ConvInv, AttemptInv, LinkInv
    <3>2. OneConversation'
      BY <2>1, <2>4 DEF ConvInv, OneConversation, Busy
    <3> QED  BY <2>1, <2>2, <3>1, <3>2
             DEF ConvInv, AttemptInv, Disconnecting, Starting
  <2>5. CASE \E d \in Devs : link[d] = "up"
    <3>1. PICK d \in Devs : link[d] = "up"
      BY <2>5
    <3>2. remote_bda = d /\ connection_open
      BY <2>3, <3>1 DEF ConvInv, AttemptInv, LinkInv
    <3>3. /\ link' = [link EXCEPT ![d] = "closing"]
          /\ owed' = [owed EXCEPT ![d] = (@ \cap {"OPEN"}) \cup {"DISC", "CLOSE"}]
      BY <1>7, <3>1, <3>2 DEF FireDisconnect, esp_ble_gattc_close
    <3>4. Busy(d)
      BY <3>1 DEF Busy
    <3>5. in_progress /\ d = action.bleda
      BY <3>4 DEF ConvInv, OneConversation
    <3>6. OneConversation'
      BY <2>1, <3>3, <3>5 DEF ConvInv, OneConversation, Busy, TypeOK
    <3>7. ASSUME NEW x \in Devs PROVE LinkInv(x)'
      <4>1. CASE x = d
        BY <2>1, <2>2, <2>3, <3>3, <4>1 DEF LinkInv, TypeOK
      <4>2. CASE x # d
        <5>1. ~Busy(x)
          BY <3>5, <4>2 DEF ConvInv, OneConversation
        <5>2. link'[x] = link[x] /\ owed'[x] = owed[x]
          BY <3>3, <4>2 DEF TypeOK
        <5> QED  BY <5>1, <5>2 DEF LinkInv, Busy
      <4> QED  BY <4>1, <4>2
    <3> QED  BY <2>1, <2>2, <3>5, <3>6, <3>7
             DEF ConvInv, AttemptInv, Disconnecting, Starting
  <2>6. CASE \A d \in Devs : link[d] # "up"
    <3>1. UNCHANGED <<link, owed>>
      BY <1>7, <2>6 DEF FireDisconnect, esp_ble_gattc_close
    <3> QED  BY <2>4, <2>6, <3>1
  <2> QED  BY <2>5, <2>6
<1>8. CASE run_command
  <2> DEFINE a == Head(cmdqueue).bleda
  <2>1. /\ ~in_progress /\ ~nextcmd.running /\ ~unreg_owed
        /\ link' = [link EXCEPT ![a] = IF @ = "down" THEN "opening" ELSE @]
        /\ owed' = [owed EXCEPT ![a] = @ \cup {"OPEN"}]
        /\ in_progress' = TRUE /\ uncharged' = TRUE
        /\ action'.bleda = a
        /\ UNCHANGED <<unreg_owed, connection_open, remote_bda, nextcmd>>
    BY <1>8 DEF run_command, esp_ble_gattc_open, Reliable
  <2>2. a \in Devs
    <3>1. Head(cmdqueue) \in Command
      BY <1>8 DEF run_command, TypeOK
    <3> QED  BY <3>1 DEF Command
  <2> HIDE DEF a
  <2>3. \A d \in Devs : link[d] = "down" /\ owed[d] \subseteq {"CLOSE"}
    BY <2>1 DEF ConvInv, OneConversation, Busy
  <2>4. OneConversation'
    BY <2>1, <2>2, <2>3 DEF OneConversation, Busy, TypeOK
  <2>5. ASSUME NEW x \in Devs PROVE LinkInv(x)'
    <3>1. CASE x = a
      BY <2>1, <2>2, <2>3, <3>1 DEF LinkInv, TypeOK
    <3>2. CASE x # a
      <4>1. link'[x] = "down" /\ owed'[x] \subseteq {"CLOSE"}
        BY <2>1, <2>3, <3>2 DEF TypeOK
      <4> QED  BY <4>1 DEF LinkInv
    <3> QED  BY <3>1, <3>2
  <2> QED  BY <2>1, <2>4, <2>5 DEF ConvInv, AttemptInv, Disconnecting, Starting
<1>9. CASE OperationTimeout
  <2>1. /\ in_progress /\ ~nextcmd.running /\ ~unreg_owed
        /\ \A d \in Devs : owed[d] = {}
        /\ in_progress' = FALSE
        /\ UNCHANGED <<action, connection_open, remote_bda, link, owed, unreg_owed>>
        /\ gattc_command_error(action.bleda, FALSE)
    BY <1>9 DEF OperationTimeout, Reliable
  <2>2. VerdictGiven
    BY <2>1, ErrorOK DEF ConvInv
  <2>3. \A d \in Devs : link[d] = "down"
    BY <2>1 DEF ConvInv, AttemptInv, LinkInv, Disconnecting, TypeOK
  <2>4. OneConversation'
    BY <2>1, <2>3 DEF OneConversation, Busy
  <2>5. \A d \in Devs : LinkInv(d)'
    BY <2>1, <2>3 DEF LinkInv
  <2> QED  BY <2>1, <2>2, <2>4, <2>5 DEF ConvInv, AttemptInv, VerdictGiven
<1> QED  BY <1>1, <1>2, <1>3, <1>4, <1>5, <1>6, <1>7, <1>8, <1>9 DEF MainTick

\* Requests do not touch connections.
LEMMA ConvRequests ==
    ASSUME TypeOK, ConvInv, RequestStep PROVE ConvInv'
<1>1. ConvKept
  BY DEF RequestStep, handle_request, schedule_reboot, WakeIfIdle, runtimer,
         queueVars, opVars, gattVars, stackVars, ConvKept
<1> QED  BY <1>1, ConvKeptOK

\* WiFi events do not touch connections.
LEMMA ConvWifi ==
    ASSUME Reliable, TypeOK, ConvInv, WifiStep PROVE ConvInv'
<1>1. ~WifiApStart
  BY DEF Reliable, WifiApStart
<1>2. CASE WifiConnected
  <2>1. nextcmd' = nextcmd
    BY <1>2 DEF WifiConnected, ConvInv, AttemptInv
  <2> QED  BY <1>2, <2>1, ConvKeptOK
           DEF WifiConnected, timerVars, queueVars, opVars, gattVars, stackVars,
               ConvKept
<1>3. CASE WifiLost \/ ConfigSubmitAp
  BY <1>3, ConvKeptOK
  DEF WifiLost, ConfigSubmitAp, timerVars, queueVars, opVars, gattVars,
      stackVars, ConvKept
<1> QED  BY <1>1, <1>2, <1>3 DEF WifiStep

\* In a conversation with d nothing is owed for any other device but a CLOSE.
LEMMA Alone ==
    ASSUME TypeOK, ConvInv, NEW d \in Devs, Busy(d)
    PROVE  /\ in_progress /\ d = action.bleda
           /\ \A x \in Devs \ {d} : link[x] = "down" /\ owed[x] \subseteq {"CLOSE"}
<1>1. in_progress /\ d = action.bleda
  BY DEF ConvInv, OneConversation
<1>2. \A x \in Devs \ {d} : ~Busy(x)
  BY <1>1 DEF ConvInv, OneConversation
<1> QED  BY <1>1, <1>2 DEF Busy

\* Events that change the connection with d only, and give no verdict.
LEMMA ConvLocal ==
    ASSUME TypeOK, ConvInv, NEW d \in Devs, Busy(d),
           \A x \in Devs \ {d} : link'[x] = link[x] /\ owed'[x] = owed[x],
           UNCHANGED <<uncharged, in_progress, action, nextcmd>>,
           ~Starting,
           LinkInv(d)'
    PROVE  ConvInv'
<1>1. /\ in_progress /\ d = action.bleda
      /\ \A x \in Devs \ {d} : link[x] = "down" /\ owed[x] \subseteq {"CLOSE"}
  BY Alone
<1>2. OneConversation'
  BY <1>1 DEF OneConversation, Busy
<1>3. ASSUME NEW x \in Devs PROVE LinkInv(x)'
  <2>1. CASE x # d
    BY <1>1, <2>1 DEF LinkInv
  <2> QED  BY <2>1
<1> QED  BY <1>2, <1>3 DEF ConvInv, AttemptInv, Disconnecting, Starting

\* The same with a verdict: the operation is over or will be disconnected.
LEMMA ConvVerdict ==
    ASSUME TypeOK, ConvInv, NEW d \in Devs, Busy(d),
           \A x \in Devs \ {d} : link'[x] = link[x] /\ owed'[x] = owed[x],
           UNCHANGED action, VerdictGiven,
           Busy(d)' => in_progress' = TRUE,
           LinkInv(d)'
    PROVE  ConvInv'
<1>1. /\ in_progress /\ d = action.bleda
      /\ \A x \in Devs \ {d} : link[x] = "down" /\ owed[x] \subseteq {"CLOSE"}
  BY Alone
<1>2. OneConversation'
  BY <1>1 DEF OneConversation, Busy
<1>3. ASSUME NEW x \in Devs PROVE LinkInv(x)'
  <2>1. CASE x # d
    BY <1>1, <2>1 DEF LinkInv
  <2> QED  BY <2>1
<1> QED  BY <1>2, <1>3 DEF ConvInv, AttemptInv, VerdictGiven

\* A conversation excludes START_WIFI.
LEMMA NotStarting ==
    ASSUME ConvInv, NEW d \in Devs, Busy(d) PROVE ~Starting
  BY DEF ConvInv, OneConversation, AttemptInv

\* Every Bluetooth event keeps the invariant.
LEMMA ConvEvents ==
    ASSUME Reliable, TypeOK, ConvInv, EventStep PROVE ConvInv'
<1> USE DEF Unchanged, queueVars, opVars, gattVars, stackVars, Deliver
<1>0. \A d \in Devs : LinkInv(d)
  BY DEF ConvInv, AttemptInv
<1>1. ASSUME NEW d \in Devs, ConnectEvt(d)  PROVE ConvInv'
  <2>1. Busy(d)
    BY <1>1 DEF ConnectEvt, Busy
  <2>2. LinkInv(d)'
    BY <1>0, <1>1 DEF ConnectEvt, LinkInv, TypeOK
  <2> QED  BY <1>1, <2>1, <2>2, ConvLocal, NotStarting DEF ConnectEvt, TypeOK
<1>2. ASSUME NEW d \in Devs, OpenEvtOk(d)  PROVE ConvInv'
  <2>1. Busy(d)
    BY <1>2 DEF OpenEvtOk, Busy
  <2>2. LinkInv(d)'
    BY <1>0, <1>2 DEF OpenEvtOk, Answer, LinkInv, TypeOK, Disconnecting
  <2> QED  BY <1>2, <2>1, <2>2, ConvLocal, NotStarting
           DEF OpenEvtOk, Answer, TypeOK
<1>3. ASSUME NEW d \in Devs, OpenEvtFail(d)  PROVE ConvInv'
  <2>1. Busy(d) /\ link[d] = "opening"
    BY <1>0, <1>3 DEF OpenEvtFail, Busy, LinkInv
  <2>2. in_progress /\ in_progress' = TRUE
    BY <1>3, <2>1, Alone DEF OpenEvtFail, TypeOK
  <2>3. VerdictGiven
    BY <1>3, <2>2, ErrorOK DEF OpenEvtFail, ConvInv
  <2>4. link'[d] = "down" /\ "OPEN" \notin owed'[d]
    BY <1>3, <2>1 DEF OpenEvtFail, Answer, TypeOK
  <2>5. LinkInv(d)'
    BY <2>4 DEF LinkInv
  <2> QED  BY <1>3, <2>1, <2>2, <2>3, <2>5, ConvVerdict
           DEF OpenEvtFail, Answer, TypeOK
<1>4. ASSUME NEW d \in Devs, NEW ok \in BOOLEAN, CloseEvt(d, ok)
      PROVE  ConvInv'
  <2>1. /\ "CLOSE" \in owed[d] /\ owed' = [owed EXCEPT ![d] = @ \ {"CLOSE"}]
        /\ UNCHANGED <<link, unreg_owed, uncharged, in_progress, action, nextcmd,
                       remote_bda>>
        /\ outstanding_timer' = TRUE
    BY <1>4 DEF CloseEvt, Answer, runtimer
  <2>2. \A x \in Devs : link[x] # "up"
    BY <1>0, <2>1 DEF LinkInv
  <2>3. \A x \in Devs : owed'[x] \ {"CLOSE"} = owed[x] \ {"CLOSE"}
    BY <2>1 DEF TypeOK
  <2>4. OneConversation'
    BY <2>1, <2>3 DEF ConvInv, OneConversation, Busy
  <2>5. ASSUME NEW x \in Devs PROVE LinkInv(x)'
    <3>1. /\ "OPEN" \in owed'[x] <=> "OPEN" \in owed[x]
          /\ "DISC" \in owed'[x] <=> "DISC" \in owed[x]
          /\ owed'[x] \subseteq owed[x]
      BY <2>1 DEF TypeOK
    <3> QED  BY <1>0, <2>1, <2>2, <3>1 DEF LinkInv
  <2> QED  BY <2>1, <2>4, <2>5 DEF ConvInv, AttemptInv, Disconnecting, Starting
<1>5. ASSUME NEW d \in Devs, NEW e \in Asked, Answerable(d, e),
             RequestFailed(d, e)
      PROVE  ConvInv'
  <2>1. Busy(d) /\ link[d] = "up"
    BY <1>5 DEF RequestFailed, Busy
  <2>2. in_progress /\ in_progress' = TRUE
    BY <1>5, <2>1, Alone DEF RequestFailed, TypeOK
  <2>3. VerdictGiven
    BY <1>5, <2>2, ErrorOK DEF RequestFailed, ConvInv
  <2>4. "OPEN" \notin owed[d] /\ connection_open
    BY <1>0, <1>5, <2>1 DEF RequestFailed, Answerable, Asked, LinkInv
  <2>5. LinkInv(d)'
    BY <1>0, <1>5, <2>1, <2>3, <2>4
    DEF RequestFailed, Answer, LinkInv, VerdictGiven, TypeOK
  <2> QED  BY <1>5, <2>1, <2>2, <2>3, <2>5, ConvVerdict
           DEF RequestFailed, Answer, TypeOK
<1>6. ASSUME NEW d \in Devs, NEW e \in Asked,
             NEW more \in SUBSET {"SEARCH", "REG", "NOTIFY"},
             more # {}, Answerable(d, e), RequestDone(d, e, more)
      PROVE  ConvInv'
  <2>1. Busy(d) /\ link[d] = "up"
    BY <1>6 DEF RequestDone, Busy
  <2>2. "OPEN" \notin owed[d] /\ connection_open
    BY <1>0, <1>6, <2>1 DEF RequestDone, Answerable, Asked, LinkInv
  <2>3. owed' = [owed EXCEPT ![d] = (@ \ {e}) \cup more]
    BY <1>6 DEF RequestDone, Answer
  <2>4. owed'[d] # {} /\ "OPEN" \notin owed'[d]
    BY <1>6, <2>2, <2>3 DEF TypeOK
  <2>5. \A x \in Devs : "CLOSE" \notin owed'[x]
    BY <1>0, <2>1, <2>3 DEF LinkInv, TypeOK
  <2>6. LinkInv(d)'
    BY <1>0, <1>6, <2>1, <2>2, <2>4, <2>5 DEF RequestDone, LinkInv
  <2> QED  BY <1>6, <2>1, <2>3, <2>6, ConvLocal, NotStarting
           DEF RequestDone, TypeOK
<1>7. ASSUME NEW d \in Devs, SearchResEvt(d)  PROVE ConvInv'
  <2>1. ConvKept
    BY <1>7 DEF SearchResEvt, ConvKept
  <2> QED  BY <2>1, ConvKeptOK
<1>8. ASSUME NEW d \in Devs, SendCommand(d)  PROVE ConvInv'
  <2>1. Busy(d) /\ link[d] = "up" /\ "REG" \in owed[d]
    BY <1>8 DEF SendCommand, Busy
  <2>2. "OPEN" \notin owed[d] /\ connection_open /\ remote_bda = d
    BY <1>0, <2>1 DEF LinkInv
  <2>3. /\ owed'[d] = (owed[d] \ {"REG"}) \cup {"WRITE"}
        /\ \A x \in Devs \ {d} : owed'[x] = owed[x]
    BY <1>8, <2>2 DEF SendCommand, TypeOK
  <2>4. \A x \in Devs : "CLOSE" \notin owed'[x]
    BY <1>0, <2>1, <2>3 DEF LinkInv
  <2>5. LinkInv(d)'
    BY <1>8, <2>1, <2>2, <2>3, <2>4 DEF SendCommand, LinkInv
  <2> QED  BY <1>8, <2>1, <2>3, <2>5, ConvLocal, NotStarting DEF SendCommand
<1>9. ASSUME NEW d \in Devs, NEW info \in BOOLEAN, NEW ok \in BOOLEAN,
             NotifyEvt(d, info, ok)
      PROVE  ConvInv'
  <2>1. Busy(d) /\ link[d] = "up" /\ "NOTIFY" \in owed[d]
    BY <1>9 DEF NotifyEvt, Busy
  <2>2. "OPEN" \notin owed[d] /\ connection_open /\ remote_bda = d
    BY <1>0, <2>1 DEF LinkInv
  <2>3. /\ owed' = [owed EXCEPT ![d] = @ \ {"NOTIFY"}]
        /\ UNCHANGED <<link, connection_open, remote_bda, in_progress, action>>
    BY <1>9 DEF NotifyEvt, Answer, TypeOK
  <2>4. \A x \in Devs : "CLOSE" \notin owed'[x]
    BY <1>0, <2>1, <2>3 DEF LinkInv, TypeOK
  <2>5. in_progress
    BY <2>1, Alone
  <2>6. CASE ok
    <3>1. unreg_owed' = TRUE /\ UNCHANGED <<uncharged, nextcmd>>
      BY <1>9, <2>6 DEF NotifyEvt
    <3>2. LinkInv(d)'
      BY <2>1, <2>2, <2>3, <2>4, <3>1 DEF LinkInv, TypeOK
    <3> QED  BY <2>1, <2>3, <3>1, <3>2, ConvLocal, NotStarting DEF TypeOK
  <2>7. CASE ~ok
    <3>1. CommandDone
      BY <1>9, <2>7 DEF NotifyEvt
    <3>2. VerdictGiven
      BY <2>5, <3>1, DoneOK DEF ConvInv
    <3>3. LinkInv(d)'
      BY <2>1, <2>2, <2>3, <2>4, <3>2 DEF LinkInv, VerdictGiven, TypeOK
    <3> QED  BY <2>1, <2>3, <2>5, <3>2, <3>3, ConvVerdict DEF TypeOK
  <2> QED  BY <2>6, <2>7
<1>10. CASE UnregForNotifyEvt
  <2>1. /\ unreg_owed /\ unreg_owed' = FALSE /\ CommandDone
        /\ UNCHANGED <<link, owed, connection_open, remote_bda, in_progress,
                       action>>
    BY <1>10 DEF UnregForNotifyEvt
  <2>2. VerdictGiven
    BY <2>1, DoneOK DEF ConvInv
  <2>3. OneConversation'
    BY <2>1 DEF ConvInv, OneConversation, Busy
  <2>4. \A d \in Devs : LinkInv(d)'
    BY <1>0, <2>1, <2>2 DEF LinkInv, VerdictGiven
  <2> QED  BY <2>2, <2>3, <2>4 DEF ConvInv, AttemptInv, VerdictGiven
<1>11. ASSUME NEW d \in Devs, NEW local \in BOOLEAN, Ends(d, local),
              DisconnectEvt(d, local)
       PROVE  ConvInv'
  <2>1. Busy(d) /\ "OPEN" \notin owed[d]
    BY <1>0, <1>11 DEF Ends, Busy, LinkInv
  <2>2. /\ in_progress
        /\ \A x \in Devs \ {d} : link[x] = "down" /\ owed[x] \subseteq {"CLOSE"}
    BY <2>1, Alone
  <2>3. /\ in_progress' = FALSE /\ UNCHANGED action
        /\ link'[d] = "down" /\ owed'[d] \subseteq {"CLOSE"}
        /\ \A x \in Devs \ {d} : link'[x] = link[x] /\ owed'[x] = owed[x]
    BY <1>11, <2>1 DEF DisconnectEvt, TypeOK
  <2>4. LinkInv(d)'
    BY <2>3 DEF LinkInv
  <2>5. CASE local
    <3>1. link[d] = "closing" /\ UNCHANGED <<uncharged, nextcmd>>
      BY <1>11, <2>5 DEF Ends, DisconnectEvt
    <3>2. uncharged' = FALSE
      BY <1>0, <3>1 DEF LinkInv, TypeOK
    <3>3. \A x \in Devs : link'[x] = "down" /\ owed'[x] \subseteq {"CLOSE"}
      BY <2>2, <2>3
    <3>4. OneConversation' /\ \A x \in Devs : LinkInv(x)'
      BY <3>3 DEF OneConversation, Busy, LinkInv
    <3>5. ~Starting
      BY <2>1, NotStarting
    <3> QED  BY <2>3, <3>1, <3>2, <3>4, <3>5
             DEF ConvInv, AttemptInv, Disconnecting, Starting
  <2>6. CASE ~local
    <3>1. VerdictGiven
      BY <1>11, <2>2, <2>6, ErrorOK DEF DisconnectEvt, ConvInv
    <3>2. ~Busy(d)'
      BY <2>3 DEF Busy
    <3> QED  BY <2>1, <2>3, <2>4, <3>1, <3>2, ConvVerdict
  <2> QED  BY <2>5, <2>6
<1>12. ASSUME NEW d \in Devs, NEW e \in Event, Lose(d, e)  PROVE FALSE
  BY <1>12 DEF Lose, Reliable
<1>13. "nochar" \notin Faults
  BY DEF Reliable
<1> QED  BY <1>1, <1>2, <1>3, <1>4, <1>5, <1>6, <1>7, <1>8, <1>9, <1>10,
            <1>11, <1>12, <1>13 DEF EventStep

\* The invariant is inductive.
LEMMA ConvInductive ==
    ASSUME Reliable, TypeOK, ConvInv, [Next]_vars PROVE ConvInv'
<1>1. CASE UNCHANGED vars
  <2>1. ConvKept
    BY <1>1 DEF vars, timerVars, queueVars, opVars, gattVars, stackVars, ConvKept
  <2> QED  BY <2>1, ConvKeptOK
<1> QED  BY <1>1, NextCases, ConvRequests, ConvTicks, ConvEvents, ConvWifi

\* It holds at the start.
LEMMA ConvInit == Init => ConvInv
  BY DEF Init, ConvInv, OneConversation, Busy, AttemptInv, LinkInv, Disconnecting,
         Starting

\* With a stack that answers every request in time, the hub never talks to
\* two valves, nor to one while ble_operation_in_progress is false.
THEOREM OneConversationAtATime ==
    ASSUME Reliable
    PROVE  Spec => []OneConversation
<1>1. TypeOK /\ ConvInv /\ [Next]_vars => ConvInv'
  BY ConvInductive
<1>2. ConvInv => OneConversation
  BY DEF ConvInv
<1> QED  BY <1>1, <1>2, ConvInit, TypeCorrect, PTL DEF Spec

-----------------------------------------------------------------------------
(* Attempts.  An attempt is paid for when it is settled, so Budget allows    *)
(* the head one more while it has no verdict.                                *)

\* The budget of one command, with one more attempt if extra.
Within(c, extra) == c.tries + c.retries <= MAX_CMD_RETRIES + (IF extra THEN 1 ELSE 0)

\* Budget in terms of the head and the rest of the queue.
LEMMA BudgetParts ==
    ASSUME NEW q \in Seq(Command), q # <<>>,
           \A i \in 1 .. Len(q) : Within(q[i], i = 1 /\ uncharged)
    PROVE  /\ Head(q) \in Command /\ Within(Head(q), uncharged)
           /\ Tail(q) \in Seq(Command)
           /\ \A i \in 1 .. Len(Tail(q)) : Within(Tail(q)[i], FALSE)
<1>1. Head(q) = q[1] /\ Head(q) \in Command /\ Tail(q) \in Seq(Command)
      /\ 1 \in 1 .. Len(q)
  OBVIOUS
<1>2. ASSUME NEW i \in 1 .. Len(Tail(q))  PROVE Within(Tail(q)[i], FALSE)
  <2>1. Tail(q)[i] = q[i + 1] /\ i + 1 \in 1 .. Len(q) /\ i + 1 # 1
    OBVIOUS
  <2> QED  BY <2>1 DEF Within
<1>3. Within(Head(q), uncharged)
  BY <1>1 DEF Within
<1> QED  BY <1>1, <1>2, <1>3

\* Every verdict, be it charged to the right command or not, lowers what the
\* head may still cost.
LEMMA BudgetFailure ==
    ASSUME NEW q \in Seq(Command),
           \A i \in 1 .. Len(q) : Within(q[i], i = 1 /\ uncharged)
    PROVE  /\ \A i \in 1 .. Len(QueueAfterFailure(q)) :
                 Within(QueueAfterFailure(q)[i], FALSE)
           /\ \A i \in 1 .. Len(QueueAfterSuccess(q)) :
                 Within(QueueAfterSuccess(q)[i], FALSE)
<1>1. CASE q = <<>>
  BY <1>1 DEF QueueAfterFailure, QueueAfterSuccess
<1>2. CASE q # <<>>
  <2>1. /\ Head(q) \in Command /\ Within(Head(q), uncharged)
        /\ Tail(q) \in Seq(Command)
        /\ \A i \in 1 .. Len(Tail(q)) : Within(Tail(q)[i], FALSE)
    BY <1>2, BudgetParts
  <2> DEFINE h == [Head(q) EXCEPT !.retries = @ - 1]
  <2>2. h.tries = Head(q).tries /\ h.retries = Head(q).retries - 1
        /\ Head(q).tries \in Nat /\ Head(q).retries \in Nat
    BY <2>1, EngineAssumption DEF Command
  <2>3. Within(h, FALSE)
    <3> HIDE DEF h
    <3> QED  BY <2>1, <2>2, EngineAssumption DEF Within
  <2>4. CASE Head(q).retries - 1 <= 0
    BY <1>2, <2>1, <2>4 DEF QueueAfterFailure, QueueAfterSuccess
  <2>5. CASE ~(Head(q).retries - 1 <= 0)
    <3>1. h \in Command
      BY <2>1, <2>2, <2>5, RetryType
    <3>2. QueueAfterFailure(q) = Append(Tail(q), h)
      BY <1>2, <2>5 DEF QueueAfterFailure
    <3> HIDE DEF h
    <3>3. \A i \in 1 .. Len(Append(Tail(q), h)) : Within(Append(Tail(q), h)[i], FALSE)
      <4> DEFINE r == Tail(q)
      <4>1. r \in Seq(Command) /\ \A i \in 1 .. Len(r) : Within(r[i], FALSE)
        BY <2>1
      <4> HIDE DEF r
      <4>2. /\ Len(Append(r, h)) = Len(r) + 1 /\ Append(r, h)[Len(r) + 1] = h
            /\ \A i \in 1 .. Len(r) : Append(r, h)[i] = r[i]
        BY <3>1, <4>1
      <4>3. \A i \in 1 .. Len(r) + 1 : i \in 1 .. Len(r) \/ i = Len(r) + 1
        BY <4>1
      <4>4. \A i \in 1 .. Len(Append(r, h)) : Within(Append(r, h)[i], FALSE)
        BY <2>3, <4>1, <4>2, <4>3
      <4> QED  BY <4>4 DEF r
    <3>4. QueueAfterSuccess(q) = Tail(q)
      BY <1>2 DEF QueueAfterSuccess
    <3> QED  BY <2>1, <3>2, <3>3, <3>4
  <2> QED  BY <2>4, <2>5
<1> QED  BY <1>1, <1>2

\* A command is sent only when the previous attempt was settled (AttemptInv),
\* so the allowance of the head is never used twice.
LEMMA BudgetInductive ==
    ASSUME TypeOK, AttemptInv, Budget, [Next]_vars PROVE Budget'
<1>0. cmdqueue \in Seq(Command)
      /\ \A i \in 1 .. Len(cmdqueue) : Within(cmdqueue[i], i = 1 /\ uncharged)
  BY DEF TypeOK, Budget, Within
<1>1. CASE UNCHANGED <<cmdqueue, uncharged>>
  BY <1>1 DEF Budget
<1>2. CASE Enqueued
  <2>1. PICK new \in Command :
             /\ new.tries = 0 /\ new.retries = MAX_CMD_RETRIES
             /\ cmdqueue' = enqueue_command(cmdqueue, new)
    BY <1>2 DEF Enqueued
  <2>2. uncharged' = uncharged
    BY <1>2 DEF Enqueued
  <2>3. cmdqueue' = cmdqueue \/ cmdqueue' = Append(cmdqueue, new)
    BY <2>1 DEF enqueue_command
  <2>4. Within(new, FALSE) /\ Within(new, TRUE)
    BY <2>1, EngineAssumption DEF Within
  <2>5. CASE cmdqueue' = Append(cmdqueue, new)
    <3>1. ASSUME NEW i \in 1 .. Len(cmdqueue')
          PROVE  Within(cmdqueue'[i], i = 1 /\ uncharged)
      <4>1. CASE i \in 1 .. Len(cmdqueue)
        <5>1. cmdqueue'[i] = cmdqueue[i]
          BY <1>0, <2>5, <4>1
        <5> QED  BY <1>0, <4>1, <5>1
      <4>2. CASE i \notin 1 .. Len(cmdqueue)
        <5>1. cmdqueue'[i] = new
          BY <1>0, <2>5, <4>2
        <5> QED  BY <2>4, <5>1 DEF Within
      <4> QED  BY <4>1, <4>2
    <3> QED  BY <2>2, <3>1 DEF Budget, Within
  <2> QED  BY <1>1, <2>2, <2>3, <2>5
<1>3. CASE Settled
  <2>1. \A i \in 1 .. Len(cmdqueue') : Within(cmdqueue'[i], FALSE)
    BY <1>0, <1>3, BudgetFailure DEF Settled
  <2>2. uncharged' = FALSE
    BY <1>3 DEF Settled
  <2> QED  BY <2>1, <2>2 DEF Budget, Within
<1>4. CASE run_command
  <2> DEFINE h == [Head(cmdqueue) EXCEPT !.tries = @ + 1]
  <2>1. uncharged = FALSE /\ cmdqueue # <<>> /\ uncharged' = TRUE
    BY <1>4 DEF run_command, AttemptInv, TypeOK
  <2>2. /\ Head(cmdqueue) \in Command /\ Within(Head(cmdqueue), FALSE)
        /\ Tail(cmdqueue) \in Seq(Command)
        /\ \A i \in 1 .. Len(Tail(cmdqueue)) : Within(Tail(cmdqueue)[i], FALSE)
    BY <1>0, <2>1, BudgetParts
  <2>3. h \in Command /\ h.tries = Head(cmdqueue).tries + 1
        /\ h.retries = Head(cmdqueue).retries
        /\ Head(cmdqueue).tries \in Nat /\ Head(cmdqueue).retries \in Nat
    <3>1. ASSUME NEW c \in Command
          PROVE  /\ [c EXCEPT !.tries = @ + 1] \in Command
                 /\ [c EXCEPT !.tries = @ + 1].tries = c.tries + 1
                 /\ [c EXCEPT !.tries = @ + 1].retries = c.retries
                 /\ c.tries \in Nat /\ c.retries \in Nat
      BY EngineAssumption DEF Command
    <3> QED  BY <2>2, <3>1
  <2>4. cmdqueue' = <<h>> \o Tail(cmdqueue)
    BY <1>4 DEF run_command
  <2> HIDE DEF h
  <2>5. Within(h, TRUE)
    BY <2>2, <2>3, EngineAssumption DEF Within
  <2>6. ASSUME NEW i \in 1 .. Len(cmdqueue')
        PROVE  Within(cmdqueue'[i], i = 1)
    <3>1. CASE i = 1
      <4>1. cmdqueue'[i] = h
        BY <2>2, <2>3, <2>4, <3>1
      <4> QED  BY <2>5, <3>1, <4>1 DEF Within
    <3>2. CASE i # 1
      <4>1. cmdqueue'[i] = Tail(cmdqueue)[i - 1] /\ i - 1 \in 1 .. Len(Tail(cmdqueue))
        BY <2>2, <2>3, <2>4, <3>2
      <4> QED  BY <2>2, <3>2, <4>1 DEF Within
    <3> QED  BY <3>1, <3>2
  <2> QED  BY <2>1, <2>6 DEF Budget, Within
<1> QED  BY <1>1, <1>2, <1>3, <1>4, QueueStep DEF QueueKept, vars, queueVars

\* With a stack that answers every request in time, no command is sent to its
\* valve more than MAX_CMD_RETRIES times, whatever mixture of failures,
\* dropped connections and requeueing it meets.
THEOREM NoEndlessRetry ==
    ASSUME Reliable
    PROVE  Spec => []AttemptsBounded
<1>1. Init => Budget
  BY DEF Init, Budget
<1>2. TypeOK /\ ConvInv /\ [Next]_vars => ConvInv'
  BY ConvInductive
<1>3. TypeOK /\ ConvInv /\ Budget /\ [Next]_vars => Budget'
  BY BudgetInductive DEF ConvInv
<1>4. TypeOK /\ Budget => AttemptsBounded
  <2> SUFFICES ASSUME TypeOK, Budget, NEW i \in 1 .. Len(cmdqueue)
               PROVE  cmdqueue[i].tries <= MAX_CMD_RETRIES
    BY DEF AttemptsBounded
  <2>1. cmdqueue[i] \in Command
    BY DEF TypeOK
  <2>2. cmdqueue[i].tries \in Nat /\ cmdqueue[i].retries \in 1 .. MAX_CMD_RETRIES
    BY <2>1 DEF Command
  <2>3. cmdqueue[i].tries + cmdqueue[i].retries <= MAX_CMD_RETRIES + 1
    BY <2>2, EngineAssumption DEF Budget
  <2> QED  BY <2>2, <2>3, EngineAssumption
<1> QED  BY <1>1, <1>2, <1>3, <1>4, ConvInit, TypeCorrect, PTL DEF Spec

-----------------------------------------------------------------------------
(* Where commands are written *)

NoNewWrite == \A d \in Devs : "WRITE" \in owed'[d] => "WRITE" \in owed[d]

\* Only REG_FOR_NOTIFY_EVT writes a characteristic.
LEMMA WriteOnlyThere ==
    ASSUME TypeOK, Next
    PROVE  NoNewWrite \/ \E d \in Devs : SendCommand(d)
<1>0. owed \in [Devs -> SUBSET Event]
  BY DEF TypeOK
<1>1. owed' = owed => NoNewWrite
  BY DEF NoNewWrite
<1>2. CASE RequestStep \/ timer_group0_isr \/ WifiStep
  BY <1>1, <1>2 DEF RequestStep, handle_request, schedule_reboot,
     timer_group0_isr, WifiStep, WifiApStart, WifiConnected, WifiLost,
     ConfigSubmitAp, stackVars
<1>3. CASE MainTick
  <2>1. esp_ble_gattc_close => NoNewWrite
    BY <1>0, <1>1 DEF esp_ble_gattc_close, stackVars, NoNewWrite
  <2>2. FireDisconnect => NoNewWrite
    BY <1>1, <2>1 DEF FireDisconnect, stackVars
  <2>3. run_command => NoNewWrite
    BY <1>0 DEF run_command, esp_ble_gattc_open, NoNewWrite
  <2>4. CASE Countdown \/ FireStartWifi \/ FireRestartWifi \/ IdleTick
             \/ OperationTick \/ OperationTimeout
    BY <1>1, <2>4 DEF Countdown, FireStartWifi, FireRestartWifi, IdleTick,
       OperationTick, OperationTimeout, stackVars
  <2> QED  BY <1>3, <2>2, <2>3, <2>4 DEF MainTick
<1>4. CASE EventStep
  <2>0. ASSUME NEW d \in Devs, NEW e, NEW more, "WRITE" \notin more,
               Answer(d, e, more)
        PROVE  NoNewWrite
    BY <1>0, <2>0 DEF Answer, NoNewWrite
  <2>1. ASSUME NEW d \in Devs, ConnectEvt(d)  PROVE NoNewWrite
    BY <1>0, <2>1 DEF ConnectEvt, NoNewWrite
  <2>2. ASSUME NEW d \in Devs, OpenEvtOk(d) \/ OpenEvtFail(d)  PROVE NoNewWrite
    BY <2>0, <2>2 DEF OpenEvtOk, OpenEvtFail
  <2>3. ASSUME NEW d \in Devs, NEW ok \in BOOLEAN, CloseEvt(d, ok)
        PROVE  NoNewWrite
    BY <2>0, <2>3 DEF CloseEvt
  <2>4. ASSUME NEW d \in Devs, NEW e \in Asked, RequestFailed(d, e)
        PROVE  NoNewWrite
    BY <2>0, <2>4 DEF RequestFailed
  <2>5. ASSUME NEW d \in Devs, NEW e \in Asked,
               NEW more \in SUBSET {"SEARCH", "REG", "NOTIFY"},
               RequestDone(d, e, more)
        PROVE  NoNewWrite
    <3>1. "WRITE" \notin more
      OBVIOUS
    <3> QED  BY <2>0, <2>5, <3>1 DEF RequestDone
  <2>6. ASSUME NEW d \in Devs, SearchResEvt(d)  PROVE NoNewWrite
    BY <1>1, <2>6 DEF SearchResEvt, Unchanged, stackVars
  <2>7. ASSUME NEW d \in Devs, NEW info \in BOOLEAN, NEW ok \in BOOLEAN,
               NotifyEvt(d, info, ok)
        PROVE  NoNewWrite
    BY <2>0, <2>7 DEF NotifyEvt
  <2>8. UnregForNotifyEvt => NoNewWrite
    BY <1>1 DEF UnregForNotifyEvt, Unchanged
  <2>9. ASSUME NEW d \in Devs, NEW local \in BOOLEAN, DisconnectEvt(d, local)
        PROVE  NoNewWrite
    BY <1>0, <2>9 DEF DisconnectEvt, NoNewWrite
  <2>10. ASSUME NEW d \in Devs, NEW e \in Event, Lose(d, e)  PROVE NoNewWrite
    BY <2>0, <2>10 DEF Lose
  <2> QED  BY <1>4, <2>1, <2>2, <2>3, <2>4, <2>5, <2>6, <2>7, <2>8, <2>9,
              <2>10 DEF EventStep
<1> QED  BY <1>2, <1>3, <1>4, NextCases

\* With a stack that answers every request in time, a command is written to
\* the valve it was requested for: when REG_FOR_NOTIFY_EVT arrives, conn_id is
\* the connection of the valve current_action names.
THEOREM CommandReachesItsValve ==
    ASSUME Reliable
    PROVE  Spec => WriteToAddressee
<1>1. TypeOK /\ ConvInv /\ [Next]_vars => ConvInv'
  BY ConvInductive
<1> DEFINE Right == \A d \in Devs : "WRITE" \in owed'[d] /\ "WRITE" \notin owed[d]
                                      => d = action.bleda
<1>2. TypeOK /\ ConvInv /\ [Next]_vars => [Right]_vars
  <2> SUFFICES ASSUME TypeOK, ConvInv, Next PROVE Right
    OBVIOUS
  <2>1. CASE NoNewWrite
    BY <2>1 DEF NoNewWrite
  <2>2. ASSUME NEW d \in Devs, SendCommand(d)  PROVE Right
    <3>1. link[d] = "up" /\ remote_bda = d /\ d = action.bleda
      BY <2>2 DEF SendCommand, ConvInv, OneConversation, Busy, AttemptInv, LinkInv
    <3>2. \A x \in Devs \ {d} : owed'[x] = owed[x]
      BY <2>2, <3>1 DEF SendCommand, TypeOK
    <3> QED  BY <3>1, <3>2
  <2> QED  BY <2>1, <2>2, WriteOnlyThere
<1> QED  BY <1>1, <1>2, ConvInit, TypeCorrect, PTL DEF Spec, WriteToAddressee
-----------------------------------------------------------------------------
(* No lost wakeup, in the same environment, when requests only come over the  *)
(* network: a request typed on the UART while START_WIFI counts down would be *)
(* left without a timer.                                                      *)

Networked == Reliable /\ Sources \subseteq {"net"}

\* Nothing is asked of the hub before WiFi was started, and START_WIFI, whose
\* tick does not start the timer again, is not given a second time.
BootInv ==
    /\ Starting => wifi = "off"
    /\ wifi = "off" => cmdqueue = <<>> /\ ~reboot_requested

\* Work keeps the timer or an operation going ...
WantInv ==
    (cmdqueue # <<>> \/ reboot_requested) /\ ~restarted => outstanding_timer \/ in_progress

\* ... and an operation the timer or the stack.  A CLOSE does not count: one
\* can be left of the connection before.
AwakeInv ==
    in_progress => \/ outstanding_timer \/ unreg_owed
                   \/ \E d \in Devs : owed[d] \ {"CLOSE"} # {}

WakeInv == BootInv /\ WantInv /\ AwakeInv

\* The steps that are no requests, as far as BootInv is concerned.
LEMMA WorkOnlyByRequest ==
    ASSUME TypeOK, timer_group0_isr \/ MainTick \/ EventStep \/ WifiStep
    PROVE  reboot_requested' = reboot_requested /\ (cmdqueue = <<>> => cmdqueue' = <<>>)
<1> USE DEF queueVars, envVars, Unchanged
<1>0. ASSUME command_complete(TRUE) \/ command_complete(FALSE), cmdqueue = <<>>
      PROVE  cmdqueue' = <<>>
  BY <1>0 DEF command_complete, QueueAfterSuccess, QueueAfterFailure
<1>1. CASE timer_group0_isr
  BY <1>1 DEF timer_group0_isr
<1>2. CASE MainTick
  <2>1. CASE Countdown \/ FireDisconnect \/ FireStartWifi \/ FireRestartWifi
             \/ IdleTick \/ OperationTick
    BY <2>1 DEF Countdown, FireDisconnect, FireStartWifi, FireRestartWifi,
                IdleTick, OperationTick
  <2>2. CASE run_command
    BY <2>2 DEF run_command
  <2>3. CASE OperationTimeout
    BY <1>0, <2>3 DEF OperationTimeout, gattc_command_error
  <2> QED  BY <1>2, <2>1, <2>2, <2>3 DEF MainTick
<1>3. CASE EventStep
  <2>1. ASSUME NEW d \in Devs, ConnectEvt(d) \/ OpenEvtOk(d) \/ SearchResEvt(d)
                                \/ SendCommand(d)
        PROVE  UNCHANGED <<reboot_requested, cmdqueue>>
    BY <2>1 DEF ConnectEvt, OpenEvtOk, SearchResEvt, SendCommand
  <2>2. ASSUME NEW d \in Devs, OpenEvtFail(d)
        PROVE  UNCHANGED reboot_requested /\ command_complete(FALSE)
    BY <2>2 DEF OpenEvtFail, gattc_command_error
  <2>3. ASSUME NEW d \in Devs, NEW ok \in BOOLEAN, CloseEvt(d, ok)
        PROVE  UNCHANGED <<reboot_requested, cmdqueue>>
    BY <2>3 DEF CloseEvt
  <2>4. ASSUME NEW d \in Devs, NEW e \in Asked, RequestFailed(d, e)
        PROVE  UNCHANGED reboot_requested /\ command_complete(FALSE)
    BY <2>4 DEF RequestFailed, gattc_command_error
  <2>5. ASSUME NEW d \in Devs, NEW e \in Asked,
               NEW more \in SUBSET {"SEARCH", "REG", "NOTIFY"},
               RequestDone(d, e, more)
        PROVE  UNCHANGED <<reboot_requested, cmdqueue>>
    BY <2>5 DEF RequestDone
  <2>6. ASSUME NEW d \in Devs, NEW info \in BOOLEAN, NEW ok \in BOOLEAN,
               NotifyEvt(d, info, ok)
        PROVE  UNCHANGED reboot_requested /\ (UNCHANGED cmdqueue \/ command_complete(TRUE))
    BY <2>6 DEF NotifyEvt, CommandDone
  <2>7. UnregForNotifyEvt => UNCHANGED reboot_requested /\ command_complete(TRUE)
    BY DEF UnregForNotifyEvt, CommandDone
  <2>8. ASSUME NEW d \in Devs, NEW local \in BOOLEAN, DisconnectEvt(d, local)
        PROVE  UNCHANGED reboot_requested /\ (UNCHANGED cmdqueue \/ command_complete(FALSE))
    BY <2>8 DEF DisconnectEvt, gattc_command_error
  <2>9. ASSUME NEW d \in Devs, NEW e \in Event, Lose(d, e)
        PROVE  UNCHANGED <<reboot_requested, cmdqueue>>
    BY <2>9 DEF Lose
  <2> QED  BY <1>0, <1>3, <2>1, <2>2, <2>3, <2>4, <2>5, <2>6, <2>7, <2>8, <2>9
           DEF EventStep
<1>4. CASE WifiStep
  BY <1>4 DEF WifiStep, WifiApStart, WifiConnected, WifiLost, ConfigSubmitAp
<1> QED  BY <1>1, <1>2, <1>3, <1>4

\* setnextcmd() is never called for START_WIFI.
LEMMA SetKeepsStart ==
    ASSUME TypeOK, NEW c \in {"EQ3_DISCONNECT", "RESTART_WIFI"}, NEW t, setnextcmd(c, t)
    PROVE  Starting' => Starting
<1>1. CASE nextcmd.running
  BY <1>1 DEF setnextcmd, Starting
<1>2. CASE ~nextcmd.running
  <2>1. nextcmd'.cmd # "START_WIFI"
    BY <1>2 DEF setnextcmd
  <2> QED  BY <2>1 DEF Starting
<1> QED  BY <1>1, <1>2

\* WiFi is started once, by the tick that ends START_WIFI.
LEMMA StartOnce ==
    ASSUME TypeOK, Next
    PROVE  /\ Starting' => Starting
           /\ wifi' = wifi \/ (wifi' # "off" /\ (wifi # "off" \/ ~Starting'))
<1> USE DEF envVars, Unchanged
<1>0. UNCHANGED nextcmd => (Starting' => Starting)
  BY DEF Starting
<1>1. CASE RequestStep \/ timer_group0_isr
  BY <1>0, <1>1 DEF RequestStep, handle_request, schedule_reboot, timer_group0_isr
<1>2. CASE MainTick
  <2>1. CASE Countdown
    <3>1. nextcmd'.cmd = nextcmd.cmd /\ nextcmd'.running = nextcmd.running
      BY <2>1 DEF TypeOK, Countdown
    <3> QED  BY <2>1, <3>1 DEF Countdown, Starting
  <2>2. CASE FireDisconnect
    <3>1. ~nextcmd'.running
      BY <2>2 DEF FireDisconnect, Fire
    <3> QED  BY <2>2, <3>1 DEF FireDisconnect, Starting
  <2>3. CASE FireStartWifi \/ FireRestartWifi
    <3>1. ~nextcmd'.running
      BY <2>3 DEF FireStartWifi, FireRestartWifi, Fire
    <3>2. wifi' = wifi \/ wifi' # "off"
      BY <2>3 DEF FireStartWifi, FireRestartWifi
    <3> QED  BY <3>1, <3>2 DEF Starting
  <2>4. CASE run_command \/ IdleTick \/ OperationTick
    BY <1>0, <2>4 DEF run_command, IdleTick, OperationTick
  <2>5. CASE OperationTimeout
    BY <2>5, SetKeepsStart DEF OperationTimeout, gattc_command_error
  <2> QED  BY <1>2, <2>1, <2>2, <2>3, <2>4, <2>5 DEF MainTick
<1>3. CASE EventStep
  <2> DEFINE Kept == wifi' = wifi
                     /\ (UNCHANGED nextcmd \/ setnextcmd("EQ3_DISCONNECT", DisconnectDelay))
  <2>1. ASSUME NEW d \in Devs, ConnectEvt(d) \/ OpenEvtOk(d) \/ SearchResEvt(d)
                                \/ SendCommand(d) \/ OpenEvtFail(d)
        PROVE  Kept
    BY <2>1 DEF ConnectEvt, OpenEvtOk, SearchResEvt, SendCommand, OpenEvtFail,
                gattc_command_error
  <2>2. ASSUME NEW d \in Devs, NEW ok \in BOOLEAN, CloseEvt(d, ok)
        PROVE  Kept
    BY <2>2 DEF CloseEvt
  <2>3. ASSUME NEW d \in Devs, NEW e \in Asked, RequestFailed(d, e)
        PROVE  Kept
    BY <2>3 DEF RequestFailed, gattc_command_error
  <2>4. ASSUME NEW d \in Devs, NEW e \in Asked,
               NEW more \in SUBSET {"SEARCH", "REG", "NOTIFY"},
               RequestDone(d, e, more)
        PROVE  Kept
    BY <2>4 DEF RequestDone
  <2>5. ASSUME NEW d \in Devs, NEW info \in BOOLEAN, NEW ok \in BOOLEAN,
               NotifyEvt(d, info, ok)
        PROVE  Kept
    BY <2>5 DEF NotifyEvt, CommandDone
  <2>6. UnregForNotifyEvt => Kept
    BY DEF UnregForNotifyEvt, CommandDone
  <2>7. ASSUME NEW d \in Devs, NEW local \in BOOLEAN, DisconnectEvt(d, local)
        PROVE  Kept
    BY <2>7 DEF DisconnectEvt, gattc_command_error
  <2>8. ASSUME NEW d \in Devs, NEW e \in Event, Lose(d, e)
        PROVE  Kept
    BY <2>8 DEF Lose
  <2>9. Kept
    BY <1>3, <2>1, <2>2, <2>3, <2>4, <2>5, <2>6, <2>7, <2>8 DEF EventStep
  <2> QED  BY <1>0, <2>9, SetKeepsStart
<1>4. CASE WifiStep
  <2>1. wifi # "off" /\ wifi' # "off"
    BY <1>4 DEF WifiStep, WifiApStart, WifiConnected, WifiLost, ConfigSubmitAp
  <2>2. CASE WifiApStart
    BY <2>1, <2>2, SetKeepsStart DEF WifiApStart
  <2>3. CASE WifiConnected
    <3>1. CASE nextcmd.cmd = "RESTART_WIFI"
      <4>1. ~nextcmd'.running
        BY <2>3, <3>1 DEF WifiConnected, TypeOK
      <4> QED  BY <2>1, <4>1 DEF Starting
    <3>2. CASE nextcmd.cmd # "RESTART_WIFI"
      BY <1>0, <2>1, <2>3, <3>2 DEF WifiConnected
    <3> QED  BY <3>1, <3>2
  <2>4. CASE WifiLost \/ ConfigSubmitAp
    BY <1>0, <2>1, <2>4 DEF WifiLost, ConfigSubmitAp
  <2> QED  BY <1>4, <2>2, <2>3, <2>4 DEF WifiStep
<1> QED  BY <1>1, <1>2, <1>3, <1>4, NextCases

\* Hence BootInv is inductive when requests come over the network.
LEMMA BootStep ==
    ASSUME Networked, TypeOK, BootInv, Next PROVE BootInv'
<1>1. /\ Starting' => Starting
      /\ wifi' = wifi \/ (wifi' # "off" /\ (wifi # "off" \/ ~Starting'))
  BY StartOnce
<1>2. wifi' = "off" => cmdqueue' = <<>> /\ ~reboot_requested'
  <2> SUFFICES ASSUME wifi' = "off" PROVE cmdqueue' = <<>> /\ ~reboot_requested'
    OBVIOUS
  <2>1. wifi = "off" /\ cmdqueue = <<>> /\ ~reboot_requested
    BY <1>1 DEF BootInv
  <2>2. ~RequestStep
    BY <2>1 DEF RequestStep, handle_request, schedule_reboot, Reachable, Networked
  <2> QED  BY <2>1, <2>2, NextCases, WorkOnlyByRequest
<1>3. Starting' => wifi' = "off"
  BY <1>1 DEF BootInv
<1> QED  BY <1>2, <1>3 DEF BootInv

\* Ticks leave work with a timer or an operation.
LEMMA WakeTicks ==
    ASSUME Networked, TypeOK, ConvInv, WakeInv, timer_group0_isr \/ MainTick
    PROVE  WantInv' /\ AwakeInv'
<1> USE DEF queueVars, opVars, stackVars, envVars
<1>0. outstanding_timer' = TRUE => WantInv' /\ AwakeInv'
  BY DEF WantInv, AwakeInv
<1>1. CASE timer_group0_isr
  BY <1>1 DEF timer_group0_isr, WakeInv, WantInv, AwakeInv
<1>2. CASE Countdown \/ FireDisconnect \/ OperationTick
  BY <1>0, <1>2 DEF Countdown, FireDisconnect, OperationTick, runtimer
<1>3. CASE OperationTimeout
  BY <1>0, <1>3 DEF OperationTimeout, gattc_command_error, runtimer
<1>4. CASE FireStartWifi
  <2>1. Starting
    BY <1>4 DEF FireStartWifi, Fire, Starting
  <2>2. cmdqueue = <<>> /\ ~reboot_requested /\ ~in_progress
    BY <2>1 DEF WakeInv, BootInv, ConvInv, AttemptInv
  <2>3. UNCHANGED <<cmdqueue, reboot_requested, in_progress>>
    BY <1>4 DEF FireStartWifi
  <2> QED  BY <2>2, <2>3 DEF WantInv, AwakeInv
<1>5. CASE FireRestartWifi
  BY <1>5 DEF FireRestartWifi, Fire, ConvInv, AttemptInv
<1>6. CASE run_command
  <2>1. PICK d \in Devs : owed' = [owed EXCEPT ![d] = @ \cup {"OPEN"}]
    <3>1. Head(cmdqueue) \in Command
      BY <1>6 DEF run_command, TypeOK
    <3>2. Head(cmdqueue).bleda \in Devs
      BY <3>1 DEF Command
    <3> QED  BY <1>6, <3>2 DEF run_command, esp_ble_gattc_open
  <2>2. "OPEN" \in owed'[d]
    BY <2>1 DEF TypeOK
  <2>3. in_progress'
    BY <1>6 DEF run_command
  <2> QED  BY <2>2, <2>3 DEF WantInv, AwakeInv
<1>7. CASE IdleTick
  <2>1. /\ ~in_progress /\ UNCHANGED in_progress /\ cmdqueue' = <<>>
        /\ restarted' = reboot_requested /\ reboot_requested' = reboot_requested
    BY <1>7 DEF IdleTick
  <2> QED  BY <2>1 DEF WantInv, AwakeInv
<1> QED  BY <1>1, <1>2, <1>3, <1>4, <1>5, <1>6, <1>7 DEF MainTick

\* Requests and WiFi events leave work with a timer or an operation.
LEMMA WakeOthers ==
    ASSUME Networked, TypeOK, WakeInv, RequestStep \/ WifiStep
    PROVE  WantInv' /\ AwakeInv'
<1> USE DEF queueVars, opVars, stackVars, timerVars
<1>0. outstanding_timer' = TRUE => WantInv' /\ AwakeInv'
  BY DEF WantInv, AwakeInv
<1>1. CASE RequestStep
  <2>1. WakeIfIdle /\ UNCHANGED <<in_progress, unreg_owed, owed>>
    BY <1>1 DEF RequestStep, handle_request, schedule_reboot
  <2>2. CASE in_progress
    BY <2>1, <2>2 DEF WakeIfIdle, WakeInv, WantInv, AwakeInv
  <2>3. CASE ~in_progress
    BY <1>0, <2>1, <2>3 DEF WakeIfIdle, runtimer
  <2> QED  BY <2>2, <2>3
<1>2. CASE WifiStep
  <2>1. ~WifiApStart
    BY DEF Networked, Reliable, WifiApStart
  <2>2. UNCHANGED <<outstanding_timer, cmdqueue, in_progress, unreg_owed, owed,
                    reboot_requested, restarted>>
    BY <1>2, <2>1 DEF WifiStep, WifiConnected, WifiLost, ConfigSubmitAp
  <2> QED  BY <2>2 DEF WakeInv, WantInv, AwakeInv
<1> QED  BY <1>1, <1>2

\* Every Bluetooth event asks for another one or starts the timer, but for
\* the DISCONNECT the hub asked for, during which the timer runs.
LEMMA WakeEvents ==
    ASSUME Networked, TypeOK, ConvInv, WakeInv, EventStep
    PROVE  WantInv' /\ AwakeInv'
<1> USE DEF Unchanged, queueVars, opVars, envVars, stackVars, Deliver
<1> DEFINE Same == UNCHANGED <<outstanding_timer, cmdqueue, in_progress,
                               reboot_requested, restarted>>
<1>0. outstanding_timer' = TRUE => WantInv' /\ AwakeInv'
  BY DEF WantInv, AwakeInv
<1>1. ASSUME Same, unreg_owed' \/ \E d \in Devs : owed'[d] \ {"CLOSE"} # {}
      PROVE  WantInv' /\ AwakeInv'
  BY <1>1 DEF WakeInv, WantInv, AwakeInv
<1>2. ASSUME NEW d \in Devs, ConnectEvt(d)  PROVE WantInv' /\ AwakeInv'
  <2>1. Same /\ "OPEN" \in owed'[d]
    BY <1>2 DEF ConnectEvt, TypeOK
  <2> QED  BY <1>1, <2>1
<1>3. ASSUME NEW d \in Devs, OpenEvtOk(d)  PROVE WantInv' /\ AwakeInv'
  <2>1. "MTU" \in owed[d]
    BY <1>3 DEF OpenEvtOk, ConvInv, AttemptInv, LinkInv
  <2>2. Same /\ "MTU" \in owed'[d]
    BY <1>3, <2>1 DEF OpenEvtOk, Answer, TypeOK
  <2> QED  BY <1>1, <2>2
<1>4. ASSUME NEW d \in Devs, OpenEvtFail(d)  PROVE WantInv' /\ AwakeInv'
  BY <1>0, <1>4 DEF OpenEvtFail, gattc_command_error, runtimer
<1>5. ASSUME NEW d \in Devs, NEW ok \in BOOLEAN, CloseEvt(d, ok)
      PROVE  WantInv' /\ AwakeInv'
  BY <1>0, <1>5 DEF CloseEvt, runtimer
<1>6. ASSUME NEW d \in Devs, NEW e \in Asked, RequestFailed(d, e)
      PROVE  WantInv' /\ AwakeInv'
  BY <1>0, <1>6 DEF RequestFailed, gattc_command_error, runtimer
<1>7. ASSUME NEW d \in Devs, NEW e \in Asked,
             NEW more \in SUBSET {"SEARCH", "REG", "NOTIFY"},
             more # {}, RequestDone(d, e, more)
      PROVE  WantInv' /\ AwakeInv'
  <2>1. PICK m \in more : m # "CLOSE"
    BY <1>7
  <2>2. Same /\ m \in owed'[d]
    BY <1>7, <2>1 DEF RequestDone, Answer, TypeOK
  <2> QED  BY <1>1, <2>1, <2>2
<1>8. ASSUME NEW d \in Devs, SearchResEvt(d)  PROVE WantInv' /\ AwakeInv'
  <2>1. Same /\ "SEARCH" \in owed'[d]
    BY <1>8 DEF SearchResEvt
  <2> QED  BY <1>1, <2>1
<1>9. ASSUME NEW d \in Devs, SendCommand(d)  PROVE WantInv' /\ AwakeInv'
  <2>1. remote_bda = d
    BY <1>9 DEF SendCommand, ConvInv, AttemptInv, LinkInv
  <2>2. Same /\ "WRITE" \in owed'[d]
    BY <1>9, <2>1 DEF SendCommand
  <2> QED  BY <1>1, <2>2
<1>10. ASSUME NEW d \in Devs, NEW info \in BOOLEAN, NEW ok \in BOOLEAN,
              NotifyEvt(d, info, ok)
       PROVE  WantInv' /\ AwakeInv'
  <2>1. CASE ok
    <3>1. Same /\ unreg_owed'
      BY <1>10, <2>1 DEF NotifyEvt
    <3> QED  BY <1>1, <3>1
  <2>2. CASE ~ok
    BY <1>0, <1>10, <2>2 DEF NotifyEvt, CommandDone, runtimer
  <2> QED  BY <2>1, <2>2
<1>11. UnregForNotifyEvt => WantInv' /\ AwakeInv'
  BY <1>0 DEF UnregForNotifyEvt, CommandDone, runtimer
<1>12. ASSUME NEW d \in Devs, NEW local \in BOOLEAN, Ends(d, local),
              DisconnectEvt(d, local)
       PROVE  WantInv' /\ AwakeInv'
  <2>1. CASE local
    <3>1. link[d] = "closing"
      BY <1>12, <2>1 DEF Ends
    <3>2. outstanding_timer
      BY <3>1 DEF ConvInv, AttemptInv, LinkInv
    <3>3. outstanding_timer' = outstanding_timer
      BY <1>12, <2>1 DEF DisconnectEvt
    <3> QED  BY <3>2, <3>3 DEF WantInv, AwakeInv
  <2>2. CASE ~local
    BY <1>0, <1>12, <2>2 DEF DisconnectEvt, gattc_command_error, runtimer
  <2> QED  BY <2>1, <2>2
<1>13. ASSUME NEW d \in Devs, NEW e \in Event, Lose(d, e)  PROVE FALSE
  BY <1>13 DEF Lose, Networked, Reliable
<1>14. "nochar" \notin Faults
  BY DEF Networked, Reliable
<1> QED  BY <1>2, <1>3, <1>4, <1>5, <1>6, <1>7, <1>8, <1>9, <1>10, <1>11, <1>12,
            <1>13, <1>14 DEF EventStep

\* The engine never sleeps on a queued command or a requested reboot: the
\* timer runs or the stack owes an event of the operation in progress.
THEOREM NeverSleepsOnWork ==
    ASSUME Networked
    PROVE  Spec => []NoLostWakeup
<1>0. Reliable
  BY DEF Networked
<1>1. TypeOK /\ ConvInv /\ [Next]_vars => ConvInv'
  BY <1>0, ConvInductive
<1>2. Init => WakeInv
  BY DEF Init, WakeInv, BootInv, WantInv, AwakeInv, Starting
<1>3. TypeOK /\ ConvInv /\ WakeInv /\ [Next]_vars => WakeInv'
  <2> SUFFICES ASSUME TypeOK, ConvInv, WakeInv, [Next]_vars PROVE WakeInv'
    OBVIOUS
  <2>1. CASE UNCHANGED vars
    BY <2>1 DEF vars, timerVars, queueVars, opVars, stackVars, envVars, WakeInv,
                BootInv, WantInv, AwakeInv, Starting
  <2>2. CASE Next
    <3>1. BootInv'
      BY <2>2, BootStep DEF WakeInv
    <3>2. WantInv' /\ AwakeInv'
      BY <2>2, NextCases, WakeTicks, WakeOthers, WakeEvents
    <3> QED  BY <3>1, <3>2 DEF WakeInv
  <2> QED  BY <2>1, <2>2
<1>4. WakeInv => NoLostWakeup
  <2> SUFFICES ASSUME WakeInv, (cmdqueue # <<>> \/ reboot_requested) /\ ~restarted
               PROVE  \/ outstanding_timer
                      \/ in_progress /\ (unreg_owed \/ \E d \in Devs : owed[d] # {})
    BY DEF NoLostWakeup
  <2> QED  BY DEF WakeInv, WantInv, AwakeInv
<1> QED  BY <1>1, <1>2, <1>3, <1>4, ConvInit, TypeCorrect, PTL DEF Spec
=============================================================================
