---------------------------- MODULE TrvContract ----------------------------
(***************************************************************************)
(* What the table of commands in the repository's README promises a user   *)
(* of one valve, in the user's units: temperatures are tenths of a degree. *)
(* A request is refused or changes exactly the setting it names, and the   *)
(* status published in answer shows the valve as it then is.               *)
(***************************************************************************)
EXTENDS Integers

CONSTANT Args               \* numeric arguments, in tenths of a degree

VARIABLES
    request,                \* the last request: verb and argument
    accepted,               \* was it accepted?
    temp, offset, mode, boost, locked,      \* the valve's settings
    window, low,            \* what the valve observes by itself
    status                  \* the last published status

settings == <<temp, offset, mode, boost, locked>>
contractVars == <<request, accepted, settings, window, low, status>>

\* Settings have steps of half a degree; in between the lower step counts.
HalfDegree(t) == 5 * (t \div 5)

ShownNow == [temp |-> temp, mode |-> mode, boost |-> boost, locked |-> locked,
             window |-> window, low |-> low]

ContractInit ==
    /\ request = [verb |-> "none", num |-> 0] /\ accepted = FALSE
    /\ temp = 200 /\ offset = 0
    /\ mode = "auto" /\ boost = FALSE /\ locked = FALSE
    /\ window = FALSE /\ low = FALSE
    /\ status = ShownNow

\* An accepted request is answered by the status of the valve it has changed.
Accept(verb, t) ==
    /\ request' = [verb |-> verb, num |-> t] /\ accepted' = TRUE
    /\ status' = ShownNow'
    /\ UNCHANGED <<window, low>>

Refuse(verb, t) ==
    /\ request' = [verb |-> verb, num |-> t] /\ accepted' = FALSE
    /\ UNCHANGED <<settings, window, low, status>>

SetTemp(t) ==
    IF t >= 50 /\ t < 300
    THEN Accept("settemp", t) /\ temp' = HalfDegree(t)
         /\ UNCHANGED <<offset, mode, boost, locked>>
    ELSE Refuse("settemp", t)

SetOffset(t) ==
    IF t \in -35 .. 35
    THEN Accept("offset", t) /\ offset' = HalfDegree(t)
         /\ UNCHANGED <<temp, mode, boost, locked>>
    ELSE Refuse("offset", t)

OnOff ==
    /\ \/ Accept("on", 0) /\ temp' = 300
       \/ Accept("off", 0) /\ temp' = 45
    /\ UNCHANGED <<offset, mode, boost, locked>>

Switch ==
    \/ /\ UNCHANGED <<temp, offset, boost, locked>>
       /\ \/ Accept("auto", 0) /\ mode' = "auto"
          \/ Accept("manual", 0) /\ mode' = "manual"
    \/ /\ UNCHANGED <<temp, offset, mode, locked>>
       /\ \/ Accept("boost", 0) /\ boost' = TRUE
          \/ Accept("unboost", 0) /\ boost' = FALSE
    \/ /\ UNCHANGED <<temp, offset, mode, boost>>
       /\ \/ Accept("lock", 0) /\ locked' = TRUE
          \/ Accept("unlock", 0) /\ locked' = FALSE

\* settime changes none of these settings; the clock is not part of them.
SetTime ==
    /\ UNCHANGED settings
    /\ Accept("settime", 0) \/ Refuse("settime", 0)

\* The valve changes by itself: its program, its buttons, a window.
ValveChanges ==
    /\ mode' \in {"auto", "manual", "holiday"} /\ boost' \in BOOLEAN
    /\ window' \in BOOLEAN /\ low' \in BOOLEAN
    /\ UNCHANGED <<request, accepted, temp, offset, locked, status>>

ContractNext ==
    \/ \E t \in Args : SetTemp(t) \/ SetOffset(t)
    \/ OnOff \/ Switch \/ SetTime \/ ValveChanges

ContractSpec == ContractInit /\ [][ContractNext]_contractVars
=============================================================================
