------------------------------ MODULE Eq3Codec ------------------------------
(***************************************************************************)
(* How a request becomes the bytes of a command and a notification becomes *)
(* a status report (main/eq3_main.c): the arguments handle_request()       *)
(* accepts, the bytes setup_command() makes of them, and the decoding in   *)
(* NOTIFY_EVT.  One exchange with one valve is one step; the queue and the *)
(* radio in between are the subject of Eq3Engine.                          *)
(*                                                                         *)
(* The valve is external: it keeps its settings in the units of the        *)
(* protocol and answers every command with a notification of its state.    *)
(***************************************************************************)
EXTENDS Integers, Sequences

CONSTANTS
    Args,           \* numeric arguments, in tenths of a degree
    TimeArgs,       \* time arguments: what the twelve digits spell
    Clocks,         \* dates the hub's clock can show
    Garbage,        \* what six bytes found behind the text can spell
    Own,            \* what a valve can turn to by itself
    Lens            \* lengths of a status notification

\* Six bytes, as a date is sent: year, month, day, hour, minute, second.
TimeBytes == [1 .. 6 -> 0 .. 255]

\* A 14 byte notification, which no valve is known to send, would have
\* value[14] read behind its end.
ASSUME CodecAssumption ==
    /\ Args \subseteq Int
    /\ TimeArgs \subseteq TimeBytes /\ Garbage \subseteq TimeBytes
    /\ Clocks \subseteq [year : Nat, month : 1 .. 12, day : 1 .. 31,
                         hour : 0 .. 23, minute : 0 .. 59, second : 0 .. 60]
    /\ Own \subseteq [mode : {"auto", "manual", "holiday"}, boost : BOOLEAN,
                      window : BOOLEAN, low : BOOLEAN]
    /\ Lens \subseteq Nat /\ \A n \in Lens : n > 5 /\ n # 14

VARIABLES
    valve,          \* external: the valve's state
    request,        \* the last request
    accepted,       \* handle_request() returned 0
    asked,          \* history: what the last settime was about
    ntp_enabled,    \* connectionInfo.ntpenabled
    report          \* the last status report

vars == <<valve, request, accepted, asked, ntp_enabled, report>>

PROP_INFO_QUERY == 3
PROP_OFFSET == 19
PROP_MODE_WRITE == 64
PROP_TEMPERATURE_WRITE == 65
PROP_BOOST == 69
PROP_LOCK == 128

MANUAL == 1
AWAY == 2
BOOST == 4
WINDOW == 16
LOCKED == 32
LOW_BATTERY == 128

-----------------------------------------------------------------------------
(* Arguments: handle_request() *)

\* (int)temp
Whole(t) == IF t >= 0 THEN t \div 10 ELSE -((-t) \div 10)

TempAccepted(t) == Whole(t) >= 5 /\ Whole(t) < 30

\* Mutant: rounds up to the next half degree only above the half.
settemp_parm_strict(t) ==
    2 * Whole(t) + (IF t - 10 * Whole(t) > 5 THEN 1 ELSE 0)

settemp_parm(t) == 2 * Whole(t) + (IF t - 10 * Whole(t) >= 5 THEN 1 ELSE 0)

OffsetAccepted(t) == ~(t < -35 \/ t > 35)

\* (unsigned char)((offset + 3.5) * 2)
offset_parm(t) == ((t + 35) * 2) \div 10

on_parm == 60
off_parm == 9

\* localtime_r()
tm(date) == [tm_year |-> date.year - 1900, tm_mon |-> date.month - 1,
             tm_mday |-> date.day, tm_hour |-> date.hour,
             tm_min |-> date.minute, tm_sec |-> date.second]

\* Assignment to an unsigned char
uchar(x) == x % 256

\* Mutant: the month keeps counting from 0.
ntp_parms_month(t) ==
    <<uchar(t.tm_year - 100), t.tm_mon, t.tm_mday, t.tm_hour, t.tm_min, t.tm_sec>>

\* Only the year can leave the range of a byte: a clock that was never set
\* shows 1970, which is sent as 226.
ntp_parms(t) ==
    <<uchar(t.tm_year - 100), t.tm_mon + 1, t.tm_mday,
      t.tm_hour, t.tm_min, t.tm_sec>>

-----------------------------------------------------------------------------
(* Bytes: setup_command() *)

setup_command(command, parms) ==
    CASE command = "EQ3_SETTIME" -> <<PROP_INFO_QUERY>> \o parms
      [] command = "EQ3_BOOST"   -> <<PROP_BOOST, 1>>
      [] command = "EQ3_UNBOOST" -> <<PROP_BOOST, 0>>
      [] command = "EQ3_AUTO"    -> <<PROP_MODE_WRITE, 0>>
      [] command = "EQ3_MANUAL"  -> <<PROP_MODE_WRITE, 64>>
      [] command = "EQ3_SETTEMP" -> <<PROP_TEMPERATURE_WRITE, parms[1]>>
      [] command = "EQ3_OFFSET"  -> <<PROP_OFFSET, parms[1]>>
      [] command = "EQ3_LOCK"    -> <<PROP_LOCK, 1>>
      [] command = "EQ3_UNLOCK"  -> <<PROP_LOCK, 0>>

-----------------------------------------------------------------------------
(* The valve *)

Carries(v, bytes) ==
    LET id == bytes[1] IN
    CASE id = PROP_INFO_QUERY        -> [v EXCEPT !.time = Tail(bytes)]
      [] id = PROP_BOOST             -> [v EXCEPT !.boost = bytes[2] # 0]
      [] id = PROP_MODE_WRITE        -> [v EXCEPT !.mode =
                                           IF bytes[2] = 0 THEN "auto" ELSE "manual"]
      [] id = PROP_TEMPERATURE_WRITE -> [v EXCEPT !.temp = bytes[2]]
      [] id = PROP_OFFSET            -> [v EXCEPT !.offset = bytes[2]]
      [] id = PROP_LOCK              -> [v EXCEPT !.locked = bytes[2] # 0]

Flag(on, bit) == IF on THEN bit ELSE 0

StatusByte(v) ==
    Flag(v.mode = "manual", MANUAL) + Flag(v.mode = "holiday", AWAY)
    + Flag(v.boost, BOOST) + Flag(v.window, WINDOW)
    + Flag(v.locked, LOCKED) + Flag(v.low, LOW_BATTERY)

\* The bytes of a notification that matter here, at the code's indices.
Notification(v, n) ==
    [value_len |-> n,
     value |-> [i \in {2, 5, 14} |-> CASE i = 2  -> StatusByte(v)
                                       [] i = 5  -> v.temp
                                       [] i = 14 -> v.offset]]

-----------------------------------------------------------------------------
(* The status report: NOTIFY_EVT *)

Bit(byte, bit) == (byte \div bit) % 2 = 1

int8(x) == IF x % 256 > 127 THEN (x % 256) - 256 ELSE x % 256

\* What the text "%d.%d" says, in tenths.
Printed(whole, half) == IF whole < 0 THEN 10 * whole - half ELSE 10 * whole + half

temp_report(byte) == Printed(byte \div 2, IF Bit(byte, 1) THEN 5 ELSE 0)

\* Mutant: the protocol's zero of 3.5 degrees is forgotten.
offset_report_raw(byte) ==
    LET offsetval == int8(byte)
    IN  Printed(offsetval \div 2, IF offsetval % 2 = 1 THEN 5 ELSE 0)

\* offsetval >>= 1 rounds down; the half is added to the printed number.
offset_report(byte) ==
    LET offsetval == int8(byte - 7)
    IN  Printed(offsetval \div 2, IF offsetval % 2 = 1 THEN 5 ELSE 0)

\* A set is empty when the report leaves the key out.
NotifyEvt(n) ==
    LET status == n.value[2] IN
    [temp   |-> IF n.value_len > 5 THEN {temp_report(n.value[5])} ELSE {},
     offset |-> IF n.value_len >= 14 THEN {offset_report(n.value[14])} ELSE {},
     mode   |-> IF Bit(status, MANUAL) THEN "manual"
                ELSE IF Bit(status, AWAY) THEN "holiday" ELSE "auto",
     boost  |-> Bit(status, BOOST),
     window |-> Bit(status, WINDOW),
     locked |-> Bit(status, LOCKED),
     low    |-> Bit(status, LOW_BATTERY)]

-----------------------------------------------------------------------------
(* Requests.  One disjunct per comparison of handle_request(). *)

NoTime == <<>>

\* The protocol's form of a date; a year before 2000 has none.
Calendar(date) == <<date.year - 2000, date.month, date.day, date.hour,
                    date.minute, date.second>>

\* given: the time in the text: "whole" (it begins right behind the blank),
\* "late" (behind something else, such as a second blank), "cut" (less than
\* twelve digits) or "none"; time: what it spells; date: what the hub's clock
\* showed when it was read; behind: the time was read from behind the text.
Asked(given, time, date) ==
    [given |-> given, time |-> time, date |-> date, behind |-> FALSE]

NotAsked == Asked("none", NoTime, NoTime)

\* The command is queued, written to the valve and answered.
Exchange(verb, t, command, parms) ==
    /\ request' = [verb |-> verb, num |-> t] /\ accepted' = TRUE
    /\ valve' = Carries(valve, setup_command(command, parms))
    /\ \E n \in Lens : report' = NotifyEvt(Notification(valve', n))
    /\ UNCHANGED ntp_enabled

\* handle_request() returns -1.
Invalid(verb, t) ==
    /\ request' = [verb |-> verb, num |-> t] /\ accepted' = FALSE
    /\ UNCHANGED <<valve, ntp_enabled, report>>

settemp_request(t) ==
    /\ IF TempAccepted(t)
       THEN Exchange("settemp", t, "EQ3_SETTEMP", <<settemp_parm(t)>>)
       ELSE Invalid("settemp", t)
    /\ asked' = NotAsked

offset_request(t) ==
    /\ IF OffsetAccepted(t)
       THEN Exchange("offset", t, "EQ3_OFFSET", <<offset_parm(t)>>)
       ELSE Invalid("offset", t)
    /\ asked' = NotAsked

simple_command ==
    /\ \/ Exchange("on", 0, "EQ3_SETTEMP", <<on_parm>>)
       \/ Exchange("off", 0, "EQ3_SETTEMP", <<off_parm>>)
       \/ Exchange("boost", 0, "EQ3_BOOST", <<>>)
       \/ Exchange("unboost", 0, "EQ3_UNBOOST", <<>>)
       \/ Exchange("auto", 0, "EQ3_AUTO", <<>>)
       \/ Exchange("manual", 0, "EQ3_MANUAL", <<>>)
       \/ Exchange("lock", 0, "EQ3_LOCK", <<>>)
       \/ Exchange("unlock", 0, "EQ3_UNLOCK", <<>>)
    /\ asked' = NotAsked

\* Without a time in the text the date of the hub's clock is sent.
FromClock(date) ==
    \/ ntp_enabled /\ Exchange("settime", 0, "EQ3_SETTIME", ntp_parms(tm(date)))
    \/ ~ntp_enabled /\ Invalid("settime", 0)

\* settime with at least twelve characters behind the blank, the first of
\* them a digit (or a letter).
settime_digits(time) ==
    /\ Exchange("settime", 0, "EQ3_SETTIME", time)
    /\ asked' = Asked("whole", time, NoTime)

\* The same when the first of them is something else: long enough to be
\* accepted, but not taken for a time.
settime_late(time, date) ==
    /\ asked' = Asked("late", time, Calendar(date))
    /\ FromClock(date)

\* settime with fewer characters behind the blank; the web form, which puts
\* a blank before a value left empty, makes such a text ("none").
settime_short(given) ==
    /\ Invalid("settime", 0)
    /\ asked' = Asked(given, NoTime, NoTime)

\* settime at the end of the text: cmdptr[8] lies behind its end.  When a
\* letter or a digit happens to be there, that memory is read as the time.
settime_alone(date) ==
    \/ /\ FromClock(date)
       /\ asked' = Asked("none", NoTime, Calendar(date))
    \/ /\ \E time \in Garbage : Exchange("settime", 0, "EQ3_SETTIME", time)
       /\ asked' = [NotAsked EXCEPT !.behind = TRUE]

\* The valve's program, its buttons and a window.
ValveChanges ==
    /\ \E own \in Own :
          valve' = [valve EXCEPT !.mode = own.mode, !.boost = own.boost,
                                 !.window = own.window, !.low = own.low]
    /\ UNCHANGED <<request, accepted, asked, ntp_enabled, report>>

-----------------------------------------------------------------------------
Init ==
    /\ valve = [temp |-> 40, offset |-> 7, mode |-> "auto", boost |-> FALSE,
                locked |-> FALSE, window |-> FALSE, low |-> FALSE,
                time |-> NoTime]
    /\ request = [verb |-> "none", num |-> 0] /\ accepted = FALSE
    /\ asked = NotAsked
    /\ ntp_enabled \in BOOLEAN
    /\ report = NotifyEvt(Notification(valve, 15))

Next ==
    \/ \E t \in Args : settemp_request(t) \/ offset_request(t)
    \/ simple_command
    \/ \E time \in TimeArgs : settime_digits(time)
    \/ \E given \in {"none", "cut"} : settime_short(given)
    \/ \E date \in Clocks :
          settime_alone(date) \/ \E time \in TimeArgs : settime_late(time, date)
    \/ ValveChanges

Spec == Init /\ [][Next]_vars

-----------------------------------------------------------------------------
(* Properties *)

ShownTemp == CHOOSE t \in report.temp : TRUE

Contract == INSTANCE TrvContract WITH
    temp   <- 5 * valve.temp,
    offset <- 5 * (valve.offset - 7),
    mode   <- valve.mode,
    boost  <- valve.boost,
    locked <- valve.locked,
    window <- valve.window,
    low    <- valve.low,
    status <- [temp |-> ShownTemp, mode |-> report.mode,
               boost |-> report.boost, locked |-> report.locked,
               window |-> report.window, low |-> report.low]

\* End to end, the hub does what the README's table of commands promises:
\* a request is refused or changes the one setting it names to the half
\* degree asked for, and the status published in answer, decoded from the
\* valve's bytes, shows the valve's temperature, mode, boost, window, lock
\* and battery as they are.
KeepsContract == Contract!ContractSpec

\* Types; in particular every setting sent is one the valve has: 4.5 to 30
\* degrees, an offset of -3.5 to 3.5 degrees, a time of six bytes.
TypeOK ==
    /\ valve.temp \in 9 .. 60 /\ valve.offset \in 0 .. 14
    /\ valve.time \in {NoTime} \cup TimeBytes
    /\ valve.mode \in {"auto", "manual", "holiday"}
    /\ accepted \in BOOLEAN /\ ntp_enabled \in BOOLEAN
    /\ valve.boost \in BOOLEAN /\ valve.locked \in BOOLEAN
    /\ valve.window \in BOOLEAN /\ valve.low \in BOOLEAN

\* After a settime that was accepted the valve has the time that stands right
\* behind the blank or, when none stands there, the date the hub's clock shows:
\* the settime branch of handle_request().  Only a year that has no byte and
\* memory behind the end of the text make it another one.
ClockIsSet ==
    accepted /\ request.verb = "settime" /\ ~asked.behind =>
        IF asked.given = "whole" THEN valve.time = asked.time
        ELSE asked.date[1] \in 0 .. 255 => valve.time = asked.date

\* A reported offset is the one the valve has (handler of NOTIFY_EVT), unless
\* it is negative and not a whole number of degrees.
OffsetShownIfSimple ==
    valve.offset >= 7 \/ (valve.offset - 7) % 2 = 0 =>
        \A o \in report.offset : o = 5 * (valve.offset - 7)

(* What the documentation says, and the code does not do *)

\* main/eq3_main.c:502: the offset is between -3.5 and 3.5 degrees, so no
\* other one is reported.
ReportedOffsetInRange == \A o \in report.offset : o \in -35 .. 35

\* README, settime: a parameter that was submitted is the time that is set.
SubmittedTimeIsSet ==
    accepted /\ request.verb = "settime" /\ asked.time # NoTime =>
        valve.time = asked.time

\* main/eq3_main.c:783: the hub's time is sent only if it is synchronised.
OnlySynchronisedTime ==
    accepted /\ request.verb = "settime" /\ asked.given = "late" => asked.date[1] >= 0

\* README, settime: without a parameter and with NTP enabled the request is
\* carried out, with the time of the hub.
SettimeWithoutParameter ==
    [][request'.verb = "settime" /\ asked'.given = "none" /\ ntp_enabled =>
          accepted' /\ ~asked'.behind]_vars
=============================================================================
