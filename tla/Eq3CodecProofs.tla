--------------------------- MODULE Eq3CodecProofs ---------------------------
(***************************************************************************)
(* Theorems about Eq3Codec, for every argument, date and notification.     *)
(***************************************************************************)
EXTENDS Eq3Codec, SequenceTheorems, TLAPS

Modes == {"auto", "manual", "holiday"}

ValveSet == [temp : 9 .. 60, offset : 0 .. 14, mode : Modes, boost : BOOLEAN,
             locked : BOOLEAN, window : BOOLEAN, low : BOOLEAN,
             time : {NoTime} \cup TimeBytes]

-----------------------------------------------------------------------------
(* Arguments *)

\* A temperature is accepted exactly in the range of the contract, and what is
\* sent is the half degree below it.
LEMMA TempArg ==
    ASSUME NEW t \in Int
    PROVE  /\ TempAccepted(t) <=> t >= 50 /\ t < 300
           /\ TempAccepted(t) => /\ settemp_parm(t) = t \div 5
                                 /\ settemp_parm(t) \in 9 .. 60
<1>1. CASE t >= 0
  <2>1. PICK w \in Int, r \in 0 .. 9 : t = 10 * w + r /\ w = t \div 10
    <3> DEFINE q == t \div 10
    <3>1. q \in Int /\ 0 <= t - 10 * q /\ t - 10 * q < 10
      OBVIOUS
    <3> HIDE DEF q
    <3>2. t - 10 * q \in 0 .. 9 /\ t = 10 * q + (t - 10 * q)
      BY <3>1
    <3> QED  BY <3>1, <3>2 DEF q
  <2>2. Whole(t) = w
    BY <1>1, <2>1 DEF Whole
  <2>3. TempAccepted(t) <=> t >= 50 /\ t < 300
    BY <2>1, <2>2 DEF TempAccepted
  <2>4. settemp_parm(t) = 2 * w + IF r >= 5 THEN 1 ELSE 0
    BY <2>1, <2>2 DEF settemp_parm
  <2>5. settemp_parm(t) = t \div 5
    BY <2>1, <2>4
  <2>6. TempAccepted(t) => settemp_parm(t) \in 9 .. 60
    BY <2>1, <2>3, <2>4
  <2> QED  BY <2>3, <2>5, <2>6
<1>2. CASE t < 0
  <2>1. (-t) \div 10 >= 0 /\ (-t) \div 10 \in Int
    BY <1>2
  <2>2. Whole(t) = -((-t) \div 10)
    BY <1>2 DEF Whole
  <2>3. ~TempAccepted(t)
    BY <2>1, <2>2 DEF TempAccepted
  <2> QED  BY <1>2, <2>3
<1> QED  BY <1>1, <1>2

LEMMA OffsetArg ==
    ASSUME NEW t \in Int
    PROVE  /\ OffsetAccepted(t) <=> t \in -35 .. 35
           /\ OffsetAccepted(t) => /\ offset_parm(t) = t \div 5 + 7
                                   /\ offset_parm(t) \in 0 .. 14
<1>1. OffsetAccepted(t) <=> t \in -35 .. 35
  BY DEF OffsetAccepted
<1>2. PICK q \in Int, r \in 0 .. 4 : t = 5 * q + r /\ q = t \div 5
  <2> DEFINE d == t \div 5
  <2>1. d \in Int /\ 0 <= t - 5 * d /\ t - 5 * d < 5
    OBVIOUS
  <2> HIDE DEF d
  <2>2. t - 5 * d \in 0 .. 4 /\ t = 5 * d + (t - 5 * d)
    BY <2>1
  <2> QED  BY <2>1, <2>2 DEF d
<1>3. (t + 35) * 2 = 10 * (q + 7) + 2 * r /\ 2 * r \in 0 .. 9
  BY <1>2
<1>4. offset_parm(t) = q + 7
  BY <1>2, <1>3 DEF offset_parm
<1> QED  BY <1>1, <1>2, <1>4

\* Six bytes are a sequence.
LEMMA TimeIsSeq == TimeBytes \subseteq Seq(Int)
<1>1. ASSUME NEW time \in TimeBytes PROVE time \in Seq(Int)
  <2>1. time = [i \in 1 .. 6 |-> time[i]] /\ \A i \in 1 .. 6 : time[i] \in Int
    BY <1>1 DEF TimeBytes
  <2>2. [i \in 1 .. 6 |-> time[i]] \in Seq(Int)
    BY <2>1
  <2> QED  BY <2>1, <2>2
<1> QED  BY <1>1

\* The date the hub's clock shows is sent as six bytes, in the protocol's form
\* if its year fits into one.
LEMMA DateArg ==
    ASSUME NEW date \in Clocks
    PROVE  /\ ntp_parms(tm(date)) \in TimeBytes
           /\ Calendar(date)[1] \in 0 .. 255 => ntp_parms(tm(date)) = Calendar(date)
<1>1. /\ date.year \in Int /\ date.month \in 1 .. 12 /\ date.day \in 1 .. 31
      /\ date.hour \in 0 .. 23 /\ date.minute \in 0 .. 59 /\ date.second \in 0 .. 60
  <2>1. date \in [year : Nat, month : 1 .. 12, day : 1 .. 31,
                  hour : 0 .. 23, minute : 0 .. 59, second : 0 .. 60]
    BY CodecAssumption
  <2> QED  BY <2>1
<1>2. /\ date.year - 1900 - 100 = date.year - 2000 /\ date.month - 1 + 1 = date.month
  BY <1>1
<1> DEFINE year == uchar(date.year - 2000)
<1>3. ntp_parms(tm(date)) = <<year, date.month, date.day,
                              date.hour, date.minute, date.second>>
  BY <1>2 DEF ntp_parms, tm
<1>4. year \in 0 .. 255 /\ (date.year - 2000 \in 0 .. 255 => year = date.year - 2000)
  BY <1>1 DEF uchar
<1>5. Calendar(date)[1] = date.year - 2000
  BY DEF Calendar
<1> HIDE DEF year
<1>6. <<year, date.month, date.day, date.hour, date.minute, date.second>> \in TimeBytes
  BY <1>1, <1>4 DEF TimeBytes
<1>7. Calendar(date)[1] \in 0 .. 255 => ntp_parms(tm(date)) = Calendar(date)
  BY <1>3, <1>4, <1>5 DEF Calendar
<1> QED  BY <1>3, <1>6, <1>7

-----------------------------------------------------------------------------
(* Notifications *)

\* The flags of the status byte do not disturb each other.
LEMMA FlagsApart ==
    ASSUME NEW m \in {0, 1, 2}, NEW b \in {0, 4}, NEW w \in {0, 16},
           NEW l \in {0, 32}, NEW o \in {0, 128},
           NEW s, s = m + 0 + b + w + l + o
    PROVE  /\ Bit(s, 1) <=> m = 1
           /\ Bit(s, 2) <=> m = 2
           /\ Bit(s, 4) <=> b = 4
           /\ Bit(s, 16) <=> w = 16
           /\ Bit(s, 32) <=> l = 32
           /\ Bit(s, 128) <=> o = 128
  BY DEF Bit
LEMMA StatusFlags ==
    ASSUME NEW v \in ValveSet
    PROVE  LET s == StatusByte(v) IN
           /\ Bit(s, MANUAL) <=> v.mode = "manual"
           /\ Bit(s, AWAY) <=> v.mode = "holiday"
           /\ Bit(s, BOOST) <=> v.boost
           /\ Bit(s, WINDOW) <=> v.window
           /\ Bit(s, LOCKED) <=> v.locked
           /\ Bit(s, LOW_BATTERY) <=> v.low
<1> DEFINE m == Flag(v.mode = "manual", 1) + Flag(v.mode = "holiday", 2)
           b == Flag(v.boost, 4)  w == Flag(v.window, 16)
           l == Flag(v.locked, 32)  o == Flag(v.low, 128)
           s == StatusByte(v)
<1>1. /\ v.mode \in Modes /\ v.boost \in BOOLEAN /\ v.window \in BOOLEAN
      /\ v.locked \in BOOLEAN /\ v.low \in BOOLEAN
  BY DEF ValveSet
<1>2. /\ m \in {0, 1, 2} /\ (m = 1 <=> v.mode = "manual") /\ (m = 2 <=> v.mode = "holiday")
  BY <1>1 DEF Flag, Modes
<1>3. b \in {0, 4} /\ (b = 4 <=> v.boost)
  BY <1>1 DEF Flag
<1>4. w \in {0, 16} /\ (w = 16 <=> v.window)
  BY <1>1 DEF Flag
<1>5. l \in {0, 32} /\ (l = 32 <=> v.locked)
  BY <1>1 DEF Flag
<1>6. o \in {0, 128} /\ (o = 128 <=> v.low)
  BY <1>1 DEF Flag
<1>7. s = m + b + w + l + o
  BY DEF StatusByte, MANUAL, AWAY, BOOST, WINDOW, LOCKED, LOW_BATTERY
<1> HIDE DEF m, b, w, l, o, s
<1>8. /\ Bit(s, 1) <=> m = 1
      /\ Bit(s, 2) <=> m = 2
      /\ Bit(s, 4) <=> b = 4
      /\ Bit(s, 16) <=> w = 16
      /\ Bit(s, 32) <=> l = 32
      /\ Bit(s, 128) <=> o = 128
  BY <1>2, <1>3, <1>4, <1>5, <1>6, <1>7, FlagsApart
<1>9. /\ MANUAL = 1 /\ AWAY = 2 /\ BOOST = 4 /\ WINDOW = 16 /\ LOCKED = 32
      /\ LOW_BATTERY = 128
  BY DEF MANUAL, AWAY, BOOST, WINDOW, LOCKED, LOW_BATTERY
<1> QED  BY <1>2, <1>3, <1>4, <1>5, <1>6, <1>8, <1>9 DEF s

\* Half degrees are printed as they are.
LEMMA TempReport == ASSUME NEW x \in 9 .. 60 PROVE temp_report(x) = 5 * x
<1>1. x \div 2 \in Int /\ x \div 2 >= 0
  OBVIOUS
<1>2. CASE x % 2 = 1
  <2>1. x = 2 * (x \div 2) + 1
    BY <1>2
  <2>2. temp_report(x) = 10 * (x \div 2) + 5
    BY <1>1, <1>2 DEF temp_report, Printed, Bit
  <2> QED  BY <2>1, <2>2
<1>3. CASE x % 2 # 1
  <2>1. x = 2 * (x \div 2)
    BY <1>3
  <2>2. temp_report(x) = 10 * (x \div 2)
    BY <1>1, <1>3 DEF temp_report, Printed, Bit
  <2> QED  BY <2>1, <2>2
<1> QED  BY <1>2, <1>3

\* So is an offset that is not negative, or a whole number of degrees.
LEMMA OffsetReport ==
    ASSUME NEW x \in 0 .. 14, x >= 7 \/ (x - 7) % 2 = 0
    PROVE  offset_report(x) = 5 * (x - 7)
<1>1. int8(x - 7) = x - 7
  BY DEF int8
<1> DEFINE y == x - 7
<1>2. y \in -7 .. 7 /\ (y >= 0 \/ y % 2 = 0)
  OBVIOUS
<1> HIDE DEF y
<1>3. offset_report(x) = Printed(y \div 2, IF y % 2 = 1 THEN 5 ELSE 0)
  BY <1>1 DEF offset_report, y
<1>4. CASE y % 2 = 1
  <2>1. y = 2 * (y \div 2) + 1 /\ y \div 2 >= 0 /\ y \div 2 \in Int
    BY <1>2, <1>4
  <2> QED  BY <1>3, <1>4, <2>1 DEF Printed, y
<1>5. CASE y % 2 # 1
  <2>1. y = 2 * (y \div 2) /\ y \div 2 \in Int
    BY <1>2, <1>5
  <2> QED  BY <1>3, <1>5, <2>1 DEF Printed, y
<1> QED  BY <1>4, <1>5

\* What is decoded from a notification is the valve's state.
LEMMA Decoded ==
    ASSUME NEW v \in ValveSet, NEW n \in Nat, n > 5
    PROVE  LET r == NotifyEvt(Notification(v, n)) IN
           /\ r.temp = {5 * v.temp} /\ r.mode = v.mode
           /\ r.boost = v.boost /\ r.window = v.window
           /\ r.locked = v.locked /\ r.low = v.low
           /\ v.offset >= 7 \/ (v.offset - 7) % 2 = 0 =>
                \A o \in r.offset : o = 5 * (v.offset - 7)
<1> DEFINE N == Notification(v, n)  r == NotifyEvt(N)  s == StatusByte(v)
<1>1. /\ v.temp \in 9 .. 60 /\ v.offset \in 0 .. 14 /\ v.mode \in Modes
      /\ v.boost \in BOOLEAN /\ v.window \in BOOLEAN
      /\ v.locked \in BOOLEAN /\ v.low \in BOOLEAN
  BY DEF ValveSet
<1>2. N.value_len = n /\ N.value[2] = s /\ N.value[5] = v.temp /\ N.value[14] = v.offset
  BY DEF Notification
<1> HIDE DEF N, s
<1>4. r.temp = {temp_report(v.temp)}
  BY <1>2 DEF NotifyEvt
<1>5. r.offset = IF n >= 14 THEN {offset_report(v.offset)} ELSE {}
  BY <1>2 DEF NotifyEvt
<1>6. /\ r.mode = IF Bit(s, MANUAL) THEN "manual" ELSE IF Bit(s, AWAY) THEN "holiday" ELSE "auto"
      /\ r.boost = Bit(s, BOOST) /\ r.window = Bit(s, WINDOW)
      /\ r.locked = Bit(s, LOCKED) /\ r.low = Bit(s, LOW_BATTERY)
  BY <1>2 DEF NotifyEvt
<1> HIDE DEF r
<1>7. /\ Bit(s, MANUAL) <=> v.mode = "manual"
      /\ Bit(s, AWAY) <=> v.mode = "holiday"
      /\ Bit(s, BOOST) <=> v.boost
      /\ Bit(s, WINDOW) <=> v.window
      /\ Bit(s, LOCKED) <=> v.locked
      /\ Bit(s, LOW_BATTERY) <=> v.low
  BY StatusFlags DEF s
<1>8. r.mode = v.mode
  BY <1>1, <1>6, <1>7 DEF Modes
<1>9. \A x, y : Bit(x, y) \in BOOLEAN
  BY DEF Bit
<1>10. r.boost = v.boost /\ r.window = v.window /\ r.locked = v.locked /\ r.low = v.low
  BY <1>1, <1>6, <1>7, <1>9
<1>11. r.temp = {5 * v.temp}
  BY <1>1, <1>4, TempReport
<1>12. v.offset >= 7 \/ (v.offset - 7) % 2 = 0 => \A o \in r.offset : o = 5 * (v.offset - 7)
  BY <1>1, <1>5, OffsetReport
<1> QED  BY <1>8, <1>10, <1>11, <1>12 DEF r, N
-----------------------------------------------------------------------------
(* Commands *)

\* Each command changes the one setting it is for.
LEMMA SetTempCarried ==
    ASSUME NEW v \in ValveSet, NEW x \in 9 .. 60
    PROVE  /\ Carries(v, setup_command("EQ3_SETTEMP", <<x>>)) = [v EXCEPT !.temp = x]
           /\ [v EXCEPT !.temp = x] \in ValveSet
<1>1. setup_command("EQ3_SETTEMP", <<x>>) = <<PROP_TEMPERATURE_WRITE, x>>
  BY DEF setup_command
<1>2. Carries(v, <<PROP_TEMPERATURE_WRITE, x>>) = [v EXCEPT !.temp = x]
  BY DEF Carries, PROP_INFO_QUERY, PROP_OFFSET, PROP_MODE_WRITE,
         PROP_TEMPERATURE_WRITE, PROP_BOOST, PROP_LOCK
<1>3. [v EXCEPT !.temp = x] \in ValveSet
  BY DEF ValveSet
<1> QED  BY <1>1, <1>2, <1>3

LEMMA OffsetCarried ==
    ASSUME NEW v \in ValveSet, NEW x \in 0 .. 14
    PROVE  /\ Carries(v, setup_command("EQ3_OFFSET", <<x>>)) = [v EXCEPT !.offset = x]
           /\ [v EXCEPT !.offset = x] \in ValveSet
<1>1. setup_command("EQ3_OFFSET", <<x>>) = <<PROP_OFFSET, x>>
  BY DEF setup_command
<1>2. Carries(v, <<PROP_OFFSET, x>>) = [v EXCEPT !.offset = x]
  BY DEF Carries, PROP_INFO_QUERY, PROP_OFFSET, PROP_MODE_WRITE,
         PROP_TEMPERATURE_WRITE, PROP_BOOST, PROP_LOCK
<1>3. [v EXCEPT !.offset = x] \in ValveSet
  BY DEF ValveSet
<1> QED  BY <1>1, <1>2, <1>3

LEMMA TailOfOne ==
    ASSUME NEW x \in Int, NEW q \in Seq(Int)
    PROVE  Tail(<<x>> \o q) = q
<1> DEFINE s == <<x>> \o q
<1>1. /\ <<x>> \in Seq(Int) /\ Len(<<x>>) = 1 /\ s \in Seq(Int) /\ Len(s) = Len(q) + 1
      /\ Len(q) \in Nat
  BY ConcatProperties
<1>2. \A i \in 1 .. Len(q) : s[i + 1] = q[i]
  BY <1>1
<1> HIDE DEF s
<1>3. s # <<>>
  BY <1>1
<1>4. Tail(s) \in Seq(Int) /\ Len(Tail(s)) = Len(q)
  BY <1>1, <1>3
<1>5. \A i \in 1 .. Len(q) : Tail(s)[i] = q[i]
  BY <1>1, <1>2, <1>3
<1>6. Tail(s) = q
  BY <1>4, <1>5, SeqEqual
<1> QED  BY <1>6 DEF s

LEMMA TimeCarried ==
    ASSUME NEW v \in ValveSet, NEW time \in TimeBytes
    PROVE  /\ Carries(v, setup_command("EQ3_SETTIME", time)) = [v EXCEPT !.time = time]
           /\ [v EXCEPT !.time = time] \in ValveSet
<1> DEFINE bytes == <<PROP_INFO_QUERY>> \o time
<1>1. setup_command("EQ3_SETTIME", time) = bytes
  BY DEF setup_command
<1>2. PROP_INFO_QUERY \in Int
  BY DEF PROP_INFO_QUERY
<1>3. bytes[1] = PROP_INFO_QUERY
  BY <1>2
<1>4. Tail(bytes) = time
  BY <1>2, TimeIsSeq, TailOfOne
<1> HIDE DEF bytes
<1>5. /\ bytes[1] # PROP_BOOST /\ bytes[1] # PROP_MODE_WRITE
      /\ bytes[1] # PROP_TEMPERATURE_WRITE /\ bytes[1] # PROP_OFFSET
      /\ bytes[1] # PROP_LOCK
  BY <1>3 DEF PROP_INFO_QUERY, PROP_OFFSET, PROP_MODE_WRITE,
              PROP_TEMPERATURE_WRITE, PROP_BOOST, PROP_LOCK
<1>6. Carries(v, bytes) = [v EXCEPT !.time = Tail(bytes)]
  BY <1>3, <1>5, Zenon DEF Carries
<1>7. [v EXCEPT !.time = time] \in ValveSet
  BY DEF ValveSet
<1> QED  BY <1>1, <1>4, <1>6, <1>7

LEMMA BoostCarried ==
    ASSUME NEW v \in ValveSet
    PROVE  /\ Carries(v, setup_command("EQ3_BOOST", <<>>)) = [v EXCEPT !.boost = TRUE]
           /\ Carries(v, setup_command("EQ3_UNBOOST", <<>>)) = [v EXCEPT !.boost = FALSE]
<1>1. /\ setup_command("EQ3_BOOST", <<>>) = <<PROP_BOOST, 1>>
      /\ setup_command("EQ3_UNBOOST", <<>>) = <<PROP_BOOST, 0>>
  BY DEF setup_command
<1>2. ASSUME NEW x \in Int
      PROVE  Carries(v, <<PROP_BOOST, x>>) = [v EXCEPT !.boost = (x # 0)]
  BY DEF Carries, PROP_INFO_QUERY, PROP_OFFSET, PROP_MODE_WRITE,
         PROP_TEMPERATURE_WRITE, PROP_BOOST, PROP_LOCK
<1>3. (1 # 0) = TRUE /\ (0 # 0) = FALSE
  OBVIOUS
<1>4. /\ Carries(v, <<PROP_BOOST, 1>>) = [v EXCEPT !.boost = (1 # 0)]
      /\ Carries(v, <<PROP_BOOST, 0>>) = [v EXCEPT !.boost = (0 # 0)]
  BY <1>2
<1> QED  BY <1>1, <1>3, <1>4, Zenon

LEMMA ModeCarried ==
    ASSUME NEW v \in ValveSet
    PROVE  /\ Carries(v, setup_command("EQ3_AUTO", <<>>)) = [v EXCEPT !.mode = "auto"]
           /\ Carries(v, setup_command("EQ3_MANUAL", <<>>)) = [v EXCEPT !.mode = "manual"]
<1>1. /\ setup_command("EQ3_AUTO", <<>>) = <<PROP_MODE_WRITE, 0>>
      /\ setup_command("EQ3_MANUAL", <<>>) = <<PROP_MODE_WRITE, 64>>
  BY DEF setup_command
<1>2. /\ Carries(v, <<PROP_MODE_WRITE, 0>>) = [v EXCEPT !.mode = "auto"]
      /\ Carries(v, <<PROP_MODE_WRITE, 64>>) = [v EXCEPT !.mode = "manual"]
  BY DEF Carries, PROP_INFO_QUERY, PROP_OFFSET, PROP_MODE_WRITE,
         PROP_TEMPERATURE_WRITE, PROP_BOOST, PROP_LOCK
<1> QED  BY <1>1, <1>2

LEMMA LockCarried ==
    ASSUME NEW v \in ValveSet
    PROVE  /\ Carries(v, setup_command("EQ3_LOCK", <<>>)) = [v EXCEPT !.locked = TRUE]
           /\ Carries(v, setup_command("EQ3_UNLOCK", <<>>)) = [v EXCEPT !.locked = FALSE]
<1>1. /\ setup_command("EQ3_LOCK", <<>>) = <<PROP_LOCK, 1>>
      /\ setup_command("EQ3_UNLOCK", <<>>) = <<PROP_LOCK, 0>>
  BY DEF setup_command
<1>2. ASSUME NEW x \in Int
      PROVE  Carries(v, <<PROP_LOCK, x>>) = [v EXCEPT !.locked = (x # 0)]
  BY DEF Carries, PROP_INFO_QUERY, PROP_OFFSET, PROP_MODE_WRITE,
         PROP_TEMPERATURE_WRITE, PROP_BOOST, PROP_LOCK
<1>3. (1 # 0) = TRUE /\ (0 # 0) = FALSE
  OBVIOUS
<1>4. /\ Carries(v, <<PROP_LOCK, 1>>) = [v EXCEPT !.locked = (1 # 0)]
      /\ Carries(v, <<PROP_LOCK, 0>>) = [v EXCEPT !.locked = (0 # 0)]
  BY <1>2
<1> QED  BY <1>1, <1>3, <1>4, Zenon

LEMMA SwitchTyped ==
    ASSUME NEW v \in ValveSet, NEW b \in BOOLEAN, NEW m \in Modes
    PROVE  /\ [v EXCEPT !.boost = b] \in ValveSet /\ [v EXCEPT !.mode = m] \in ValveSet
           /\ [v EXCEPT !.locked = b] \in ValveSet
  BY DEF ValveSet

-----------------------------------------------------------------------------
(* Steps *)

Typed == valve \in ValveSet /\ accepted \in BOOLEAN /\ ntp_enabled \in BOOLEAN

\* The report shows the valve.
Shows ==
    /\ report.temp = {5 * valve.temp} /\ report.mode = valve.mode
    /\ report.boost = valve.boost /\ report.window = valve.window
    /\ report.locked = valve.locked /\ report.low = valve.low

\* What handle_request() does that accepts a request for the valve to become v.
Accepts(verb, t, v) ==
    /\ request' = [verb |-> verb, num |-> t] /\ accepted' = TRUE
    /\ valve' = v /\ ntp_enabled' = ntp_enabled

LEMMA ExchangeEffect ==
    ASSUME NEW verb, NEW t, NEW command, NEW parms, NEW v \in ValveSet,
           Carries(valve, setup_command(command, parms)) = v, Typed,
           Exchange(verb, t, command, parms)
    PROVE  Accepts(verb, t, v) /\ Shows' /\ OffsetShownIfSimple' /\ Typed'
<1>1. Accepts(verb, t, v)
  BY DEF Exchange, Accepts
<1>2. valve' = v
  BY <1>1 DEF Accepts
<1>3. PICK n \in Lens : report' = NotifyEvt(Notification(v, n))
  BY <1>2 DEF Exchange
<1>4. n \in Nat /\ n > 5
  BY CodecAssumption
<1>5. /\ report'.temp = {5 * v.temp} /\ report'.mode = v.mode
      /\ report'.boost = v.boost /\ report'.window = v.window
      /\ report'.locked = v.locked /\ report'.low = v.low
      /\ v.offset >= 7 \/ (v.offset - 7) % 2 = 0 =>
                \A o \in report'.offset : o = 5 * (v.offset - 7)
  BY <1>3, <1>4, Decoded
<1>6. Shows'
  BY <1>2, <1>5 DEF Shows
<1>7. OffsetShownIfSimple'
  BY <1>2, <1>5 DEF OffsetShownIfSimple
<1>8. Typed'
  BY <1>1, <1>2 DEF Typed, Accepts
<1> QED  BY <1>1, <1>6, <1>7, <1>8

LEMMA InvalidEffect ==
    ASSUME NEW verb, NEW t, Typed, Invalid(verb, t)
    PROVE  /\ Typed' /\ valve' = valve /\ report' = report /\ accepted' = FALSE
           /\ request' = [verb |-> verb, num |-> t]
  BY DEF Typed, Invalid

\* What the valve does by itself.
LEMMA OwnEffect ==
    ASSUME Typed, ValveChanges
    PROVE  /\ Typed' /\ valve'.temp = valve.temp /\ valve'.offset = valve.offset
           /\ valve'.locked = valve.locked /\ valve'.time = valve.time
<1>1. PICK own \in Own :
         valve' = [valve EXCEPT !.mode = own.mode, !.boost = own.boost,
                                !.window = own.window, !.low = own.low]
  BY DEF ValveChanges
<1>2. own \in [mode : {"auto", "manual", "holiday"}, boost : BOOLEAN,
               window : BOOLEAN, low : BOOLEAN]
  BY CodecAssumption
<1>3. /\ own.mode \in Modes /\ own.boost \in BOOLEAN /\ own.window \in BOOLEAN
      /\ own.low \in BOOLEAN
  BY <1>2 DEF Modes
<1>4. valve \in ValveSet
  BY DEF Typed
<1>5. valve' \in ValveSet
  BY <1>1, <1>3, <1>4 DEF ValveSet
<1>6. /\ valve'.temp = valve.temp /\ valve'.offset = valve.offset
      /\ valve'.locked = valve.locked /\ valve'.time = valve.time
  BY <1>1, <1>4 DEF ValveSet
<1>7. Typed'
  BY <1>5 DEF Typed, ValveChanges
<1> QED  BY <1>6, <1>7

\* The commands without an argument.
LEMMA SimpleEffect ==
    ASSUME Typed, simple_command
    PROVE  /\ Shows' /\ OffsetShownIfSimple' /\ Typed'
           /\ \/ Accepts("on", 0, [valve EXCEPT !.temp = 60])
              \/ Accepts("off", 0, [valve EXCEPT !.temp = 9])
              \/ Accepts("boost", 0, [valve EXCEPT !.boost = TRUE])
              \/ Accepts("unboost", 0, [valve EXCEPT !.boost = FALSE])
              \/ Accepts("auto", 0, [valve EXCEPT !.mode = "auto"])
              \/ Accepts("manual", 0, [valve EXCEPT !.mode = "manual"])
              \/ Accepts("lock", 0, [valve EXCEPT !.locked = TRUE])
              \/ Accepts("unlock", 0, [valve EXCEPT !.locked = FALSE])
<1>1. valve \in ValveSet /\ on_parm = 60 /\ off_parm = 9
  BY DEF Typed, on_parm, off_parm
<1>2. /\ 60 \in 9 .. 60 /\ 9 \in 9 .. 60
      /\ "auto" \in Modes /\ "manual" \in Modes
  BY DEF Modes
<1>3. /\ [valve EXCEPT !.boost = TRUE] \in ValveSet /\ [valve EXCEPT !.boost = FALSE] \in ValveSet
      /\ [valve EXCEPT !.mode = "auto"] \in ValveSet /\ [valve EXCEPT !.mode = "manual"] \in ValveSet
      /\ [valve EXCEPT !.locked = TRUE] \in ValveSet /\ [valve EXCEPT !.locked = FALSE] \in ValveSet
  BY <1>1, <1>2, SwitchTyped, Zenon
<1>4. CASE Exchange("on", 0, "EQ3_SETTEMP", <<on_parm>>)
  <2>1. Exchange("on", 0, "EQ3_SETTEMP", <<60>>)
    BY <1>1, <1>4
  <2>2. /\ Carries(valve, setup_command("EQ3_SETTEMP", <<60>>)) = [valve EXCEPT !.temp = 60]
        /\ [valve EXCEPT !.temp = 60] \in ValveSet
    BY <1>1, <1>2, SetTempCarried, Zenon
  <2> QED  BY <2>1, <2>2, ExchangeEffect, Zenon
<1>5. CASE Exchange("off", 0, "EQ3_SETTEMP", <<off_parm>>)
  <2>1. Exchange("off", 0, "EQ3_SETTEMP", <<9>>)
    BY <1>1, <1>5
  <2>2. /\ Carries(valve, setup_command("EQ3_SETTEMP", <<9>>)) = [valve EXCEPT !.temp = 9]
        /\ [valve EXCEPT !.temp = 9] \in ValveSet
    BY <1>1, <1>2, SetTempCarried, Zenon
  <2> QED  BY <2>1, <2>2, ExchangeEffect, Zenon
<1>6. CASE Exchange("boost", 0, "EQ3_BOOST", <<>>)
  BY <1>1, <1>3, <1>6, BoostCarried, ExchangeEffect, Zenon
<1>7. CASE Exchange("unboost", 0, "EQ3_UNBOOST", <<>>)
  BY <1>1, <1>3, <1>7, BoostCarried, ExchangeEffect, Zenon
<1>8. CASE Exchange("auto", 0, "EQ3_AUTO", <<>>)
  BY <1>1, <1>3, <1>8, ModeCarried, ExchangeEffect, Zenon
<1>9. CASE Exchange("manual", 0, "EQ3_MANUAL", <<>>)
  BY <1>1, <1>3, <1>9, ModeCarried, ExchangeEffect, Zenon
<1>10. CASE Exchange("lock", 0, "EQ3_LOCK", <<>>)
  BY <1>1, <1>3, <1>10, LockCarried, ExchangeEffect, Zenon
<1>11. CASE Exchange("unlock", 0, "EQ3_UNLOCK", <<>>)
  BY <1>1, <1>3, <1>11, LockCarried, ExchangeEffect, Zenon
<1> QED
  BY <1>4, <1>5, <1>6, <1>7, <1>8, <1>9, <1>10, <1>11, Zenon DEF simple_command

LEMMA TempEffect ==
    ASSUME NEW t \in Args, Typed, settemp_request(t)
    PROVE  /\ Typed'
           /\ IF t >= 50 /\ t < 300
              THEN /\ Shows' /\ OffsetShownIfSimple'
                   /\ Accepts("settemp", t, [valve EXCEPT !.temp = t \div 5])
              ELSE Invalid("settemp", t)
<1>1. t \in Int /\ valve \in ValveSet
  BY CodecAssumption DEF Typed
<1>2. /\ TempAccepted(t) <=> t >= 50 /\ t < 300
      /\ TempAccepted(t) => settemp_parm(t) = t \div 5 /\ settemp_parm(t) \in 9 .. 60
  BY <1>1, TempArg
<1>3. CASE TempAccepted(t)
  <2>1. Exchange("settemp", t, "EQ3_SETTEMP", <<settemp_parm(t)>>)
    BY <1>3 DEF settemp_request
  <2>2. /\ Carries(valve, setup_command("EQ3_SETTEMP", <<settemp_parm(t)>>)) =
              [valve EXCEPT !.temp = settemp_parm(t)]
        /\ [valve EXCEPT !.temp = settemp_parm(t)] \in ValveSet
    BY <1>1, <1>2, <1>3, SetTempCarried, Zenon
  <2>3. /\ Shows' /\ OffsetShownIfSimple' /\ Typed'
        /\ Accepts("settemp", t, [valve EXCEPT !.temp = settemp_parm(t)])
    BY <2>1, <2>2, ExchangeEffect, Zenon
  <2> QED  BY <1>2, <1>3, <2>3, Zenon
<1>4. CASE ~TempAccepted(t)
  <2>1. Invalid("settemp", t)
    BY <1>4 DEF settemp_request
  <2>2. Typed'
    BY <2>1, InvalidEffect
  <2> QED  BY <1>2, <1>4, <2>1, <2>2, Zenon
<1> QED  BY <1>3, <1>4

LEMMA OffsetEffect ==
    ASSUME NEW t \in Args, Typed, offset_request(t)
    PROVE  /\ Typed'
           /\ IF t \in -35 .. 35
              THEN /\ Shows' /\ OffsetShownIfSimple'
                   /\ Accepts("offset", t, [valve EXCEPT !.offset = t \div 5 + 7])
              ELSE Invalid("offset", t)
<1>1. t \in Int /\ valve \in ValveSet
  BY CodecAssumption DEF Typed
<1>2. /\ OffsetAccepted(t) <=> t \in -35 .. 35
      /\ OffsetAccepted(t) => offset_parm(t) = t \div 5 + 7 /\ offset_parm(t) \in 0 .. 14
  BY <1>1, OffsetArg
<1>3. CASE OffsetAccepted(t)
  <2>1. Exchange("offset", t, "EQ3_OFFSET", <<offset_parm(t)>>)
    BY <1>3 DEF offset_request
  <2>2. /\ Carries(valve, setup_command("EQ3_OFFSET", <<offset_parm(t)>>)) =
              [valve EXCEPT !.offset = offset_parm(t)]
        /\ [valve EXCEPT !.offset = offset_parm(t)] \in ValveSet
    BY <1>1, <1>2, <1>3, OffsetCarried, Zenon
  <2>3. /\ Shows' /\ OffsetShownIfSimple' /\ Typed'
        /\ Accepts("offset", t, [valve EXCEPT !.offset = offset_parm(t)])
    BY <2>1, <2>2, ExchangeEffect, Zenon
  <2> QED  BY <1>2, <1>3, <2>3, Zenon
<1>4. CASE ~OffsetAccepted(t)
  <2>1. Invalid("offset", t)
    BY <1>4 DEF offset_request
  <2>2. Typed'
    BY <2>1, InvalidEffect
  <2> QED  BY <1>2, <1>4, <2>1, <2>2, Zenon
<1> QED  BY <1>3, <1>4

\* A settime that is carried out.
LEMMA SettimeEffect ==
    ASSUME NEW time \in TimeBytes, Typed, Exchange("settime", 0, "EQ3_SETTIME", time)
    PROVE  /\ Shows' /\ OffsetShownIfSimple' /\ Typed'
           /\ Accepts("settime", 0, [valve EXCEPT !.time = time])
<1>1. valve \in ValveSet
  BY DEF Typed
<1>2. /\ Carries(valve, setup_command("EQ3_SETTIME", time)) = [valve EXCEPT !.time = time]
      /\ [valve EXCEPT !.time = time] \in ValveSet
  BY <1>1, TimeCarried, Zenon
<1> QED  BY <1>2, ExchangeEffect, Zenon

Settime ==
    \/ \E time \in TimeArgs : settime_digits(time)
    \/ \E given \in {"none", "cut"} : settime_short(given)
    \/ \E date \in Clocks :
          settime_alone(date) \/ \E time \in TimeArgs : settime_late(time, date)

\* What the last settime was to set.
Wanted(time) ==
    ~asked.behind =>
        IF asked.given = "whole" THEN time = asked.time
        ELSE asked.date[1] \in 0 .. 255 => time = asked.date

\* A settime is refused, or sends a time: the one it was to set.
LEMMA SettimeKinds ==
    ASSUME Typed, Settime
    PROVE  \/ Invalid("settime", 0)
           \/ \E time \in TimeBytes :
                 Exchange("settime", 0, "EQ3_SETTIME", time) /\ Wanted(time)'
<1>1. TimeArgs \subseteq TimeBytes /\ Garbage \subseteq TimeBytes
  BY CodecAssumption
<1>2. ASSUME NEW time \in TimeArgs, settime_digits(time)
      PROVE  \E x \in TimeBytes : Exchange("settime", 0, "EQ3_SETTIME", x) /\ Wanted(x)'
  <2>1. time \in TimeBytes /\ Exchange("settime", 0, "EQ3_SETTIME", time)
    BY <1>1, <1>2 DEF settime_digits
  <2>2. asked'.given = "whole" /\ asked'.time = time
    BY <1>2 DEF settime_digits, Asked
  <2>3. Wanted(time)'
    BY <2>2 DEF Wanted
  <2> QED  BY <2>1, <2>3
<1>3. ASSUME NEW given, settime_short(given)
      PROVE  Invalid("settime", 0)
  BY <1>3 DEF settime_short
<1>4. ASSUME NEW date \in Clocks, FromClock(date),
             asked'.given # "whole", asked'.date = Calendar(date)
      PROVE  \/ Invalid("settime", 0)
             \/ \E x \in TimeBytes : Exchange("settime", 0, "EQ3_SETTIME", x) /\ Wanted(x)'
  <2>1. CASE Invalid("settime", 0)
    BY <2>1
  <2>2. CASE Exchange("settime", 0, "EQ3_SETTIME", ntp_parms(tm(date)))
    <3> DEFINE x == ntp_parms(tm(date))
    <3>1. x \in TimeBytes /\ (asked'.date[1] \in 0 .. 255 => x = asked'.date)
      BY <1>4, DateArg
    <3> HIDE DEF x
    <3>2. Wanted(x)'
      BY <1>4, <3>1 DEF Wanted
    <3> QED  BY <2>2, <3>1, <3>2 DEF x
  <2> QED  BY <1>4, <2>1, <2>2 DEF FromClock
<1>5. ASSUME NEW date \in Clocks, NEW time \in TimeArgs, settime_late(time, date)
      PROVE  \/ Invalid("settime", 0)
             \/ \E x \in TimeBytes : Exchange("settime", 0, "EQ3_SETTIME", x) /\ Wanted(x)'
  <2>1. FromClock(date) /\ asked'.given # "whole" /\ asked'.date = Calendar(date)
    BY <1>5 DEF settime_late, Asked
  <2> QED  BY <1>4, <2>1
<1>6. ASSUME NEW date \in Clocks, settime_alone(date)
      PROVE  \/ Invalid("settime", 0)
             \/ \E x \in TimeBytes : Exchange("settime", 0, "EQ3_SETTIME", x) /\ Wanted(x)'
  <2>1. CASE FromClock(date) /\ asked' = Asked("none", NoTime, Calendar(date))
    <3>1. asked'.given # "whole" /\ asked'.date = Calendar(date)
      BY <2>1 DEF Asked
    <3> QED  BY <1>4, <2>1, <3>1
  <2>2. CASE /\ \E time \in Garbage : Exchange("settime", 0, "EQ3_SETTIME", time)
             /\ asked' = [NotAsked EXCEPT !.behind = TRUE]
    <3>1. asked'.behind
      BY <2>2 DEF NotAsked, Asked
    <3>2. \A x : Wanted(x)'
      BY <3>1 DEF Wanted
    <3> QED  BY <1>1, <2>2, <3>2
  <2> QED  BY <1>6, <2>1, <2>2 DEF settime_alone
<1> QED  BY <1>2, <1>3, <1>5, <1>6, Zenon DEF Settime

\* The kinds of steps, for the theorems below.
LEMMA NextKinds ==
    ASSUME Next
    PROVE  \/ \E t \in Args : settemp_request(t)
           \/ \E t \in Args : offset_request(t)
           \/ simple_command \/ Settime \/ ValveChanges
  BY Zenon DEF Next, Settime

-----------------------------------------------------------------------------
(* Theorems *)

\* Types, and the offset that is shown.
CodecInv == Typed /\ OffsetShownIfSimple

LEMMA CodecInvInit == ASSUME Init PROVE CodecInv /\ Shows
<1>1. valve \in ValveSet
  BY DEF Init, ValveSet, Modes
<1>2. Typed
  BY <1>1 DEF Init, Typed
<1>3. report = NotifyEvt(Notification(valve, 15))
  BY DEF Init
<1>4. /\ report.temp = {5 * valve.temp} /\ report.mode = valve.mode
      /\ report.boost = valve.boost /\ report.window = valve.window
      /\ report.locked = valve.locked /\ report.low = valve.low
      /\ valve.offset >= 7 \/ (valve.offset - 7) % 2 = 0 =>
                \A o \in report.offset : o = 5 * (valve.offset - 7)
  BY <1>1, <1>3, Decoded
<1> QED  BY <1>2, <1>4 DEF CodecInv, Shows, OffsetShownIfSimple

LEMMA CodecInvStep == ASSUME CodecInv, [Next]_vars PROVE CodecInv'
<1> Typed /\ OffsetShownIfSimple
  BY DEF CodecInv
<1>1. ASSUME NEW verb, NEW t, Invalid(verb, t) PROVE CodecInv'
  <2>1. Typed' /\ valve' = valve /\ report' = report
    BY <1>1, InvalidEffect
  <2> QED  BY <2>1 DEF CodecInv, OffsetShownIfSimple
<1>2. ASSUME NEW t \in Args, settemp_request(t) PROVE CodecInv'
  BY <1>1, <1>2, TempEffect, Zenon DEF CodecInv
<1>3. ASSUME NEW t \in Args, offset_request(t) PROVE CodecInv'
  BY <1>1, <1>3, OffsetEffect, Zenon DEF CodecInv
<1>4. CASE simple_command
  BY <1>4, SimpleEffect, Zenon DEF CodecInv
<1>5. CASE Settime
  <2>1. CASE Invalid("settime", 0)
    BY <1>1, <2>1
  <2>2. ASSUME NEW time \in TimeBytes, Exchange("settime", 0, "EQ3_SETTIME", time)
        PROVE  CodecInv'
    BY <2>2, SettimeEffect, Zenon DEF CodecInv
  <2> QED  BY <1>5, <2>1, <2>2, SettimeKinds, Zenon
<1>6. CASE ValveChanges
  <2>1. Typed' /\ valve'.offset = valve.offset
    BY <1>6, OwnEffect
  <2>2. report' = report
    BY <1>6 DEF ValveChanges
  <2> QED  BY <2>1, <2>2 DEF CodecInv, OffsetShownIfSimple
<1>7. CASE UNCHANGED vars
  <2>1. /\ valve' = valve /\ accepted' = accepted /\ ntp_enabled' = ntp_enabled
        /\ report' = report
    BY <1>7 DEF vars
  <2> QED  BY <2>1 DEF CodecInv, Typed, OffsetShownIfSimple
<1> QED  BY <1>2, <1>3, <1>4, <1>5, <1>6, <1>7, NextKinds, Zenon

LEMMA CodecInvAlways == Spec => []CodecInv
<1>1. Init => CodecInv
  BY CodecInvInit
<1>2. CodecInv /\ [Next]_vars => CodecInv'
  BY CodecInvStep
<1> QED  BY <1>1, <1>2, PTL DEF Spec

\* Whatever argument a request has, what setup_command() sends is a setting the
\* valve has: 4.5 to 30 degrees, an offset of -3.5 to 3.5 degrees, six bytes.
THEOREM CodecTypeCorrect == Spec => []TypeOK
<1>1. CodecInv => TypeOK
  BY DEF CodecInv, Typed, ValveSet, Modes, TypeOK
<1> QED  BY <1>1, CodecInvAlways, PTL

\* An offset in a status report (handler of NOTIFY_EVT) is the valve's, for every
\* offset that is not negative or is a whole number of degrees.
THEOREM CodecOffsetShown == Spec => []OffsetShownIfSimple
<1>1. CodecInv => OffsetShownIfSimple
  BY DEF CodecInv
<1> QED  BY <1>1, CodecInvAlways, PTL

\* A settime sets the valve to the time that stands right behind the blank or,
\* when none stands there, to the date of the hub's clock, whatever lies in memory
\* behind the text (the settime branch of handle_request()).
THEOREM CodecClockIsSet == Spec => []ClockIsSet
<1>1. Init => ClockIsSet
  BY DEF Init, ClockIsSet
<1>2. ASSUME CodecInv, ClockIsSet, [Next]_vars PROVE ClockIsSet'
  <2> Typed /\ valve \in ValveSet
    BY <1>2 DEF CodecInv, Typed
  <2>1. ASSUME NEW verb, NEW t, Invalid(verb, t) PROVE ClockIsSet'
    <3>1. ~accepted'
      BY <2>1 DEF Invalid
    <3> QED  BY <3>1 DEF ClockIsSet
  <2>2. ASSUME NEW verb, NEW t, NEW v, verb # "settime", Accepts(verb, t, v)
        PROVE  ClockIsSet'
    <3>1. request'.verb = verb
      BY <2>2 DEF Accepts
    <3> QED  BY <2>2, <3>1 DEF ClockIsSet
  <2>3. ASSUME NEW t \in Args, settemp_request(t) PROVE ClockIsSet'
    <3>1. "settemp" # "settime"
      OBVIOUS
    <3> QED  BY <2>1, <2>2, <2>3, <3>1, TempEffect, Zenon
  <2>4. ASSUME NEW t \in Args, offset_request(t) PROVE ClockIsSet'
    <3>1. "offset" # "settime"
      OBVIOUS
    <3> QED  BY <2>1, <2>2, <2>4, <3>1, OffsetEffect, Zenon
  <2>5. CASE simple_command
    <3>1. /\ "on" # "settime" /\ "off" # "settime" /\ "boost" # "settime"
          /\ "unboost" # "settime" /\ "auto" # "settime" /\ "manual" # "settime"
          /\ "lock" # "settime" /\ "unlock" # "settime"
      OBVIOUS
    <3> QED  BY <2>2, <2>5, <3>1, SimpleEffect, Zenon
  <2>6. CASE Settime
    <3>1. CASE Invalid("settime", 0)
      BY <2>1, <3>1
    <3>2. ASSUME NEW time \in TimeBytes, Wanted(time)',
                 Exchange("settime", 0, "EQ3_SETTIME", time)
          PROVE  ClockIsSet'
      <4>1. Accepts("settime", 0, [valve EXCEPT !.time = time])
        BY <3>2, SettimeEffect
      <4>2. valve' = [valve EXCEPT !.time = time]
        BY <4>1 DEF Accepts
      <4>3. valve'.time = time
        BY <4>2 DEF ValveSet
      <4> QED  BY <3>2, <4>3 DEF ClockIsSet, Wanted
    <3> QED  BY <2>6, <3>1, <3>2, SettimeKinds, Zenon
  <2>7. CASE ValveChanges
    <3>1. valve'.time = valve.time
      BY <2>7, OwnEffect
    <3>2. request' = request /\ accepted' = accepted /\ asked' = asked
      BY <2>7 DEF ValveChanges
    <3> QED  BY <1>2, <3>1, <3>2 DEF ClockIsSet
  <2>8. CASE UNCHANGED vars
    <3>1. /\ valve' = valve /\ accepted' = accepted /\ request' = request
          /\ asked' = asked
      BY <2>8 DEF vars
    <3> QED  BY <1>2, <3>1 DEF ClockIsSet
  <2> QED  BY <1>2, <2>3, <2>4, <2>5, <2>6, <2>7, <2>8, NextKinds, Zenon
<1> QED  BY <1>1, <1>2, CodecInvAlways, PTL DEF Spec

-----------------------------------------------------------------------------
(* The contract *)

\* A request that is accepted, seen by the user.
LEMMA AcceptKept ==
    ASSUME NEW verb, NEW t, NEW v \in ValveSet, Typed, Accepts(verb, t, v), Shows',
           v.window = valve.window, v.low = valve.low
    PROVE  Contract!Accept(verb, t)
<1>1. /\ request' = [verb |-> verb, num |-> t] /\ accepted' = TRUE /\ valve' = v
  BY DEF Accepts
<1>2. ShownTemp' = 5 * valve'.temp
  BY DEF Shows, ShownTemp
<1>3. /\ report'.mode = valve'.mode /\ report'.boost = valve'.boost
      /\ report'.window = valve'.window /\ report'.locked = valve'.locked
      /\ report'.low = valve'.low
  BY DEF Shows
<1> QED  BY <1>1, <1>2, <1>3, Zenon DEF Contract!Accept, Contract!ShownNow

LEMMA RefuseKept ==
    ASSUME NEW verb, NEW t, Typed, Invalid(verb, t)
    PROVE  Contract!Refuse(verb, t)
<1>1. /\ request' = [verb |-> verb, num |-> t] /\ accepted' = FALSE
      /\ valve' = valve /\ report' = report
  BY InvalidEffect
<1>2. ShownTemp' = ShownTemp
  BY <1>1, Zenon DEF ShownTemp
<1> QED  BY <1>1, <1>2, Zenon DEF Contract!Refuse, Contract!settings

LEMMA TempKept ==
    ASSUME NEW t \in Args, Typed, settemp_request(t)
    PROVE  Contract!SetTemp(t)
<1>1. valve \in ValveSet /\ t \in Int
  BY CodecAssumption DEF Typed
<1>2. CASE t >= 50 /\ t < 300
  <2> DEFINE v == [valve EXCEPT !.temp = t \div 5]
  <2>1. Typed' /\ Shows' /\ Accepts("settemp", t, v)
    BY <1>2, TempEffect, Zenon
  <2>2. valve' = v
    BY <2>1 DEF Accepts
  <2>3. v \in ValveSet
    BY <2>1, <2>2 DEF Typed
  <2>4. /\ v.temp = t \div 5 /\ v.offset = valve.offset /\ v.mode = valve.mode
        /\ v.boost = valve.boost /\ v.locked = valve.locked
        /\ v.window = valve.window /\ v.low = valve.low
    BY <1>1 DEF ValveSet
  <2> HIDE DEF v
  <2>5. Contract!Accept("settemp", t)
    BY <2>1, <2>3, <2>4, AcceptKept, Zenon
  <2> QED
    BY <1>2, <2>2, <2>4, <2>5, Zenon DEF Contract!SetTemp, Contract!HalfDegree
<1>3. CASE ~(t >= 50 /\ t < 300)
  <2>1. Invalid("settemp", t)
    BY <1>3, TempEffect, Zenon
  <2> QED  BY <1>3, <2>1, RefuseKept, Zenon DEF Contract!SetTemp
<1> QED  BY <1>2, <1>3

LEMMA OffsetKept ==
    ASSUME NEW t \in Args, Typed, offset_request(t)
    PROVE  Contract!SetOffset(t)
<1>1. valve \in ValveSet /\ t \in Int
  BY CodecAssumption DEF Typed
<1>2. CASE t \in -35 .. 35
  <2> DEFINE v == [valve EXCEPT !.offset = t \div 5 + 7]
  <2>1. Typed' /\ Shows' /\ Accepts("offset", t, v)
    BY <1>2, OffsetEffect, Zenon
  <2>2. valve' = v
    BY <2>1 DEF Accepts
  <2>3. v \in ValveSet
    BY <2>1, <2>2 DEF Typed
  <2>4. /\ v.temp = valve.temp /\ v.offset = t \div 5 + 7 /\ v.mode = valve.mode
        /\ v.boost = valve.boost /\ v.locked = valve.locked
        /\ v.window = valve.window /\ v.low = valve.low
    BY <1>1 DEF ValveSet
  <2> HIDE DEF v
  <2>5. Contract!Accept("offset", t)
    BY <2>1, <2>3, <2>4, AcceptKept, Zenon
  <2>6. 5 * (v.offset - 7) = 5 * (t \div 5)
    BY <1>1, <2>4
  <2> QED
    BY <1>2, <2>2, <2>4, <2>5, <2>6, Zenon DEF Contract!SetOffset, Contract!HalfDegree
<1>3. CASE t \notin -35 .. 35
  <2>1. Invalid("offset", t)
    BY <1>3, OffsetEffect, Zenon
  <2> QED  BY <1>3, <2>1, RefuseKept, Zenon DEF Contract!SetOffset
<1> QED  BY <1>2, <1>3

LEMMA SimpleKept ==
    ASSUME Typed, simple_command
    PROVE  Contract!OnOff \/ Contract!Switch
<1>0. valve \in ValveSet
  BY DEF Typed
<1>1. Shows' /\ Typed'
  BY SimpleEffect
<1>2. ASSUME NEW verb, NEW v, Accepts(verb, 0, v),
             v.window = valve.window, v.low = valve.low
      PROVE  valve' = v /\ Contract!Accept(verb, 0)
  <2>1. valve' = v
    BY <1>2 DEF Accepts
  <2>2. v \in ValveSet
    BY <1>1, <2>1 DEF Typed
  <2> QED  BY <1>1, <1>2, <2>1, <2>2, AcceptKept, Zenon
<1>3. ASSUME NEW verb, NEW x, Accepts(verb, 0, [valve EXCEPT !.temp = x])
      PROVE  /\ Contract!Accept(verb, 0) /\ valve'.offset = valve.offset
             /\ valve'.temp = x /\ valve'.mode = valve.mode
             /\ valve'.boost = valve.boost /\ valve'.locked = valve.locked
  <2> DEFINE v == [valve EXCEPT !.temp = x]
  <2>1. /\ v.window = valve.window /\ v.low = valve.low /\ v.offset = valve.offset
        /\ v.temp = x /\ v.mode = valve.mode
        /\ v.boost = valve.boost /\ v.locked = valve.locked
    BY <1>0 DEF ValveSet
  <2> HIDE DEF v
  <2>2. valve' = v /\ Contract!Accept(verb, 0)
    BY <1>2, <1>3, <2>1, Zenon DEF v
  <2> QED  BY <2>1, <2>2, Zenon
<1>4. ASSUME NEW verb, NEW x, Accepts(verb, 0, [valve EXCEPT !.mode = x])
      PROVE  /\ Contract!Accept(verb, 0) /\ valve'.offset = valve.offset
             /\ valve'.temp = valve.temp /\ valve'.mode = x
             /\ valve'.boost = valve.boost /\ valve'.locked = valve.locked
  <2> DEFINE v == [valve EXCEPT !.mode = x]
  <2>1. /\ v.window = valve.window /\ v.low = valve.low /\ v.offset = valve.offset
        /\ v.temp = valve.temp /\ v.mode = x
        /\ v.boost = valve.boost /\ v.locked = valve.locked
    BY <1>0 DEF ValveSet
  <2> HIDE DEF v
  <2>2. valve' = v /\ Contract!Accept(verb, 0)
    BY <1>2, <1>4, <2>1, Zenon DEF v
  <2> QED  BY <2>1, <2>2, Zenon
<1>5. ASSUME NEW verb, NEW x, Accepts(verb, 0, [valve EXCEPT !.boost = x])
      PROVE  /\ Contract!Accept(verb, 0) /\ valve'.offset = valve.offset
             /\ valve'.temp = valve.temp /\ valve'.mode = valve.mode
             /\ valve'.boost = x /\ valve'.locked = valve.locked
  <2> DEFINE v == [valve EXCEPT !.boost = x]
  <2>1. /\ v.window = valve.window /\ v.low = valve.low /\ v.offset = valve.offset
        /\ v.temp = valve.temp /\ v.mode = valve.mode
        /\ v.boost = x /\ v.locked = valve.locked
    BY <1>0 DEF ValveSet
  <2> HIDE DEF v
  <2>2. valve' = v /\ Contract!Accept(verb, 0)
    BY <1>2, <1>5, <2>1, Zenon DEF v
  <2> QED  BY <2>1, <2>2, Zenon
<1>6. ASSUME NEW verb, NEW x, Accepts(verb, 0, [valve EXCEPT !.locked = x])
      PROVE  /\ Contract!Accept(verb, 0) /\ valve'.offset = valve.offset
             /\ valve'.temp = valve.temp /\ valve'.mode = valve.mode
             /\ valve'.boost = valve.boost /\ valve'.locked = x
  <2> DEFINE v == [valve EXCEPT !.locked = x]
  <2>1. /\ v.window = valve.window /\ v.low = valve.low /\ v.offset = valve.offset
        /\ v.temp = valve.temp /\ v.mode = valve.mode
        /\ v.boost = valve.boost /\ v.locked = x
    BY <1>0 DEF ValveSet
  <2> HIDE DEF v
  <2>2. valve' = v /\ Contract!Accept(verb, 0)
    BY <1>2, <1>6, <2>1, Zenon DEF v
  <2> QED  BY <2>1, <2>2, Zenon
<1>7. CASE Accepts("on", 0, [valve EXCEPT !.temp = 60])
  <2>1. /\ Contract!Accept("on", 0) /\ valve'.temp = 60
        /\ valve'.offset = valve.offset /\ valve'.mode = valve.mode
        /\ valve'.boost = valve.boost /\ valve'.locked = valve.locked
    BY <1>3, <1>7, Zenon
  <2>2. 5 * valve'.temp = 300
    BY <2>1
  <2> QED  BY <2>1, <2>2, Zenon DEF Contract!OnOff
<1>8. CASE Accepts("off", 0, [valve EXCEPT !.temp = 9])
  <2>1. /\ Contract!Accept("off", 0) /\ valve'.temp = 9
        /\ valve'.offset = valve.offset /\ valve'.mode = valve.mode
        /\ valve'.boost = valve.boost /\ valve'.locked = valve.locked
    BY <1>3, <1>8, Zenon
  <2>2. 5 * valve'.temp = 45
    BY <2>1
  <2> QED  BY <2>1, <2>2, Zenon DEF Contract!OnOff
<1>9. ASSUME \/ Accepts("auto", 0, [valve EXCEPT !.mode = "auto"])
             \/ Accepts("manual", 0, [valve EXCEPT !.mode = "manual"])
      PROVE  Contract!Switch
  BY <1>4, <1>9, Zenon DEF Contract!Switch
<1>10. ASSUME \/ Accepts("boost", 0, [valve EXCEPT !.boost = TRUE])
              \/ Accepts("unboost", 0, [valve EXCEPT !.boost = FALSE])
       PROVE  Contract!Switch
  BY <1>5, <1>10, Zenon DEF Contract!Switch
<1>11. ASSUME \/ Accepts("lock", 0, [valve EXCEPT !.locked = TRUE])
              \/ Accepts("unlock", 0, [valve EXCEPT !.locked = FALSE])
       PROVE  Contract!Switch
  BY <1>6, <1>11, Zenon DEF Contract!Switch
<1> QED  BY <1>7, <1>8, <1>9, <1>10, <1>11, SimpleEffect, Zenon

LEMMA SettimeKept ==
    ASSUME Typed, Settime
    PROVE  Contract!SetTime
<1>0. valve \in ValveSet
  BY DEF Typed
<1>1. ASSUME Invalid("settime", 0) PROVE Contract!SetTime
  <2>1. valve' = valve
    BY <1>1, InvalidEffect
  <2>2. Contract!Refuse("settime", 0)
    BY <1>1, RefuseKept
  <2> QED  BY <2>1, <2>2, Zenon DEF Contract!SetTime, Contract!settings
<1>2. ASSUME NEW time \in TimeBytes, Exchange("settime", 0, "EQ3_SETTIME", time)
      PROVE  Contract!SetTime
  <2> DEFINE v == [valve EXCEPT !.time = time]
  <2>1. Shows' /\ Typed' /\ Accepts("settime", 0, v)
    BY <1>2, SettimeEffect
  <2>2. valve' = v
    BY <2>1 DEF Accepts
  <2>3. v \in ValveSet
    BY <2>1, <2>2 DEF Typed
  <2>4. /\ v.temp = valve.temp /\ v.offset = valve.offset /\ v.mode = valve.mode
        /\ v.boost = valve.boost /\ v.locked = valve.locked
        /\ v.window = valve.window /\ v.low = valve.low
    BY <1>0 DEF ValveSet
  <2> HIDE DEF v
  <2>5. Contract!Accept("settime", 0)
    BY <2>1, <2>3, <2>4, AcceptKept, Zenon
  <2> QED  BY <2>2, <2>4, <2>5, Zenon DEF Contract!SetTime, Contract!settings
<1> QED  BY <1>1, <1>2, SettimeKinds, Zenon

LEMMA OwnKept ==
    ASSUME Typed, ValveChanges
    PROVE  Contract!ValveChanges
<1>1. /\ Typed' /\ valve'.temp = valve.temp /\ valve'.offset = valve.offset
      /\ valve'.locked = valve.locked
  BY OwnEffect
<1>2. request' = request /\ accepted' = accepted /\ report' = report
  BY DEF ValveChanges
<1>3. valve' \in ValveSet
  BY <1>1 DEF Typed
<1>4. /\ valve'.mode \in {"auto", "manual", "holiday"} /\ valve'.boost \in BOOLEAN
      /\ valve'.window \in BOOLEAN /\ valve'.low \in BOOLEAN
  BY <1>3 DEF ValveSet, Modes
<1>5. ShownTemp' = ShownTemp
  BY <1>2, Zenon DEF ShownTemp
<1> QED  BY <1>1, <1>2, <1>4, <1>5, Zenon DEF Contract!ValveChanges

LEMMA ContractInitKept == ASSUME Init PROVE Contract!ContractInit
<1>1. Shows
  BY CodecInvInit
<1>2. /\ valve.temp = 40 /\ valve.offset = 7 /\ valve.mode = "auto"
      /\ valve.boost = FALSE /\ valve.locked = FALSE
      /\ valve.window = FALSE /\ valve.low = FALSE
      /\ request = [verb |-> "none", num |-> 0] /\ accepted = FALSE
  BY DEF Init
<1>3. 5 * 40 = 200 /\ 5 * (7 - 7) = 0
  OBVIOUS
<1>4. ShownTemp = 5 * valve.temp
  BY <1>1 DEF Shows, ShownTemp
<1>5. /\ report.mode = valve.mode /\ report.boost = valve.boost
      /\ report.window = valve.window /\ report.locked = valve.locked
      /\ report.low = valve.low
  BY <1>1 DEF Shows
<1> QED
  BY <1>2, <1>3, <1>4, <1>5, Zenon DEF Contract!ContractInit, Contract!ShownNow

\* The hub does what the README's table of commands promises, for every argument,
\* date, length of notification and change of the valve by itself: every step of
\* handle_request(), setup_command() and NOTIFY_EVT is a step of the contract.
THEOREM CodecKeepsContract == Spec => KeepsContract
<1>1. Init => Contract!ContractInit
  BY ContractInitKept
<1>2. ASSUME CodecInv, [Next]_vars
      PROVE  [Contract!ContractNext]_(Contract!contractVars)
  <2> Typed
    BY <1>2 DEF CodecInv
  <2>1. ASSUME NEW t \in Args, settemp_request(t) PROVE Contract!ContractNext
    BY <2>1, TempKept, Zenon DEF Contract!ContractNext
  <2>2. ASSUME NEW t \in Args, offset_request(t) PROVE Contract!ContractNext
    BY <2>2, OffsetKept, Zenon DEF Contract!ContractNext
  <2>3. CASE simple_command
    BY <2>3, SimpleKept, Zenon DEF Contract!ContractNext
  <2>4. CASE Settime
    BY <2>4, SettimeKept, Zenon DEF Contract!ContractNext
  <2>5. CASE ValveChanges
    BY <2>5, OwnKept, Zenon DEF Contract!ContractNext
  <2>6. CASE UNCHANGED vars
    <3>1. /\ valve' = valve /\ accepted' = accepted /\ request' = request
          /\ report' = report
      BY <2>6 DEF vars
    <3>2. ShownTemp' = ShownTemp
      BY <3>1, Zenon DEF ShownTemp
    <3>3. UNCHANGED Contract!contractVars
      BY <3>1, <3>2, Zenon DEF Contract!contractVars, Contract!settings
    <3> QED  BY <3>3
  <2> QED  BY <1>2, <2>1, <2>2, <2>3, <2>4, <2>5, <2>6, NextKinds, Zenon
<1> QED
  BY <1>1, <1>2, CodecInvAlways, PTL DEF Spec, KeepsContract, Contract!ContractSpec
=============================================================================
