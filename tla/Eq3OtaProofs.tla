---------------------------- MODULE Eq3OtaProofs ----------------------------
(***************************************************************************)
(* Theorems about Eq3Ota, for any number of uploads, any lengths and any   *)
(* division of the bodies into chunks.                                     *)
(***************************************************************************)
EXTENDS Eq3Ota, SequenceTheorems, TLAPS

\* The other slot is a slot, and no slot is NULL.
LEMMA SlotFacts ==
    /\ \A s \in Slots : 1 - s \in Slots /\ 1 - s # s
    /\ \A s, r \in Slots : s # r => s = 1 - r
    /\ NULL \notin Slots
  BY OtaAssumption DEF Slots

Unit == (Uploads \X Nat) \cup {Factory}

OtaState == [update_partition : Slots \cup {NULL}, handle_valid : BOOLEAN,
             remlen : Int, size : Nat, success : BOOLEAN]

Session == [of : SUBSET Uploads, whole : BOOLEAN, fault : BOOLEAN,
            slot : Slots \cup {NULL}]

\* Units of a body are a sequence of as many units.
LEMMA UnitsType ==
    ASSUME NEW u \in Uploads, NEW a \in Nat, NEW b \in Nat, a <= b
    PROVE  Units(u, a, b) \in Seq(Unit) /\ Len(Units(u, a, b)) = b - a
  <1>1. b - a \in Nat
    OBVIOUS
  <1>2. \A i \in 1 .. b - a : <<u, a + i>> \in Unit
    BY DEF Unit
  <1> QED BY <1>1, <1>2 DEF Units

\* What one chunk does to the variables: a slot that is not the one running,
\* or the one of the update in progress, is erased or extended; if the update
\* is over its handle is closed and it is forgotten.
ChunkEffect(u, n, slot, o2) ==
    LET first == ota.update_partition = NULL IN
    /\ slot \in Slots
    /\ slot = IF first THEN NextUpdatePartition ELSE ota.update_partition
    /\ o2 \in OtaState /\ o2.update_partition = slot
    /\ o2.remlen = (IF first THEN BodyLen[u] ELSE ota.remlen) - n
    /\ ota' = IF o2.remlen <= 0
              THEN [o2 EXCEPT !.update_partition = NULL, !.handle_valid = FALSE,
                              !.success = @ \/ o2.handle_valid]
              ELSE o2
    /\ flash' \in [Slots -> Seq(Unit)]
    /\ \A s \in Slots : s # slot => flash'[s] = flash[s]
    /\ boot' \in Slots
    /\ handle' = IF o2.handle_valid /\ o2.remlen > 0 THEN {slot} ELSE {}
    /\ conn' = [conn EXCEPT ![u].sent = @ + n,
                            ![u].state = IF o2.remlen <= 0 THEN "draining" ELSE @]
    /\ session' \in Session

LEMMA ChunkHasEffect ==
    ASSUME TypeOK, OneHandle,
           NEW u \in Uploads, NEW n \in Nat, NEW begun \in BOOLEAN,
           NEW wrote \in BOOLEAN, HandleChunk(u, n, begun, wrote)
    PROVE  \E slot, o2 : ChunkEffect(u, n, slot, o2)
  <1> DEFINE first == ota.update_partition = NULL
             o1 == IF first THEN BeginUpdate(u, n, begun)
                   ELSE [ota EXCEPT !.remlen = @ - n]
             slot == o1.update_partition
             open1 == IF first /\ begun THEN handle \cup {slot} ELSE handle
             flash1 == IF first /\ begun THEN [flash EXCEPT ![slot] = <<>>] ELSE flash
             skip == IF first THEN SkipHeader(conn[u].sent, n) ELSE 0
             from == conn[u].sent + skip
             writes == n > skip /\ o1.handle_valid
             refused == writes /\ BadStart(flash1[slot], from)
             o2 == [o1 EXCEPT !.size = IF writes THEN @ + (n - skip) ELSE @,
                              !.handle_valid = @ /\ ~refused]
             open2 == IF refused THEN CloseRefused(slot, open1) ELSE open1
             flash2 == IF writes /\ ~refused /\ wrote
                       THEN [flash1 EXCEPT ![slot] = @ \o Units(u, from, conn[u].sent + n)]
                       ELSE flash1
             done == Received(o2)
             ends == done /\ o2.handle_valid
  <1>1. /\ flash' = flash2
        /\ handle' = IF ends THEN open2 \ {slot} ELSE open2
        /\ boot' = IF ends /\ Verified(flash2[slot]) THEN slot ELSE boot
        /\ ota' = IF done
                  THEN [o2 EXCEPT !.update_partition = NULL, !.handle_valid = FALSE,
                                  !.success = @ \/ ends]
                  ELSE o2
        /\ conn' = [conn EXCEPT ![u].sent = @ + n,
                                ![u].state = IF done THEN "draining" ELSE @]
    BY DEF HandleChunk
  <1>2. /\ ota \in OtaState /\ BodyLen[u] \in Nat /\ HeaderLen \in Nat
        /\ conn[u].sent \in Nat /\ boot \in Slots /\ running \in Slots
        /\ flash \in [Slots -> Seq(Unit)] /\ handle \subseteq Slots
        /\ session \in Session
    BY OtaAssumption DEF TypeOK, OtaState, Unit, Session
  <1>3. o1 \in OtaState /\ slot \in Slots
        /\ o1.remlen = (IF first THEN BodyLen[u] ELSE ota.remlen) - n
        /\ (first => o1.handle_valid = begun)
        /\ (~first => o1.handle_valid = ota.handle_valid)
    <2>1. CASE first
      <3>1. NextUpdatePartition \in Slots
        BY <1>2, SlotFacts DEF NextUpdatePartition
      <3>2. o1 = [update_partition |-> NextUpdatePartition, handle_valid |-> begun,
                  remlen |-> BodyLen[u] - n, size |-> 0, success |-> FALSE]
        BY <2>1 DEF BeginUpdate
      <3>3. BodyLen[u] - n \in Int
        BY <1>2
      <3> HIDE DEF o1
      <3>4. o1 \in OtaState
        BY <3>1, <3>2, <3>3 DEF OtaState
      <3>5. o1.update_partition \in Slots /\ o1.remlen = BodyLen[u] - n
            /\ o1.handle_valid = begun
        BY <3>1, <3>2
      <3> QED BY <2>1, <3>4, <3>5
    <2>2. CASE ~first
      <3>1. o1 = [ota EXCEPT !.remlen = @ - n]
        BY <2>2
      <3>2. ota.remlen - n \in Int /\ ota.update_partition \in Slots
        BY <1>2, <2>2 DEF OtaState
      <3> HIDE DEF o1
      <3>3. o1 \in OtaState
        BY <1>2, <3>1, <3>2 DEF OtaState
      <3>4. o1.update_partition \in Slots /\ o1.remlen = ota.remlen - n
            /\ o1.handle_valid = ota.handle_valid
        BY <1>2, <3>1, <3>2 DEF OtaState
      <3> QED BY <2>2, <3>3, <3>4
    <2> QED BY <2>1, <2>2
  <1>4. slot = IF first THEN NextUpdatePartition ELSE ota.update_partition
    BY <1>2 DEF BeginUpdate, OtaState
  <1>5. skip \in Nat /\ skip <= n
    BY <1>2 DEF SkipHeader
  <1>6. open1 = IF o1.handle_valid THEN {slot} ELSE {}
    <2>1. handle = IF ota.handle_valid THEN {ota.update_partition} ELSE {}
      BY DEF OneHandle
    <2>2. CASE first
      <3>1. ~ota.handle_valid
        <4>1. ota.handle_valid => handle = {NULL}
          BY <2>1, <2>2
        <4> QED BY <1>2, <4>1, SlotFacts
      <3> QED BY <1>3, <2>1, <2>2, <3>1
    <2>3. CASE ~first
      BY <1>3, <1>4, <2>1, <2>3
    <2> QED BY <2>2, <2>3
  <1>7. /\ flash1 \in [Slots -> Seq(Unit)]
        /\ \A s \in Slots : s # slot => flash1[s] = flash[s]
    BY <1>2, <1>3
  <1> HIDE DEF first, skip
  <1> HIDE DEF o1, slot
  <1>8. /\ o2 \in OtaState /\ o2.update_partition = o1.update_partition
        /\ o2.remlen = o1.remlen
        /\ o2.handle_valid = (o1.handle_valid /\ ~refused)
    <2> DEFINE size2 == IF writes THEN o1.size + (n - skip) ELSE o1.size
               valid2 == o1.handle_valid /\ ~refused
    <2>1. size2 \in Nat
      BY <1>3, <1>5 DEF OtaState
    <2>2. valid2 \in BOOLEAN
      OBVIOUS
    <2>3. o2 = [o1 EXCEPT !.size = size2, !.handle_valid = valid2]
      OBVIOUS
    <2> HIDE DEF size2, valid2, o2, refused, writes
    <2>4. o2 \in OtaState /\ o2.update_partition = o1.update_partition
          /\ o2.remlen = o1.remlen /\ o2.handle_valid = valid2
      BY <1>3, <2>1, <2>2, <2>3 DEF OtaState
    <2> QED BY <2>4 DEF valid2
  <1>9. /\ flash2 \in [Slots -> Seq(Unit)]
        /\ \A s \in Slots : s # slot => flash2[s] = flash1[s]
    <2>1. Units(u, from, conn[u].sent + n) \in Seq(Unit)
      <3>1. from \in Nat /\ conn[u].sent + n \in Nat /\ from <= conn[u].sent + n
        BY <1>2, <1>5
      <3> QED BY <3>1, UnitsType
    <2>2. flash1[slot] \o Units(u, from, conn[u].sent + n) \in Seq(Unit)
      <3> HIDE DEF flash1, from
      <3> QED BY <1>3, <1>7, <2>1
    <2> HIDE DEF flash1, from, writes, refused
    <2> QED BY <1>3, <1>7, <2>2
  <1>10. open2 = IF o2.handle_valid THEN {slot} ELSE {}
    <2>1. CASE refused
      <3>1. open2 = {}
        BY <1>6, <2>1 DEF CloseRefused
      <3> QED BY <1>8, <2>1, <3>1
    <2>2. CASE ~refused
      BY <1>6, <1>8, <2>2
    <2> QED BY <2>1, <2>2
  <1> HIDE DEF open1, open2, flash1, flash2, from, writes, refused, o2
  <1>11. done <=> o2.remlen <= 0
    BY DEF Received
  <1>12. handle' = IF o2.handle_valid /\ o2.remlen > 0 THEN {slot} ELSE {}
    <2>1. o2.remlen \in Int
      BY <1>8 DEF OtaState
    <2>2. o2.remlen > 0 <=> ~done
      BY <1>11, <2>1
    <2> QED BY <1>1, <1>10, <2>2
  <1>13. boot' \in Slots
    BY <1>1, <1>2, <1>3
  <1>14. session' \in Session
    <2>1. session' =
            [of |-> {u} \cup IF first THEN {} ELSE session.of,
             whole |-> IF first THEN conn[u].sent = 0 /\ n >= HeaderLen
                       ELSE session.whole,
             fault |-> \/ first /\ ~begun
                       \/ writes /\ ~wrote
                       \/ ~first /\ session.fault,
             slot |-> slot]
      BY DEF HandleChunk, first, o1, slot, writes, skip
    <2>2. ({u} \cup IF first THEN {} ELSE session.of) \in SUBSET Uploads
      BY <1>2 DEF Session
    <2>3. (IF first THEN conn[u].sent = 0 /\ n >= HeaderLen ELSE session.whole) \in BOOLEAN
      BY <1>2 DEF Session
    <2>4. ((first /\ ~begun) \/ (writes /\ ~wrote) \/ (~first /\ session.fault)) \in BOOLEAN
      OBVIOUS
    <2> QED BY <1>3, <2>1, <2>2, <2>3, <2>4 DEF Session
  <1>15. ota' = IF o2.remlen <= 0
                THEN [o2 EXCEPT !.update_partition = NULL, !.handle_valid = FALSE,
                                !.success = @ \/ o2.handle_valid]
                ELSE o2
    BY <1>1, <1>11
  <1>16. conn' = [conn EXCEPT ![u].sent = @ + n,
                              ![u].state = IF o2.remlen <= 0 THEN "draining" ELSE @]
    BY <1>1, <1>11
  <1>17. \A s \in Slots : s # slot => flash'[s] = flash[s]
    BY <1>1, <1>7, <1>9
  <1>18. slot = o1.update_partition
    BY DEF slot
  <1>19. ChunkEffect(u, n, slot, o2)
    BY <1>1, <1>3, <1>4, <1>8, <1>9, <1>12, <1>13, <1>14, <1>15, <1>16, <1>17,
       <1>18 DEF ChunkEffect, first
  <1> QED BY <1>19

-----------------------------------------------------------------------------
(* Types, the handle and the running slot *)

ConnState == {"open", "draining", "answered", "broken"}

Conn == [state : ConnState, sent : Nat]

\* The update in progress never goes to the slot the hub runs from, and that
\* slot holds a complete image.
SlotInv ==
    /\ ota.update_partition # running
    /\ Verified(flash[running])

SafeInv == TypeOK /\ OneHandle /\ SlotInv

\* A connection stays one when its state and its position change.
LEMMA ConnUpdate ==
    ASSUME NEW c \in Conn, NEW m \in Nat, NEW st \in ConnState
    PROVE  /\ [c EXCEPT !.sent = m, !.state = st] \in Conn
           /\ [c EXCEPT !.sent = m, !.state = st].sent = m
  BY DEF Conn

LEMMA InitSafe == Init => SafeInv
  <1> SUFFICES ASSUME Init PROVE SafeInv
    OBVIOUS
  <1>1. conn \in [Uploads -> Conn] /\ \A u \in Uploads : conn[u].sent <= BodyLen[u]
    BY OtaAssumption DEF Init, Conn, ConnState
  <1>2. ota \in OtaState /\ ota.update_partition = NULL /\ ota.handle_valid = FALSE
    BY DEF Init, NoUpdate, OtaState
  <1>3. <<Factory>> \in Seq(Unit) /\ <<>> \in Seq(Unit)
    BY DEF Unit
  <1>4. flash \in [Slots -> Seq(Unit)] /\ flash[0] = <<Factory>>
    BY <1>3 DEF Init, Slots
  <1>5. handle = {} /\ boot = 0 /\ running = 0 /\ 0 \in Slots
    BY DEF Init, Slots
  <1>6. session \in Session
    BY DEF Init, NoSession, Session
  <1>7. TypeOK
    BY <1>1, <1>2, <1>4, <1>5, <1>6 DEF TypeOK, Conn, ConnState, OtaState, Unit, Session
  <1>8. OneHandle
    BY <1>2, <1>5 DEF OneHandle
  <1>9. Verified(<<Factory>>)
    BY DEF Verified, IsPrefix
  <1>10. SlotInv
    BY <1>2, <1>4, <1>5, <1>9, SlotFacts DEF SlotInv
  <1> QED BY <1>7, <1>8, <1>10 DEF SafeInv

LEMMA ReadSafe == ASSUME SafeInv, NEW u \in Uploads, Read(u) PROVE SafeInv'
  <1>0. TypeOK /\ OneHandle /\ SlotInv
    BY DEF SafeInv
  <1>1. PICK n \in 0 .. MaxRead, begun \in BOOLEAN, wrote \in BOOLEAN :
          /\ conn[u].sent + n <= BodyLen[u]
          /\ HandleChunk(u, n, begun, wrote)
    BY DEF Read
  <1>2. n \in Nat
    BY OtaAssumption
  <1>3. PICK slot, o2 : ChunkEffect(u, n, slot, o2)
    BY <1>0, <1>1, <1>2, ChunkHasEffect
  <1>4. /\ slot \in Slots /\ o2 \in OtaState /\ o2.update_partition = slot
        /\ flash' \in [Slots -> Seq(Unit)] /\ boot' \in Slots
        /\ session' \in Session
        /\ \A s \in Slots : s # slot => flash'[s] = flash[s]
    BY <1>3 DEF ChunkEffect
  <1>5. running' = running /\ running \in Slots
    BY <1>0 DEF Read, TypeOK
  <1>6. slot # running
    BY <1>0, <1>3, <1>5, SlotFacts DEF ChunkEffect, NextUpdatePartition, SlotInv
  <1>7. /\ ota' \in OtaState
        /\ ota'.update_partition \in {slot, NULL}
        /\ ota'.update_partition # NULL => ota' = o2 /\ o2.remlen > 0
        /\ ota'.handle_valid <=> o2.handle_valid /\ o2.remlen > 0
        /\ o2.remlen > 0 => ota' = o2
    <2>0. o2.remlen \in Int /\ o2.handle_valid \in BOOLEAN /\ o2.success \in BOOLEAN
      BY <1>4 DEF OtaState
    <2>1. CASE o2.remlen <= 0
      <3>1. ota' = [o2 EXCEPT !.update_partition = NULL, !.handle_valid = FALSE,
                              !.success = o2.success \/ o2.handle_valid]
        BY <1>3, <2>1 DEF ChunkEffect
      <3>2. (o2.success \/ o2.handle_valid) \in BOOLEAN
        OBVIOUS
      <3>3. ota' \in OtaState /\ ota'.update_partition = NULL /\ ota'.handle_valid = FALSE
        BY <1>4, <3>1, <3>2 DEF OtaState
      <3> QED BY <2>0, <2>1, <3>3
    <2>2. CASE ~(o2.remlen <= 0)
      <3>1. ota' = o2
        BY <1>3, <2>2 DEF ChunkEffect
      <3>2. o2.remlen > 0
        BY <2>0, <2>2
      <3> QED BY <1>4, <3>1, <3>2
    <2> QED BY <2>1, <2>2
  <1>8. /\ conn' \in [Uploads -> Conn]
        /\ \A v \in Uploads : conn'[v].sent <= BodyLen[v]
    <2>0. conn \in [Uploads -> Conn] /\ \A v \in Uploads : conn[v].sent <= BodyLen[v]
      BY <1>0 DEF TypeOK, Conn, ConnState
    <2> DEFINE st == IF o2.remlen <= 0 THEN "draining" ELSE conn[u].state
               c2 == [conn[u] EXCEPT !.sent = @ + n, !.state = st]
    <2>1. st \in ConnState
      BY <2>0 DEF Conn, ConnState
    <2>2. conn' = [conn EXCEPT ![u] = c2]
      BY <1>3, <2>0 DEF ChunkEffect
    <2>3. c2 \in Conn /\ c2.sent = conn[u].sent + n
      <3> DEFINE c == conn[u]
                 m == c.sent + n
      <3>1. c \in Conn /\ m \in Nat
        BY <1>2, <2>0 DEF Conn, ConnState
      <3> HIDE DEF st, m, c
      <3>2. /\ [c EXCEPT !.sent = m, !.state = st] \in Conn
            /\ [c EXCEPT !.sent = m, !.state = st].sent = m
        BY <2>1, <3>1, ConnUpdate, Zenon
      <3> QED BY <3>2 DEF m, c
    <2> HIDE DEF c2
    <2> QED BY <1>1, <2>0, <2>2, <2>3
  <1>9. handle' = IF ota'.handle_valid THEN {ota'.update_partition} ELSE {}
    <2>1. handle' = IF o2.handle_valid /\ o2.remlen > 0 THEN {slot} ELSE {}
      BY <1>3 DEF ChunkEffect
    <2> QED BY <1>4, <1>7, <2>1
  <1>10. handle' \subseteq Slots
    BY <1>3, <1>4 DEF ChunkEffect
  <1>11. TypeOK'
    BY <1>4, <1>5, <1>7, <1>8, <1>10 DEF TypeOK, Conn, ConnState, OtaState, Unit, Session
  <1>12. OneHandle'
    BY <1>9 DEF OneHandle
  <1>13. SlotInv'
    <2>1. flash'[running] = flash[running]
      BY <1>4, <1>5, <1>6
    <2>2. NULL # running
      BY <1>5, SlotFacts
    <2> QED BY <1>0, <1>5, <1>6, <1>7, <2>1, <2>2 DEF SlotInv, Verified, Holds
  <1> QED BY <1>11, <1>12, <1>13 DEF SafeInv

LEMMA CloseSafe ==
    ASSUME SafeInv, NEW u \in Uploads, Close(u) \/ BreakOff(u) PROVE SafeInv'
  <1>1. PICK st \in {"open", "draining", "answered", "broken"} :
          conn' = [conn EXCEPT ![u].state = st]
    BY DEF Close, BreakOff
  <1>2. UNCHANGED <<ota, handle, flash, boot, running, session>>
    BY DEF Close, BreakOff
  <1>3. conn \in [Uploads -> Conn] /\ \A v \in Uploads : conn[v].sent <= BodyLen[v]
    BY DEF SafeInv, TypeOK, Conn, ConnState
  <1>4. /\ conn' \in [Uploads -> Conn]
        /\ \A v \in Uploads : conn'[v].sent <= BodyLen[v]
    BY <1>1, <1>3 DEF Conn, ConnState
  <1> QED BY <1>2, <1>4 DEF SafeInv, TypeOK, Conn, ConnState, OneHandle, SlotInv, Verified, Holds

LEMMA RestartSafe == ASSUME SafeInv, Restart PROVE SafeInv'
  <1>0. TypeOK /\ SlotInv
    BY DEF SafeInv
  <1>1. /\ ota' = NoUpdate /\ handle' = {} /\ session' = NoSession
        /\ UNCHANGED <<flash, boot>>
        /\ running' = IF Verified(flash[boot]) THEN boot ELSE 1 - boot
    BY DEF Restart
  <1>2. boot \in Slots /\ running \in Slots
    BY <1>0 DEF TypeOK
  <1>3. running' \in Slots /\ Verified(flash[running'])
    BY <1>0, <1>1, <1>2, SlotFacts DEF SlotInv
  <1>4. /\ conn' \in [Uploads -> Conn]
        /\ \A v \in Uploads : conn'[v].sent <= BodyLen[v]
    <2>1. conn \in [Uploads -> Conn] /\ \A v \in Uploads : conn[v].sent <= BodyLen[v]
      BY <1>0 DEF TypeOK, Conn, ConnState
    <2>2. \A v \in Uploads : conn'[v] = conn[v] \/ conn'[v] = [conn[v] EXCEPT !.state = "broken"]
      BY DEF Restart
    <2>3. \A v \in Uploads : [conn[v] EXCEPT !.state = "broken"] \in Conn
                              /\ [conn[v] EXCEPT !.state = "broken"].sent = conn[v].sent
      BY <2>1 DEF Conn, ConnState
    <2>4. conn' = [v \in Uploads |-> conn'[v]]
      BY DEF Restart
    <2>5. \A v \in Uploads : conn'[v] \in Conn /\ conn'[v].sent <= BodyLen[v]
      BY <2>1, <2>2, <2>3
    <2> QED BY <2>4, <2>5
  <1>5. ota' \in OtaState /\ ota'.update_partition = NULL /\ ota'.handle_valid = FALSE
    BY <1>1 DEF NoUpdate, OtaState
  <1>6. session' \in Session
    BY <1>1 DEF NoSession, Session
  <1>7. TypeOK'
    BY <1>0, <1>1, <1>2, <1>3, <1>4, <1>5, <1>6 DEF TypeOK, Conn, ConnState, OtaState, Session, Unit
  <1>8. OneHandle'
    BY <1>1, <1>5 DEF OneHandle
  <1>9. SlotInv'
    BY <1>1, <1>3, <1>5, SlotFacts DEF SlotInv, Verified, Holds
  <1> QED BY <1>7, <1>8, <1>9 DEF SafeInv

LEMMA SafeAlways == Spec => []SafeInv
  <1>1. SafeInv /\ [Next]_vars => SafeInv'
    <2> SUFFICES ASSUME SafeInv, [Next]_vars PROVE SafeInv'
      OBVIOUS
    <2>1. CASE UNCHANGED vars
      BY <2>1 DEF vars, SafeInv, TypeOK, OneHandle, SlotInv, Verified, Holds
    <2> QED BY <2>1, ReadSafe, CloseSafe, RestartSafe DEF Next
  <1> QED BY <1>1, InitSafe, PTL DEF Spec

\* Type correctness of the upload handler; an update in progress waits for at
\* least one more byte, so its end is never missed.
THEOREM OtaTypeCorrect == Spec => []TypeOK
  BY SafeAlways, PTL DEF SafeInv

\* ota_handle_valid is the truth about the single OTA handle through broken,
\* overlapping and refused uploads.
THEOREM HandleNeverLeaks == Spec => []OneHandle
  BY SafeAlways, PTL DEF SafeInv

\* No sequence of uploads, failures and restarts leaves the hub on a slot
\* without a complete image.
THEOREM HubStaysBootable == Spec => []RunningIntact
  <1>1. SafeInv => RunningIntact
    BY DEF SafeInv, SlotInv, RunningIntact
  <1> QED BY <1>1, SafeAlways, PTL

-----------------------------------------------------------------------------
(* An undisturbed upload *)

\* Consecutive pieces of a body join.
LEMMA UnitsJoin ==
    ASSUME NEW u \in Uploads, NEW a \in Nat, NEW b \in Nat, NEW c \in Nat,
           a <= b, b <= c
    PROVE  Units(u, a, b) \o Units(u, b, c) = Units(u, a, c)
  <1> DEFINE s == Units(u, a, b)
             t == Units(u, b, c)
             w == Units(u, a, c)
  <1>0. a <= c
    OBVIOUS
  <1>1. /\ s \in Seq(Unit) /\ t \in Seq(Unit) /\ w \in Seq(Unit)
        /\ Len(s) = b - a /\ Len(t) = c - b /\ Len(w) = c - a
    BY <1>0, UnitsType
  <1>2. /\ \A i \in 1 .. b - a : s[i] = <<u, a + i>>
        /\ \A i \in 1 .. c - b : t[i] = <<u, b + i>>
        /\ \A i \in 1 .. c - a : w[i] = <<u, a + i>>
    BY DEF Units
  <1> HIDE DEF s, t, w
  <1>3. s \o t \in Seq(Unit) /\ Len(s \o t) = c - a
    BY <1>1
  <1>4. ASSUME NEW i \in 1 .. c - a PROVE (s \o t)[i] = w[i]
    <2>1. CASE i <= b - a
      <3>1. (s \o t)[i] = s[i] /\ i \in 1 .. b - a
        BY <1>1, <2>1
      <3> QED BY <1>2, <3>1
    <2>2. CASE i > b - a
      <3>1. (s \o t)[i] = t[i - (b - a)] /\ i - (b - a) \in 1 .. c - b
        BY <1>1, <2>2
      <3>2. b + (i - (b - a)) = a + i
        OBVIOUS
      <3> QED BY <1>2, <3>1, <3>2
    <2>3. i <= b - a \/ i > b - a
      OBVIOUS
    <2> QED BY <2>1, <2>2, <2>3
  <1>5. s \o t = w
    <2>1. Len(s \o t) = Len(w) /\ \A i \in 1 .. Len(s \o t) : (s \o t)[i] = w[i]
      BY <1>1, <1>3, <1>4
    <2> QED BY <1>1, <1>3, <2>1, SeqEqual, Zenon
  <1> QED BY <1>5 DEF s, t, w

\* The start of a piece is a prefix of it.
LEMMA UnitsPrefix ==
    ASSUME NEW u \in Uploads, NEW a \in Nat, NEW b \in Nat, NEW c \in Nat,
           a <= b, b <= c
    PROVE  IsPrefix(Units(u, a, b), Units(u, a, c))
  <1>0. a <= c
    OBVIOUS
  <1>1. /\ Units(u, a, b) \in Seq(Unit) /\ Units(u, a, c) \in Seq(Unit)
        /\ Len(Units(u, a, b)) = b - a /\ Len(Units(u, a, c)) = c - a
    BY <1>0, UnitsType
  <1>2. \A i \in 1 .. b - a : Units(u, a, b)[i] = Units(u, a, c)[i]
    BY DEF Units
  <1> QED BY <1>1, <1>2 DEF IsPrefix

\* An upload that had the handler for itself so far, from its first byte.
Alone(u) == session.of = {u} /\ session.whole /\ ~session.fault

\* What it left behind: until its end the slot holds what arrived after the
\* header and the counters fit; at its end the slot boots next.
Progress(u) ==
    /\ session.slot \in Slots
    /\ ota.update_partition # NULL =>
          /\ ota.update_partition = session.slot /\ ota.handle_valid = TRUE
          /\ conn[u].sent >= HeaderLen
          /\ ota.remlen = BodyLen[u] - conn[u].sent
          /\ ota.size = conn[u].sent - HeaderLen
          /\ flash[session.slot] = Units(u, HeaderLen, conn[u].sent)
    /\ ota.update_partition = NULL =>
          /\ ota.success = TRUE /\ ota.size = BodyLen[u] - HeaderLen
          /\ flash[session.slot] = Units(u, HeaderLen, BodyLen[u])
          /\ u \notin Damaged => boot = session.slot

CleanInv ==
    /\ ota.update_partition # NULL => session.of # {}
    /\ \A u \in Uploads : Alone(u) => Progress(u)

\* A complete body, written behind its header, verifies.
LEMMA BodyVerifies ==
    ASSUME NEW u \in Uploads \ Damaged
    PROVE  Holds(Units(u, HeaderLen, BodyLen[u]), u)
  <1>1. /\ HeaderLen \in Nat /\ BodyLen[u] \in Nat /\ BodyLen[u] - 1 \in Nat
        /\ HeaderLen <= BodyLen[u] - 1 /\ BodyLen[u] - 1 <= BodyLen[u]
    BY OtaAssumption
  <1> QED BY <1>1, UnitsPrefix DEF Holds, Image

\* The values a chunk leaves for an upload that has the handler for itself:
\* the part of its body in the slot grows by the chunk.
ChunkGrows(u, n, slot) ==
    /\ slot \in Slots /\ session'.slot = slot
    /\ conn[u].sent + n >= HeaderLen
    /\ flash'[slot] = Units(u, HeaderLen, conn[u].sent + n)
    /\ \E o2 \in OtaState :
          /\ o2.update_partition = slot /\ o2.handle_valid = TRUE
          /\ o2.remlen = BodyLen[u] - (conn[u].sent + n)
          /\ o2.size = conn[u].sent + n - HeaderLen
          /\ ota' = IF o2.remlen <= 0
                    THEN [o2 EXCEPT !.update_partition = NULL, !.handle_valid = FALSE,
                                    !.success = @ \/ o2.handle_valid]
                    ELSE o2
          /\ boot' = IF o2.remlen <= 0 /\ Verified(flash'[slot]) THEN slot ELSE boot

LEMMA AloneGrows ==
    ASSUME TypeOK, CleanInv,
           NEW u \in Uploads, NEW n \in Nat, NEW begun \in BOOLEAN,
           NEW wrote \in BOOLEAN, HandleChunk(u, n, begun, wrote),
           n = 0 => conn[u].sent = 0 /\ ota.update_partition = NULL,
           Alone(u)'
    PROVE  \E slot : ChunkGrows(u, n, slot)
  <1> DEFINE first == ota.update_partition = NULL
             o1 == IF first THEN BeginUpdate(u, n, begun)
                   ELSE [ota EXCEPT !.remlen = @ - n]
             slot == o1.update_partition
             flash1 == IF first /\ begun THEN [flash EXCEPT ![slot] = <<>>] ELSE flash
             skip == IF first THEN SkipHeader(conn[u].sent, n) ELSE 0
             from == conn[u].sent + skip
             writes == n > skip /\ o1.handle_valid
             refused == writes /\ BadStart(flash1[slot], from)
             size2 == IF writes THEN o1.size + (n - skip) ELSE o1.size
             o2 == [o1 EXCEPT !.size = IF writes THEN @ + (n - skip) ELSE @,
                              !.handle_valid = @ /\ ~refused]
             flash2 == IF writes /\ ~refused /\ wrote
                       THEN [flash1 EXCEPT ![slot] = @ \o Units(u, from, conn[u].sent + n)]
                       ELSE flash1
             done == Received(o2)
             ends == done /\ o2.handle_valid
             fault == \/ first /\ ~begun
                      \/ writes /\ ~wrote
                      \/ ~first /\ session.fault
  <1>1. /\ flash' = flash2
        /\ boot' = IF ends /\ Verified(flash2[slot]) THEN slot ELSE boot
        /\ ota' = IF done
                  THEN [o2 EXCEPT !.update_partition = NULL, !.handle_valid = FALSE,
                                  !.success = @ \/ ends]
                  ELSE o2
        /\ session' =
             [of |-> {u} \cup IF first THEN {} ELSE session.of,
              whole |-> IF first THEN conn[u].sent = 0 /\ n >= HeaderLen
                        ELSE session.whole,
              fault |-> fault, slot |-> slot]
    BY DEF HandleChunk
  <1>2. /\ ota \in OtaState /\ BodyLen[u] \in Nat /\ HeaderLen \in Nat \ {0}
        /\ conn[u].sent \in Nat /\ running \in Slots
        /\ flash \in [Slots -> Seq(Unit)] /\ session \in Session
    BY OtaAssumption DEF TypeOK, OtaState, Unit, Session
  <1>3. /\ session'.slot = slot /\ ~fault
        /\ {u} = {u} \cup IF first THEN {} ELSE session.of
        /\ IF first THEN conn[u].sent = 0 /\ n >= HeaderLen ELSE session.whole
    BY <1>1 DEF Alone
  <1>4. /\ o1 \in OtaState /\ slot \in Slots /\ o1.handle_valid = TRUE
        /\ o1.remlen = BodyLen[u] - (conn[u].sent + n)
        /\ conn[u].sent + skip >= HeaderLen
        /\ skip \in 0 .. n
        /\ o1.size = conn[u].sent + skip - HeaderLen
        /\ flash1 \in [Slots -> Seq(Unit)]
        /\ flash1[slot] = Units(u, HeaderLen, conn[u].sent + skip)
        /\ ~first => n > 0
    <2>1. CASE first
      <3>1. conn[u].sent = 0 /\ n >= HeaderLen /\ begun = TRUE
        BY <1>3, <2>1
      <3>2. skip = HeaderLen
        BY <1>2, <2>1, <3>1 DEF SkipHeader
      <3>3. o1 = [update_partition |-> NextUpdatePartition, handle_valid |-> TRUE,
                  remlen |-> BodyLen[u] - n, size |-> 0, success |-> FALSE]
        BY <2>1, <3>1 DEF BeginUpdate
      <3>4. NextUpdatePartition \in Slots /\ BodyLen[u] - n \in Int
        BY <1>2, SlotFacts DEF NextUpdatePartition
      <3>5. Units(u, HeaderLen, HeaderLen) = <<>>
        <4>1. HeaderLen \in Nat /\ HeaderLen <= HeaderLen /\ HeaderLen - HeaderLen = 0
          BY <1>2
        <4>2. Units(u, HeaderLen, HeaderLen) \in Seq(Unit) /\ Len(Units(u, HeaderLen, HeaderLen)) = 0
          BY <4>1, UnitsType
        <4> HIDE DEF first, o1, skip
        <4> QED BY <4>2
      <3> HIDE DEF o1, skip
      <3>6. /\ o1 \in OtaState /\ slot \in Slots /\ o1.handle_valid = TRUE
            /\ o1.remlen = BodyLen[u] - n /\ o1.size = 0
        BY <3>3, <3>4 DEF OtaState
      <3>7. flash1 = [flash EXCEPT ![slot] = <<>>]
        BY <2>1, <3>1
      <3> HIDE DEF flash1, slot
      <3>8. flash1 \in [Slots -> Seq(Unit)] /\ flash1[slot] = <<>>
        BY <1>2, <3>6, <3>7
      <3>9. /\ BodyLen[u] - n = BodyLen[u] - (conn[u].sent + n)
            /\ conn[u].sent + skip = HeaderLen /\ skip \in 0 .. n
            /\ conn[u].sent + skip - HeaderLen = 0
        BY <1>2, <3>1, <3>2
      <3>10. conn[u].sent + skip >= HeaderLen
        BY <1>2, <3>9
      <3> QED BY <2>1, <3>5, <3>6, <3>8, <3>9, <3>10
    <2>2. CASE ~first
      <3>1. Alone(u) /\ Progress(u)
        <4>1. session.of # {} /\ session.of \subseteq {u}
          BY <1>3, <2>2 DEF CleanInv
        <4>2. session.of = {u}
          BY <4>1
        <4>3. session.whole /\ ~session.fault
          BY <1>3, <2>2
        <4> QED BY <4>2, <4>3 DEF CleanInv, Alone
      <3>2. /\ session.slot \in Slots /\ ota.update_partition = session.slot
            /\ ota.handle_valid = TRUE /\ conn[u].sent >= HeaderLen
            /\ ota.remlen = BodyLen[u] - conn[u].sent
            /\ ota.size = conn[u].sent - HeaderLen
            /\ flash[session.slot] = Units(u, HeaderLen, conn[u].sent)
        BY <2>2, <3>1 DEF Progress
      <3>3. o1 = [ota EXCEPT !.remlen = ota.remlen - n] /\ skip = 0 /\ flash1 = flash
        BY <2>2
      <3>4. ota.remlen - n \in Int /\ n > 0
        BY <1>2, <2>2 DEF OtaState
      <3> HIDE DEF o1, skip
      <3>5. /\ o1 \in OtaState /\ o1.update_partition = ota.update_partition
            /\ o1.handle_valid = ota.handle_valid /\ o1.size = ota.size
            /\ o1.remlen = ota.remlen - n
        BY <1>2, <3>3, <3>4 DEF OtaState
      <3>6. slot = session.slot
        BY <3>2, <3>5
      <3> HIDE DEF flash1, slot
      <3>7. /\ conn[u].sent + skip = conn[u].sent /\ skip \in 0 .. n
            /\ ota.remlen - n = BodyLen[u] - (conn[u].sent + n)
        BY <1>2, <3>2, <3>3
      <3> QED BY <1>2, <3>2, <3>3, <3>4, <3>5, <3>6, <3>7
    <2> QED BY <2>1, <2>2
  <1> HIDE DEF first, o1, skip
  <1> HIDE DEF slot, flash1
  <1>5. ~refused
    <2>1. CASE Len(flash1[slot]) = 0
      <3>0. HeaderLen \in Nat /\ from \in Nat /\ HeaderLen <= from
        BY <1>2, <1>4
      <3>1. Len(Units(u, HeaderLen, from)) = from - HeaderLen
        <4> HIDE DEF from
        <4> QED BY <3>0, UnitsType
      <3>2. from = HeaderLen
        <4>1. flash1[slot] = Units(u, HeaderLen, from)
          BY <1>4
        <4> HIDE DEF from
        <4> QED BY <2>1, <3>0, <3>1, <4>1
      <3> QED BY <3>2 DEF BadStart
    <2>2. CASE Len(flash1[slot]) # 0
      BY <2>2 DEF BadStart
    <2> QED BY <2>1, <2>2
  <1>6. writes <=> n > skip
    BY <1>4
  <1>7. writes => wrote
    BY <1>3
  <1>8. size2 = conn[u].sent + n - HeaderLen
    <2>1. CASE n > skip
      BY <1>2, <1>4, <2>1
    <2>2. CASE n = skip
      BY <1>2, <1>4, <2>2
    <2> QED BY <1>4, <2>1, <2>2
  <1>9. flash2 \in [Slots -> Seq(Unit)] /\ flash2[slot] = Units(u, HeaderLen, conn[u].sent + n)
    <2>1. CASE n > skip
      <3>1. flash2 = [flash1 EXCEPT ![slot] = @ \o Units(u, from, conn[u].sent + n)]
        BY <1>5, <1>6, <1>7, <2>1
      <3>2. /\ HeaderLen \in Nat /\ from \in Nat /\ conn[u].sent + n \in Nat
            /\ HeaderLen <= from /\ from <= conn[u].sent + n
        <4>1. /\ HeaderLen \in Nat /\ conn[u].sent \in Nat /\ n \in Nat
              /\ skip \in Nat /\ skip <= n /\ HeaderLen <= conn[u].sent + skip
          BY <1>2, <1>4
        <4> QED BY <4>1
      <3>3. flash1[slot] \o Units(u, from, conn[u].sent + n) = Units(u, HeaderLen, conn[u].sent + n)
        <4>1. flash1[slot] = Units(u, HeaderLen, from)
          BY <1>4
        <4> DEFINE to == conn[u].sent + n
        <4>2. /\ HeaderLen \in Nat /\ from \in Nat /\ to \in Nat
              /\ HeaderLen <= from /\ from <= to
          BY <3>2
        <4> HIDE DEF from, to
        <4>3. Units(u, HeaderLen, from) \o Units(u, from, to) = Units(u, HeaderLen, to)
          BY <4>2, UnitsJoin
        <4> QED BY <4>1, <4>3 DEF to
      <3>4. Units(u, HeaderLen, conn[u].sent + n) \in Seq(Unit)
        <4>1. HeaderLen <= conn[u].sent + n
          BY <3>2
        <4> QED BY <3>2, <4>1, UnitsType
      <3> HIDE DEF from, flash2
      <3> QED BY <1>4, <3>1, <3>3, <3>4
    <2>2. CASE n = skip
      <3>1. flash2 = flash1
        BY <1>6, <2>2, <1>4
      <3> HIDE DEF flash2
      <3> QED BY <1>4, <2>2, <3>1
    <2> QED BY <1>4, <2>1, <2>2
  <1>10. /\ o2 \in OtaState /\ o2.update_partition = slot /\ o2.handle_valid = TRUE
         /\ o2.remlen = o1.remlen /\ o2.size = size2
    <2>1. size2 \in Nat
      <3>1. /\ conn[u].sent \in Nat /\ HeaderLen \in Nat /\ skip \in 0 .. n /\ n \in Nat
            /\ conn[u].sent + skip >= HeaderLen
        BY <1>2, <1>4
      <3> HIDE DEF size2
      <3>2. conn[u].sent + n - HeaderLen \in Nat
        BY <3>1
      <3> QED BY <1>8, <3>2
    <2>2. o2 = [o1 EXCEPT !.size = size2, !.handle_valid = TRUE]
      <3>1. (o1.handle_valid /\ ~refused) = TRUE
        BY <1>4, <1>5
      <3> HIDE DEF refused, writes
      <3> QED BY <3>1
    <2> HIDE DEF o2, size2
    <2> QED BY <1>4, <2>1, <2>2 DEF OtaState, slot
  <1> HIDE DEF o2, size2, flash2, writes, refused, fault, from
  <1>11. done <=> o2.remlen <= 0
    BY DEF Received
  <1>12. ends <=> o2.remlen <= 0
    BY <1>10, <1>11
  <1>13. conn[u].sent + n >= HeaderLen
    BY <1>2, <1>4
  <1>14. ChunkGrows(u, n, slot)
    BY <1>1, <1>3, <1>4, <1>8, <1>9, <1>10, <1>11, <1>12, <1>13 DEF ChunkGrows
  <1> QED BY <1>14

LEMMA ReadClean == ASSUME SafeInv, CleanInv, NEW u \in Uploads, Read(u) PROVE CleanInv'
  <1>0. TypeOK /\ OneHandle
    BY DEF SafeInv
  <1>1. PICK n \in 0 .. MaxRead, begun \in BOOLEAN, wrote \in BOOLEAN :
          /\ n = 0 => conn[u].sent = 0 /\ ota.update_partition = NULL
          /\ conn[u].sent + n <= BodyLen[u]
          /\ HandleChunk(u, n, begun, wrote)
    BY DEF Read
  <1>2. n \in Nat
    BY OtaAssumption
  <1>3. u \in session'.of
    BY <1>1 DEF HandleChunk
  <1>4. \A v \in Uploads : Alone(v)' => v = u
    BY <1>3 DEF Alone
  <1>5. ASSUME Alone(u)' PROVE Progress(u)'
    <2>1. PICK slot : ChunkGrows(u, n, slot)
      BY <1>0, <1>1, <1>2, <1>5, AloneGrows
    <2>2. PICK o2 \in OtaState :
             /\ o2.update_partition = slot /\ o2.handle_valid = TRUE
             /\ o2.remlen = BodyLen[u] - (conn[u].sent + n)
             /\ o2.size = conn[u].sent + n - HeaderLen
             /\ ota' = IF o2.remlen <= 0
                       THEN [o2 EXCEPT !.update_partition = NULL, !.handle_valid = FALSE,
                                       !.success = @ \/ o2.handle_valid]
                       ELSE o2
             /\ boot' = IF o2.remlen <= 0 /\ Verified(flash'[slot]) THEN slot ELSE boot
      BY <2>1 DEF ChunkGrows
    <2>3. /\ slot \in Slots /\ session'.slot = slot /\ slot # NULL
          /\ conn[u].sent + n >= HeaderLen
          /\ flash'[slot] = Units(u, HeaderLen, conn[u].sent + n)
      BY <2>1, SlotFacts DEF ChunkGrows
    <2>4. /\ conn[u].sent \in Nat /\ BodyLen[u] \in Nat /\ HeaderLen \in Nat
          /\ conn'[u].sent = conn[u].sent + n
      <3>1. /\ conn \in [Uploads -> Conn] /\ BodyLen[u] \in Nat /\ HeaderLen \in Nat
        BY <1>0, OtaAssumption DEF TypeOK, Conn, ConnState
      <3>2. PICK s, o : ChunkEffect(u, n, s, o)
        BY <1>0, <1>1, <1>2, ChunkHasEffect
      <3>3. conn' = [conn EXCEPT ![u].sent = @ + n,
                                 ![u].state = IF o.remlen <= 0 THEN "draining" ELSE @]
        BY <3>2 DEF ChunkEffect
      <3> QED BY <1>2, <3>1, <3>3 DEF Conn, ConnState
    <2>5. CASE o2.remlen <= 0
      <3>1. conn[u].sent + n = BodyLen[u]
        BY <1>1, <1>2, <2>2, <2>4, <2>5
      <3>2. ota' = [o2 EXCEPT !.update_partition = NULL, !.handle_valid = FALSE,
                              !.success = o2.success \/ o2.handle_valid]
        BY <2>2, <2>5
      <3>3. (o2.success \/ o2.handle_valid) = TRUE
        BY <2>2
      <3>4. ota'.update_partition = NULL /\ ota'.success = TRUE /\ ota'.size = o2.size
        BY <3>2, <3>3 DEF OtaState
      <3>5. ASSUME u \notin Damaged PROVE boot' = slot
        <4>1. Verified(flash'[slot])
          BY <2>3, <3>1, <3>5, BodyVerifies DEF Verified
        <4> QED BY <2>2, <2>5, <4>1
      <3>6. flash'[slot] = Units(u, HeaderLen, BodyLen[u])
        BY <2>3, <3>1
      <3>7. ota'.size = BodyLen[u] - HeaderLen
        <4>1. o2.size = conn[u].sent + n - HeaderLen
          BY <2>2
        <4>2. ota'.size = o2.size
          BY <3>4
        <4> QED BY <1>2, <2>4, <3>1, <4>1, <4>2
      <3> QED BY <2>3, <3>4, <3>5, <3>6, <3>7 DEF Progress
    <2>6. CASE ~(o2.remlen <= 0)
      <3>1. ota' = o2
        BY <2>2, <2>6
      <3>2. ota'.update_partition = slot /\ ota'.handle_valid = TRUE
        BY <2>2, <3>1
      <3>3. ota'.remlen = BodyLen[u] - conn'[u].sent
        BY <2>2, <2>4, <3>1
      <3>4. ota'.size = conn'[u].sent - HeaderLen
        BY <2>2, <2>4, <3>1
      <3>5. flash'[slot] = Units(u, HeaderLen, conn'[u].sent) /\ conn'[u].sent >= HeaderLen
        BY <2>3, <2>4
      <3> QED BY <2>3, <3>2, <3>3, <3>4, <3>5 DEF Progress
    <2> QED BY <2>5, <2>6
  <1> QED BY <1>3, <1>4, <1>5 DEF CleanInv

LEMMA OtherClean ==
    ASSUME SafeInv, CleanInv,
           \/ \E u \in Uploads : Close(u) \/ BreakOff(u)
           \/ UNCHANGED vars
    PROVE  CleanInv'
  <1>1. UNCHANGED <<ota, flash, boot, session>>
    BY DEF Close, BreakOff, vars
  <1>2. \A v \in Uploads : conn'[v].sent = conn[v].sent
    <2>1. conn \in [Uploads -> Conn]
      BY DEF SafeInv, TypeOK, Conn, ConnState
    <2>2. CASE UNCHANGED vars
      BY <2>2 DEF vars
    <2>3. ASSUME NEW u \in Uploads, Close(u) \/ BreakOff(u)
          PROVE  \A v \in Uploads : conn'[v].sent = conn[v].sent
      <3>1. \E st : conn' = [conn EXCEPT ![u].state = st]
        BY <2>3 DEF Close, BreakOff
      <3> QED BY <2>1, <3>1 DEF Conn, ConnState
    <2> QED BY <2>2, <2>3
  <1>3. \A v \in Uploads : (Alone(v)' <=> Alone(v)) /\ (Progress(v) => Progress(v)')
    BY <1>1, <1>2 DEF Alone, Progress
  <1> QED BY <1>1, <1>3 DEF CleanInv

LEMMA RestartClean == ASSUME Restart PROVE CleanInv'
  <1>1. session'.of = {} /\ ota'.update_partition = NULL
    BY DEF Restart, NoSession, NoUpdate
  <1>2. \A u \in Uploads : ~Alone(u)'
    BY <1>1 DEF Alone
  <1> QED BY <1>1, <1>2 DEF CleanInv

\* An intact file that is uploaded without interruption, with its header in
\* the first chunk and without a flash error, is in the slot that boots next
\* when the update ends, and the page says so, however it was cut in chunks.
THEOREM CleanUploadWorks == Spec => []CleanUploadInstalled
  <1>1. Init => CleanInv
    <2> SUFFICES ASSUME Init PROVE CleanInv
      OBVIOUS
    <2>1. session.of = {} /\ ota.update_partition = NULL
      BY DEF Init, NoSession, NoUpdate
    <2>2. \A u \in Uploads : ~Alone(u)
      BY <2>1 DEF Alone
    <2> QED BY <2>1, <2>2 DEF CleanInv
  <1>2. SafeInv /\ CleanInv /\ [Next]_vars => CleanInv'
    <2> SUFFICES ASSUME SafeInv, CleanInv, [Next]_vars PROVE CleanInv'
      OBVIOUS
    <2> QED BY ReadClean, OtherClean, RestartClean DEF Next
  <1>3. CleanInv => CleanUploadInstalled
    <2> SUFFICES ASSUME CleanInv, NEW u \in Uploads \ Damaged,
                        Alone(u), ota.update_partition = NULL
                 PROVE  /\ ota.success /\ ota.size = BodyLen[u] - HeaderLen
                        /\ boot = session.slot /\ Holds(flash[boot], u)
      BY DEF CleanUploadInstalled, Alone
    <2>1. Progress(u)
      BY DEF CleanInv
    <2>2. /\ ota.success = TRUE /\ ota.size = BodyLen[u] - HeaderLen
          /\ flash[session.slot] = Units(u, HeaderLen, BodyLen[u])
          /\ boot = session.slot
      BY <2>1 DEF Progress
    <2> QED BY <2>2, BodyVerifies
  <1> QED BY <1>1, <1>2, <1>3, SafeAlways, PTL DEF Spec
=============================================================================
