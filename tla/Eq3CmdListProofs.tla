-------------------------- MODULE Eq3CmdListProofs --------------------------
(***************************************************************************)
(* Theorems about Eq3CmdList, for any number of cells, valves, commands,   *)
(* retries and requests, when the calls do not overlap: with one task the  *)
(* linked list implements the queue of CmdQueueContract.                   *)
(***************************************************************************)
EXTENDS Eq3CmdList, SequenceTheorems, FiniteSetTheorems, WellFoundedInduction, TLAPS

Serial == \E t : Tasks = {t}

\* The task, and the call it is in.
T == CHOOSE t \in Tasks : TRUE
me == call[T]

Enqueuing == {"test", "add_head", "walk", "add_end"}
Retrying == {"find_tail", "attach", "advance"}

\* A command as handle_request() makes it, of request n.
NewData(n) == {d \in Data : d.retries = MAX_CMD_RETRIES /\ d.id = n}

Labels == {"idle", "delete", "detach", "free"} \cup Enqueuing \cup Retrying

CallRec == [at : Labels, new : Ptr, last : Ptr, walk : Ptr, charged : BOOLEAN]

Types ==
    /\ cmdqueue \in Ptr /\ allocated \subseteq Cells /\ refused \subseteq Cells
    /\ heap \in [Cells -> [next : Ptr, data : Data \cup {NULL}]]
    /\ call \in [Tasks -> CallRec]
    /\ requests \in 0 .. MaxRequests

\* The cells of the list are linked; while REQUEUE_RETRY moves the head behind
\* the tail they form a circle.
Linked(s) ==
    /\ s \in Seq(Cells) /\ IsList(s)
    /\ s # <<>> => heap[s[Len(s)]].next =
                     IF me.at \in {"advance", "detach"} THEN cmdqueue ELSE NULL

\* What a cell of the list holds; the retry of a head that has just failed is
\* counted, but not its removal.
Charge(i) == IF i = 1 /\ me.charged THEN 1 ELSE 0

Filled(s) ==
    \A i \in 1 .. Len(s) :
        /\ s[i] \in allocated \ refused
        /\ heap[s[i]].data \in Data
        /\ heap[s[i]].data.retries + Charge(i) \in 1 .. MAX_CMD_RETRIES
        /\ heap[s[i]].data.id <= requests
        /\ me.at \in Enqueuing => heap[s[i]].data.id < requests

\* Every block is in the list, or was refused, or is the one the call is about.
Accounted(s) ==
    allocated = Range(s) \cup refused
                  \cup (IF me.at \in Enqueuing THEN {me.new} ELSE {})
                  \cup (IF me.at = "free" THEN {me.walk} ELSE {})

\* The command that enqueue_command() was given.
NewInv(s) ==
    me.at \in Enqueuing =>
        /\ me.new \in Cells \ (refused \cup Range(s)) /\ ~me.charged
        /\ heap[me.new].next = NULL
        /\ heap[me.new].data \in NewData(requests)

\* lastCommandForDevice after the first k cells.
LastIs(s, k) ==
    \/ me.last = NULL /\ \A i \in 1 .. k : ~SameValve(s[i], me.new)
    \/ \E i \in 1 .. k : /\ me.last = s[i] /\ SameValve(s[i], me.new)
                         /\ \A j \in (i + 1) .. k : ~SameValve(s[j], me.new)

\* Where the call is.
PlaceInv(s) ==
    /\ me.at = "idle" => me = Idle
    /\ me.at = "test" => me.walk = cmdqueue /\ me.last = NULL
    /\ me.at = "add_head" => s = <<>>
    /\ me.at = "walk" => \E k \in 1 .. Len(s) : me.walk = s[k] /\ LastIs(s, k)
    /\ me.at = "add_end" => s # <<>> /\ me.walk = s[Len(s)] /\ LastIs(s, Len(s))
    /\ me.at = "delete" => s # <<>> /\ (me.charged => heap[s[1]].data.retries = 0)
    /\ me.at \in Retrying =>
          Len(s) >= 2 /\ me.charged /\ heap[s[1]].data.retries > 0
    /\ me.at = "find_tail" => \E k \in 1 .. Len(s) : me.walk = s[k]
    /\ me.at \in {"attach", "advance"} => me.walk = s[Len(s)]
    /\ me.at = "detach" => Len(s) >= 2 /\ me.walk = s[Len(s) - 1] /\ ~me.charged
    /\ me.at = "free" =>
          me.walk \in Cells \ (refused \cup Range(s)) /\ ~me.charged

Inv(s) == Linked(s) /\ Filled(s) /\ Accounted(s) /\ NewInv(s) /\ PlaceInv(s)

ListInv == Types /\ Inv(List)

\* A step that changes nothing the commands of the list are seen by.
Same(s) ==
    /\ me'.charged = me.charged
    /\ \A i \in 1 .. Len(s) : heap'[s[i]].data = heap[s[i]].data

-----------------------------------------------------------------------------
(* There is one list *)

\* Induction over a list: a set of positions that is not empty has a first one.
LEMMA First ==
    ASSUME NEW S, S \subseteq Nat, S # {}
    PROVE  \E x \in S : \A y \in S : x <= y
<1>1. PICK x \in S : \A y \in S : ~(<<y, x>> \in OpToRel(<, Nat))
  BY WFMin, NatLessThanWellFounded
<1>2. \A y \in S : ~(y < x)
  BY <1>1 DEF OpToRel
<1> QED  BY <1>2

\* Sequences without repetition, by positions.
LEMMA Positions ==
    ASSUME NEW s \in Seq(Cells)
    PROVE  /\ Len(s) \in Nat /\ DOMAIN s = 1 .. Len(s)
           /\ \A i \in 1 .. Len(s) : s[i] \in Cells
           /\ IsInjective(s) <=> \A i, j \in 1 .. Len(s) : s[i] = s[j] => i = j
           /\ \A x : x \in Range(s) <=> \E i \in 1 .. Len(s) : x = s[i]
           /\ s # <<>> <=> Len(s) >= 1
<1>1. Len(s) \in Nat /\ DOMAIN s = 1 .. Len(s) /\ \A i \in 1 .. Len(s) : s[i] \in Cells
  OBVIOUS
<1>2. IsInjective(s) <=> \A i, j \in 1 .. Len(s) : s[i] = s[j] => i = j
  BY <1>1 DEF IsInjective
<1>3. \A x : x \in Range(s) <=> \E i \in 1 .. Len(s) : x = s[i]
  BY <1>1 DEF Range
<1>4. s # <<>> <=> Len(s) >= 1
  BY <1>1
<1> QED  BY <1>1, <1>2, <1>3, <1>4

LEMMA OneList ==
    ASSUME NEW s \in Seq(Cells), NEW r \in Seq(Cells), IsList(s), IsList(r)
    PROVE  Len(s) <= Len(r) /\ \A i \in 1 .. Len(s) : s[i] = r[i]
<1>0. NULL \notin Cells
  BY CmdListAssumption
<1>1. /\ Len(s) \in Nat /\ \A i \in 1 .. Len(s) : s[i] \in Cells
      /\ Len(r) \in Nat /\ \A i \in 1 .. Len(r) : r[i] \in Cells
      /\ \A i, j \in 1 .. Len(s) : s[i] = s[j] => i = j
      /\ s # <<>> <=> Len(s) >= 1
      /\ r # <<>> <=> Len(r) >= 1
      /\ \A x : x \in Range(r) <=> \E i \in 1 .. Len(r) : x = r[i]
  BY Positions DEF IsList
<1>2. /\ \A i \in 1 .. Len(s) - 1 : heap[s[i]].next = s[i + 1]
      /\ \A i \in 1 .. Len(r) - 1 : heap[r[i]].next = r[i + 1]
      /\ Len(r) >= 1 => heap[r[Len(r)]].next \in Range(r) \cup {NULL}
  BY <1>1 DEF IsList
<1>3. Len(s) >= 1 => Len(r) >= 1 /\ s[1] = r[1]
  <2>1. Len(s) >= 1 => cmdqueue = s[1] /\ s[1] \in Cells
    BY <1>1 DEF IsList
  <2>2. Len(r) < 1 => cmdqueue = NULL
    BY <1>1 DEF IsList
  <2>3. Len(r) >= 1 => cmdqueue = r[1]
    BY <1>1 DEF IsList
  <2> QED  BY <1>0, <1>1, <2>1, <2>2, <2>3
<1> DEFINE Bad == {i \in 1 .. Len(s) : ~(i <= Len(r) /\ s[i] = r[i])}
<1>4. Bad = {}
  <2> SUFFICES ASSUME Bad # {} PROVE FALSE
    OBVIOUS
  <2>1. PICK i \in Bad : \A j \in Bad : i <= j
    <3>1. Bad \subseteq Nat
      BY <1>1
    <3> QED  BY <3>1, First
  <2>2. i \in 1 .. Len(s) /\ ~(i <= Len(r) /\ s[i] = r[i]) /\ i \in Nat
    BY <1>1
  <2>3. i # 1
    BY <1>1, <1>3, <2>2
  <2>4. i - 1 \in 1 .. Len(s) /\ i - 1 \notin Bad
    BY <1>1, <2>1, <2>2, <2>3
  <2>5. i - 1 <= Len(r) /\ s[i - 1] = r[i - 1]
    BY <2>4
  <2>6. heap[s[i - 1]].next = s[i]
    <3>1. i - 1 \in 1 .. Len(s) - 1 /\ (i - 1) + 1 = i
      BY <1>1, <2>2, <2>3
    <3> QED  BY <1>2, <3>1
  <2>7. CASE i <= Len(r)
    <3>1. i - 1 \in 1 .. Len(r) - 1 /\ (i - 1) + 1 = i
      BY <1>1, <2>2, <2>3, <2>7
    <3>2. heap[r[i - 1]].next = r[i]
      BY <1>2, <3>1
    <3> QED  BY <2>2, <2>5, <2>6, <2>7, <3>2
  <2>8. CASE i > Len(r)
    <3>1. i - 1 = Len(r) /\ Len(r) >= 1
      BY <1>1, <2>2, <2>3, <2>5, <2>8
    <3>2. s[i] \in Range(r) \cup {NULL}
      BY <1>2, <2>5, <2>6, <3>1
    <3>3. s[i] \in Cells
      BY <1>1, <2>2
    <3>4. PICK k \in 1 .. Len(r) : s[i] = r[k]
      BY <1>0, <1>1, <3>2, <3>3
    <3>5. k \in 1 .. Len(s) /\ k < i
      BY <1>1, <2>2, <2>8, <3>1
    <3>6. k \notin Bad
      BY <1>1, <2>1, <2>2, <3>5
    <3>7. s[k] = r[k]
      BY <3>5, <3>6
    <3> QED  BY <1>1, <2>2, <3>4, <3>5, <3>7
  <2> QED  BY <1>1, <2>2, <2>7, <2>8
<1>5. \A i \in 1 .. Len(s) : i <= Len(r) /\ s[i] = r[i]
  BY <1>4
<1>6. Len(s) <= Len(r)
  <2>1. CASE Len(s) >= 1
    <3>1. Len(s) \in 1 .. Len(s)
      BY <1>1, <2>1
    <3> QED  BY <1>5, <3>1
  <2> QED  BY <1>1, <2>1
<1> QED  BY <1>5, <1>6

LEMMA ListBound ==
    ASSUME NEW s \in Seq(Cells), IsInjective(s)
    PROVE  s \in UNION {[1 .. n -> Cells] : n \in 0 .. Cardinality(Cells)}
<1>1. Len(s) \in Nat /\ s \in [1 .. Len(s) -> Cells]
  OBVIOUS
<1>2. IsFiniteSet(Cells)
  BY CmdListAssumption
<1>3. s \in Injection(1 .. Len(s), Cells)
  BY <1>1 DEF Injection
<1>4. Cardinality(1 .. Len(s)) <= Cardinality(Cells)
  BY <1>2, <1>3, FS_Injection
<1>5. Cardinality(1 .. Len(s)) = Len(s)
  BY <1>1, FS_Interval
<1>6. Cardinality(Cells) \in Nat
  BY <1>2, FS_CardinalityType
<1>7. Len(s) \in 0 .. Cardinality(Cells)
  BY <1>1, <1>4, <1>5, <1>6
<1> QED  BY <1>1, <1>7

\* What is linked is the list.
LEMMA ListIs == \A s \in Seq(Cells) : IsList(s) => List = s
<1> SUFFICES ASSUME NEW s \in Seq(Cells), IsList(s) PROVE List = s
  OBVIOUS
<1> DEFINE S == UNION {[1 .. n -> Cells] : n \in 0 .. Cardinality(Cells)}
<1>1. s \in S
  BY ListBound DEF IsList
<1>2. List \in S /\ IsList(List)
  BY <1>1 DEF List
<1>3. List \in Seq(Cells)
  <2>1. PICK n \in 0 .. Cardinality(Cells) : List \in [1 .. n -> Cells]
    BY <1>2
  <2>2. Cardinality(Cells) \in Nat
    BY CmdListAssumption, FS_CardinalityType
  <2>3. n \in Nat
    BY <2>2
  <2> QED  BY <2>1, <2>3
<1> HIDE DEF S
<1>4. /\ Len(s) <= Len(List) /\ \A i \in 1 .. Len(s) : s[i] = List[i]
      /\ Len(List) <= Len(s)
  BY <1>2, <1>3, OneList
<1>5. Len(List) = Len(s)
  BY <1>3, <1>4
<1> QED  BY <1>3, <1>4, <1>5, SeqEqual

LEMMA ListIsNext == (\A s \in Seq(Cells) : IsList(s) => List = s)'
  BY ListIs, PTL

-----------------------------------------------------------------------------
(* The call *)

LEMMA Alone == ASSUME Serial PROVE Tasks = {T}
  BY DEF Serial, T

LEMMA MeTyped ==
    ASSUME Serial, Types
    PROVE  /\ me \in CallRec /\ me.at \in Labels /\ me.new \in Ptr /\ me.last \in Ptr
           /\ me.walk \in Ptr /\ me.charged \in BOOLEAN
<1>1. me \in CallRec
  BY Alone DEF Types, me
<1> QED  BY <1>1 DEF CallRec

\* The next record of the task.
LEMMA NextMe ==
    ASSUME Serial, Types, NEW r \in CallRec, call' = [call EXCEPT ![T] = r]
    PROVE  call' \in [Tasks -> CallRec] /\ me' = r
<1>1. T \in Tasks
  BY Alone
<1>2. call \in [Tasks -> CallRec]
  BY DEF Types
<1>3. call' \in [Tasks -> CallRec] /\ call'[T] = r
  BY <1>1, <1>2
<1> QED  BY <1>3 DEF me

LEMMA GotoMe ==
    ASSUME Serial, Types, NEW l \in Labels, Goto(T, l)
    PROVE  /\ call' \in [Tasks -> CallRec] /\ me'.at = l /\ me'.new = me.new
           /\ me'.last = me.last /\ me'.walk = me.walk /\ me'.charged = me.charged
<1> DEFINE r == [me EXCEPT !.at = l]
<1>1. me \in CallRec
  BY MeTyped
<1>2. r \in CallRec
  BY <1>1 DEF CallRec
<1>3. call' = [call EXCEPT ![T] = r]
  BY DEF Goto, me
<1>4. /\ r.at = l /\ r.new = me.new /\ r.last = me.last /\ r.walk = me.walk
      /\ r.charged = me.charged
  BY <1>1 DEF CallRec
<1> HIDE DEF r
<1>5. call' \in [Tasks -> CallRec] /\ me' = r
  BY <1>2, <1>3, NextMe
<1> QED  BY <1>4, <1>5

LEMMA IdleMe ==
    /\ Idle.at = "idle" /\ Idle.new = NULL /\ Idle.last = NULL /\ Idle.walk = NULL
    /\ Idle.charged = FALSE /\ Idle \in CallRec
<1>1. NULL \in Ptr /\ "idle" \in Labels
  BY DEF Ptr, Labels
<1> QED  BY <1>1 DEF Idle, CallRec

LEMMA ReturnMe ==
    ASSUME Serial, Types, Return(T)
    PROVE  call' \in [Tasks -> CallRec] /\ me' = Idle
  BY IdleMe, NextMe DEF Return

LEMMA VisitMe ==
    ASSUME Serial, Types, NEW c \in Cells, VisitCell(T, c)
    PROVE  /\ call' \in [Tasks -> CallRec] /\ me'.at = "walk" /\ me'.new = me.new
           /\ me'.walk = c /\ me'.charged = me.charged
           /\ me'.last = IF SameValve(c, me.new) THEN c ELSE me.last
<1> DEFINE r == [me EXCEPT !.at = "walk", !.walk = c,
                           !.last = IF SameValve(c, me.new) THEN c ELSE me.last]
<1>1. me \in CallRec /\ me.last \in Ptr
  BY MeTyped
<1>2. c \in Ptr /\ "walk" \in Labels /\ (IF SameValve(c, me.new) THEN c ELSE me.last) \in Ptr
  BY <1>1 DEF Ptr, Labels, Enqueuing
<1>3. r \in CallRec
  BY <1>1, <1>2 DEF CallRec
<1>4. call' = [call EXCEPT ![T] = r]
  BY DEF VisitCell, me
<1>5. /\ r.at = "walk" /\ r.new = me.new /\ r.walk = c /\ r.charged = me.charged
      /\ r.last = IF SameValve(c, me.new) THEN c ELSE me.last
  BY <1>1 DEF CallRec
<1> HIDE DEF r
<1>6. call' \in [Tasks -> CallRec] /\ me' = r
  BY <1>3, <1>4, NextMe
<1> QED  BY <1>5, <1>6

\* What the invariant says, position by position.
LEMMA InvFacts ==
    ASSUME Types, NEW s, Inv(s)
    PROVE  /\ s \in Seq(Cells) /\ Len(s) \in Nat
           /\ \A i \in 1 .. Len(s) : s[i] \in Cells
           /\ \A i, j \in 1 .. Len(s) : s[i] = s[j] => i = j
           /\ s # <<>> <=> Len(s) >= 1
           /\ cmdqueue # NULL <=> Len(s) >= 1
           /\ Len(s) >= 1 => cmdqueue = s[1]
           /\ \A i \in 1 .. Len(s) - 1 : heap[s[i]].next = s[i + 1]
           /\ Len(s) >= 1 => heap[s[Len(s)]].next =
                     IF me.at \in {"advance", "detach"} THEN cmdqueue ELSE NULL
           /\ \A x : x \in Range(s) <=> \E i \in 1 .. Len(s) : x = s[i]
<1>1. s \in Seq(Cells) /\ IsList(s)
  BY DEF Inv, Linked
<1>2. /\ Len(s) \in Nat
      /\ \A i \in 1 .. Len(s) : s[i] \in Cells
      /\ \A i, j \in 1 .. Len(s) : s[i] = s[j] => i = j
      /\ s # <<>> <=> Len(s) >= 1
      /\ \A x : x \in Range(s) <=> \E i \in 1 .. Len(s) : x = s[i]
  BY <1>1, Positions DEF IsList
<1>3. /\ Len(s) >= 1 => cmdqueue = s[1]
      /\ ~(Len(s) >= 1) => cmdqueue = NULL
  BY <1>1, <1>2 DEF IsList
<1>4. \A i \in 1 .. Len(s) - 1 : heap[s[i]].next = s[i + 1]
  BY <1>1 DEF IsList
<1>5. Len(s) >= 1 => heap[s[Len(s)]].next =
                     IF me.at \in {"advance", "detach"} THEN cmdqueue ELSE NULL
  BY <1>2 DEF Inv, Linked
<1>6. cmdqueue # NULL <=> Len(s) >= 1
  BY <1>2, <1>3, CmdListAssumption
<1> QED  BY <1>1, <1>2, <1>3, <1>4, <1>5, <1>6

\* Steps that leave the cells and the head alone.
LEMMA SameHeap ==
    ASSUME NEW s, Linked(s), heap' = heap, cmdqueue' = cmdqueue,
           me'.at \in {"advance", "detach"} <=> me.at \in {"advance", "detach"}
    PROVE  Linked(s)'
  BY DEF Linked, IsList

LEMMA SameFilled ==
    ASSUME NEW s, Filled(s), heap' = heap, allocated' = allocated, refused' = refused,
           requests' = requests, me'.charged = me.charged,
           me'.at \in Enqueuing => me.at \in Enqueuing
    PROVE  Filled(s)'
<1>1. \A i : Charge(i)' = Charge(i)
  BY DEF Charge
<1> QED  BY <1>1 DEF Filled

LEMMA SameNew ==
    ASSUME NEW s, NewInv(s), heap' = heap, refused' = refused, requests' = requests,
           me'.charged = me.charged, me'.new = me.new,
           me'.at \in Enqueuing => me.at \in Enqueuing
    PROVE  NewInv(s)'
<1>1. NewData(requests)' = NewData(requests)
  BY DEF NewData
<1> QED  BY <1>1 DEF NewInv

LEMMA SucceededStep ==
    ASSUME Serial, Types, NEW s, Inv(s), Succeeded(T)
    PROVE  Types' /\ Inv(s)' /\ Same(s)
<1>1. /\ me.at = "idle" /\ cmdqueue # NULL /\ Goto(T, "delete")
      /\ UNCHANGED <<cmdqueue, heap, allocated, requests, refused>>
  BY DEF Succeeded, At, me
<1>2. /\ call' \in [Tasks -> CallRec] /\ me'.at = "delete" /\ me'.new = me.new
      /\ me'.charged = me.charged
  BY <1>1, GotoMe DEF Labels
<1>3. me.charged = FALSE
  BY <1>1, IdleMe DEF Inv, PlaceInv
<1>4. Types'
  BY <1>1, <1>2 DEF Types
<1>5. Linked(s)'
  BY <1>1, <1>2, SameHeap DEF Inv
<1>6. Filled(s)'
  BY <1>1, <1>2, SameFilled DEF Inv, Enqueuing
<1>7. Accounted(s)'
  BY <1>1, <1>2 DEF Inv, Accounted, Enqueuing
<1>8. NewInv(s)'
  BY <1>2 DEF NewInv, Enqueuing
<1>9. s # <<>>
  BY <1>1, InvFacts
<1>10. PlaceInv(s)'
  BY <1>2, <1>3, <1>9 DEF PlaceInv, Retrying
<1>11. Same(s)
  BY <1>1, <1>2 DEF Same
<1> QED  BY <1>4, <1>5, <1>6, <1>7, <1>8, <1>10, <1>11 DEF Inv

-----------------------------------------------------------------------------
(* enqueue_command() *)

LEMMA SetNextEffect ==
    ASSUME Types, NEW c \in Cells, NEW q \in Ptr, SetNext(c, q)
    PROVE  /\ heap' \in [Cells -> [next : Ptr, data : Data \cup {NULL}]]
           /\ heap'[c].next = q
           /\ \A x \in Cells : heap'[x].data = heap[x].data
           /\ \A x \in Cells : x # c => heap'[x].next = heap[x].next
<1>1. heap \in [Cells -> [next : Ptr, data : Data \cup {NULL}]]
  BY DEF Types
<1> DEFINE h == [heap[c] EXCEPT !.next = q]
<1>2. heap' = [heap EXCEPT ![c] = h]
  BY DEF SetNext
<1>3. /\ h \in [next : Ptr, data : Data \cup {NULL}] /\ h.next = q
      /\ h.data = heap[c].data
  BY <1>1
<1> HIDE DEF h
<1>4. heap'[c] = h /\ \A x \in Cells : x # c => heap'[x] = heap[x]
  BY <1>1, <1>2
<1>5. heap' \in [Cells -> [next : Ptr, data : Data \cup {NULL}]]
  BY <1>1, <1>2, <1>3
<1>6. \A x \in Cells : heap'[x].data = heap[x].data
  BY <1>3, <1>4
<1> QED  BY <1>3, <1>4, <1>5, <1>6

\* The walk changes neither the list nor the new command.
LEMMA StillEnqueuing ==
    ASSUME NEW s, Inv(s), me.at \in Enqueuing, me'.at \in Enqueuing,
           heap' = heap, cmdqueue' = cmdqueue, allocated' = allocated,
           refused' = refused, requests' = requests,
           me'.new = me.new, me'.charged = me.charged
    PROVE  Linked(s)' /\ Filled(s)' /\ Accounted(s)' /\ NewInv(s)'
<1>1. /\ me.at \notin {"advance", "detach"} /\ me'.at \notin {"advance", "detach"}
      /\ me.at # "free" /\ me'.at # "free"
  BY DEF Enqueuing
<1>2. Linked(s)'
  BY <1>1, SameHeap DEF Inv
<1>3. Filled(s)'
  BY SameFilled DEF Inv
<1>4. Accounted(s)'
  BY <1>1 DEF Inv, Accounted
<1>5. NewInv(s)'
  BY SameNew DEF Inv
<1> QED  BY <1>2, <1>3, <1>4, <1>5

\* One more cell visited.
LEMMA LastMoves ==
    ASSUME NEW s \in Seq(Cells), NEW k \in Nat, k + 1 <= Len(s), LastIs(s, k),
           heap' = heap, me'.new = me.new,
           me'.last = IF SameValve(s[k + 1], me.new) THEN s[k + 1] ELSE me.last
    PROVE  LastIs(s, k + 1)'
<1>1. \A c, d : SameValve(c, d)' <=> SameValve(c, d)
  BY DEF SameValve
<1>2. /\ \A i : i \in 1 .. k + 1 <=> i \in 1 .. k \/ i = k + 1
      /\ \A i \in 1 .. k : \A j : j \in (i + 1) .. (k + 1) <=> j \in (i + 1) .. k \/ j = k + 1
      /\ (k + 1) + 1 .. k + 1 = {}
  OBVIOUS
<1>3. CASE SameValve(s[k + 1], me.new)
  <2>1. me'.last = s[k + 1]
    BY <1>3
  <2> QED  BY <1>1, <1>2, <1>3, <2>1 DEF LastIs
<1>4. CASE ~SameValve(s[k + 1], me.new)
  <2>1. me'.last = me.last
    BY <1>4
  <2>2. CASE me.last = NULL /\ \A i \in 1 .. k : ~SameValve(s[i], me.new)
    BY <1>1, <1>2, <1>4, <2>1, <2>2 DEF LastIs
  <2>3. ASSUME NEW i \in 1 .. k, me.last = s[i], SameValve(s[i], me.new),
               \A j \in (i + 1) .. k : ~SameValve(s[j], me.new)
        PROVE  LastIs(s, k + 1)'
    BY <1>1, <1>2, <1>4, <2>1, <2>3 DEF LastIs
  <2> QED  BY <2>2, <2>3 DEF LastIs
<1> QED  BY <1>3, <1>4

LEMMA TestEmptyStep ==
    ASSUME Serial, Types, NEW s, Inv(s), TestEmpty(T)
    PROVE  Types' /\ Inv(s)' /\ Same(s)
<1>1. /\ me.at = "test"
      /\ IF cmdqueue = NULL THEN Goto(T, "add_head")
         ELSE IF me.walk = NULL THEN Goto(T, "crashed")
         ELSE VisitCell(T, me.walk)
      /\ UNCHANGED <<cmdqueue, heap, allocated, requests, refused>>
  BY DEF TestEmpty, At, me
<1>2. me.walk = cmdqueue /\ me.last = NULL
  BY <1>1 DEF Inv, PlaceInv
<1>f. /\ s \in Seq(Cells) /\ Len(s) \in Nat /\ (s # <<>> <=> Len(s) >= 1)
      /\ (cmdqueue # NULL <=> Len(s) >= 1) /\ (Len(s) >= 1 => cmdqueue = s[1])
      /\ \A i \in 1 .. Len(s) : s[i] \in Cells
  BY InvFacts
<1>3. CASE cmdqueue = NULL
  <2>1. /\ call' \in [Tasks -> CallRec] /\ me'.at = "add_head" /\ me'.new = me.new
        /\ me'.charged = me.charged
    BY <1>1, <1>3, GotoMe DEF Labels, Enqueuing
  <2>2. Types'
    BY <1>1, <2>1 DEF Types
  <2>3. Linked(s)' /\ Filled(s)' /\ Accounted(s)' /\ NewInv(s)'
    BY <1>1, <2>1, StillEnqueuing DEF Enqueuing
  <2>4. s = <<>>
    BY <1>3, <1>f
  <2>5. PlaceInv(s)'
    BY <2>1, <2>4 DEF PlaceInv, Retrying
  <2>6. Same(s)
    BY <1>1, <2>1 DEF Same
  <2> QED  BY <2>2, <2>3, <2>5, <2>6 DEF Inv
<1>4. CASE cmdqueue # NULL
  <2>1. Len(s) >= 1 /\ me.walk = s[1] /\ s[1] \in Cells /\ 1 \in 1 .. Len(s)
    BY <1>2, <1>4, <1>f
  <2>2. VisitCell(T, s[1])
    BY <1>1, <1>2, <1>4, <2>1
  <2>3. /\ call' \in [Tasks -> CallRec] /\ me'.at = "walk" /\ me'.new = me.new
        /\ me'.walk = s[1] /\ me'.charged = me.charged
        /\ me'.last = IF SameValve(s[1], me.new) THEN s[1] ELSE me.last
    BY <2>1, <2>2, VisitMe
  <2>4. Types'
    BY <1>1, <2>3 DEF Types
  <2>5. Linked(s)' /\ Filled(s)' /\ Accounted(s)' /\ NewInv(s)'
    BY <1>1, <2>3, StillEnqueuing DEF Enqueuing
  <2>6. LastIs(s, 0)
    BY <1>2 DEF LastIs
  <2>7. LastIs(s, 1)'
    <3>1. 0 \in Nat /\ 0 + 1 = 1 /\ 0 + 1 <= Len(s)
      BY <1>f, <2>1
    <3> QED  BY <1>1, <1>f, <2>3, <2>6, <3>1, LastMoves
  <2>8. PlaceInv(s)'
    BY <2>1, <2>3, <2>7 DEF PlaceInv, Retrying
  <2>9. Same(s)
    BY <1>1, <2>3 DEF Same
  <2> QED  BY <2>4, <2>5, <2>8, <2>9 DEF Inv
<1> QED  BY <1>3, <1>4

LEMMA WalkStep ==
    ASSUME Serial, Types, NEW s, Inv(s), Walk(T)
    PROVE  Types' /\ Inv(s)' /\ Same(s)
<1>1. /\ me.at = "walk"
      /\ IF heap[me.walk].next # NULL THEN VisitCell(T, heap[me.walk].next)
         ELSE Goto(T, "add_end")
      /\ UNCHANGED <<cmdqueue, heap, allocated, requests, refused>>
  BY DEF Walk, At, me
<1>2. PICK k \in 1 .. Len(s) : me.walk = s[k] /\ LastIs(s, k)
  BY <1>1 DEF Inv, PlaceInv
<1>f. /\ s \in Seq(Cells) /\ Len(s) \in Nat /\ (s # <<>> <=> Len(s) >= 1)
      /\ \A i \in 1 .. Len(s) : s[i] \in Cells
      /\ \A i \in 1 .. Len(s) - 1 : heap[s[i]].next = s[i + 1]
      /\ Len(s) >= 1 => heap[s[Len(s)]].next = NULL
  BY <1>1, InvFacts
<1>3. k \in Nat /\ Len(s) >= 1 /\ NULL \notin Cells
  BY <1>2, <1>f, CmdListAssumption
<1>4. CASE k < Len(s)
  <2>1. k + 1 \in 1 .. Len(s) /\ k \in 1 .. Len(s) - 1
    BY <1>2, <1>4, <1>f
  <2>2. heap[me.walk].next = s[k + 1] /\ s[k + 1] \in Cells
    BY <1>2, <1>f, <2>1
  <2>3. VisitCell(T, s[k + 1])
    BY <1>1, <1>3, <2>2
  <2>4. /\ call' \in [Tasks -> CallRec] /\ me'.at = "walk" /\ me'.new = me.new
        /\ me'.walk = s[k + 1] /\ me'.charged = me.charged
        /\ me'.last = IF SameValve(s[k + 1], me.new) THEN s[k + 1] ELSE me.last
    BY <2>2, <2>3, VisitMe
  <2>5. Types'
    BY <1>1, <2>4 DEF Types
  <2>6. Linked(s)' /\ Filled(s)' /\ Accounted(s)' /\ NewInv(s)'
    BY <1>1, <2>4, StillEnqueuing DEF Enqueuing
  <2>7. LastIs(s, k + 1)'
    <3>1. k + 1 <= Len(s)
      BY <1>3, <1>4, <1>f
    <3> QED  BY <1>1, <1>2, <1>3, <1>f, <2>4, <3>1, LastMoves
  <2>8. PlaceInv(s)'
    BY <2>1, <2>4, <2>7 DEF PlaceInv, Retrying
  <2>9. Same(s)
    BY <1>1, <2>4 DEF Same
  <2> QED  BY <2>5, <2>6, <2>8, <2>9 DEF Inv
<1>5. CASE k = Len(s)
  <2>1. heap[me.walk].next = NULL
    BY <1>2, <1>3, <1>5, <1>f
  <2>2. /\ call' \in [Tasks -> CallRec] /\ me'.at = "add_end" /\ me'.new = me.new
        /\ me'.walk = me.walk /\ me'.last = me.last /\ me'.charged = me.charged
    BY <1>1, <2>1, GotoMe DEF Labels, Enqueuing
  <2>3. Types'
    BY <1>1, <2>2 DEF Types
  <2>4. Linked(s)' /\ Filled(s)' /\ Accounted(s)' /\ NewInv(s)'
    BY <1>1, <2>2, StillEnqueuing DEF Enqueuing
  <2>5. LastIs(s, Len(s))'
    BY <1>1, <1>2, <1>5, <2>2 DEF LastIs, SameValve
  <2>6. PlaceInv(s)'
    BY <1>2, <1>3, <1>5, <1>f, <2>2, <2>5 DEF PlaceInv, Retrying
  <2>7. Same(s)
    BY <1>1, <2>2 DEF Same
  <2> QED  BY <2>3, <2>4, <2>6, <2>7 DEF Inv
<1> QED  BY <1>2, <1>4, <1>5, <1>f

LEMMA NewRequestStep ==
    ASSUME Serial, Types, NEW s, Inv(s), NewRequest(T)
    PROVE  Types' /\ Inv(s)' /\ Same(s)
<1>1. /\ me.at = "idle" /\ requests < MaxRequests /\ requests' = requests + 1
      /\ UNCHANGED <<cmdqueue, refused>>
  BY DEF NewRequest, At, me
<1> DEFINE new(d, k, j) == [bleda |-> d, cmd |-> k, junk |-> j,
                            retries |-> MAX_CMD_RETRIES, id |-> requests + 1]
           test(c) == [Idle EXCEPT !.at = "test", !.new = c, !.walk = cmdqueue]
<1>2. PICK c \in Cells \ allocated, d \in Devs, k \in Cmds, j \in Junk :
         /\ heap' = [heap EXCEPT ![c] = [next |-> NULL, data |-> new(d, k, j)]]
         /\ allocated' = allocated \cup {c}
         /\ call' = [call EXCEPT ![T] = test(c)]
  BY DEF NewRequest
<1>3. /\ requests \in Nat /\ requests' \in 0 .. MaxRequests /\ requests' \in 1 .. MaxRequests
      /\ MAX_CMD_RETRIES \in 0 .. MAX_CMD_RETRIES /\ MAX_CMD_RETRIES \in Nat
  BY <1>1, CmdListAssumption DEF Types
<1>4. new(d, k, j) \in Data /\ new(d, k, j).retries = MAX_CMD_RETRIES
      /\ new(d, k, j).id = requests'
  BY <1>1, <1>3 DEF Data
<1>5. /\ test(c) \in CallRec /\ test(c).at = "test" /\ test(c).new = c
      /\ test(c).walk = cmdqueue /\ test(c).last = NULL /\ test(c).charged = FALSE
  BY DEF Types, Idle, CallRec, Labels, Enqueuing, Ptr
<1>6. /\ call' \in [Tasks -> CallRec] /\ me'.at = "test" /\ me'.new = c
      /\ me'.walk = cmdqueue /\ me'.last = NULL /\ me'.charged = FALSE
  <2> HIDE DEF test
  <2>1. call' \in [Tasks -> CallRec] /\ me' = test(c)
    BY <1>2, <1>5, NextMe
  <2> QED  BY <1>5, <2>1
<1> HIDE DEF new, test
<1>7. /\ heap' \in [Cells -> [next : Ptr, data : Data \cup {NULL}]]
      /\ heap'[c].next = NULL /\ heap'[c].data = new(d, k, j)
      /\ \A x \in Cells : x # c => heap'[x] = heap[x]
  BY <1>2, <1>4 DEF Types, Ptr
<1>8. Types'
  BY <1>1, <1>2, <1>3, <1>6, <1>7 DEF Types
<1>f. /\ s \in Seq(Cells) /\ Len(s) \in Nat /\ (s # <<>> <=> Len(s) >= 1)
      /\ \A i \in 1 .. Len(s) : s[i] \in Cells
      /\ \A x : x \in Range(s) <=> \E i \in 1 .. Len(s) : x = s[i]
  BY InvFacts
<1>9. /\ \A i \in 1 .. Len(s) : s[i] \in allocated \ refused
      /\ allocated = Range(s) \cup refused
  BY <1>1 DEF Inv, Filled, Accounted, Enqueuing
<1>10. /\ c \notin Range(s) /\ c \notin refused
       /\ \A i \in 1 .. Len(s) : heap'[s[i]] = heap[s[i]]
  BY <1>2, <1>7, <1>9, <1>f
<1>11. Linked(s)'
  <2>1. heap[s[Len(s)]].next = heap'[s[Len(s)]].next \/ s = <<>>
    BY <1>10, <1>f
  <2>2. \A i \in 1 .. Len(s) - 1 : heap'[s[i]].next = heap[s[i]].next
    BY <1>10, <1>f
  <2>3. s # <<>> => heap[s[Len(s)]].next = NULL
    BY <1>1 DEF Inv, Linked
  <2> QED  BY <1>1, <1>6, <1>f, <2>1, <2>2, <2>3 DEF Inv, Linked, IsList
<1>12. Filled(s)'
  <2>1. me.charged = FALSE
    BY <1>1, IdleMe DEF Inv, PlaceInv
  <2>2. \A i : Charge(i) = 0 /\ Charge(i)' = 0
    BY <1>6, <2>1 DEF Charge
  <2> SUFFICES ASSUME NEW i \in 1 .. Len(s)
               PROVE  /\ s[i] \in allocated' \ refused' /\ heap'[s[i]].data \in Data
                      /\ heap'[s[i]].data.retries + Charge(i)' \in 1 .. MAX_CMD_RETRIES
                      /\ heap'[s[i]].data.id < requests'
    BY <1>3 DEF Filled, Data
  <2>3. /\ s[i] \in allocated \ refused /\ heap[s[i]].data \in Data
        /\ heap[s[i]].data.retries + Charge(i) \in 1 .. MAX_CMD_RETRIES
        /\ heap[s[i]].data.id <= requests
    BY DEF Inv, Filled
  <2>4. heap[s[i]].data.id \in Nat
    BY <2>3 DEF Data
  <2>5. heap[s[i]].data.id < requests'
    BY <1>1, <1>3, <2>3, <2>4
  <2> QED  BY <1>1, <1>2, <1>10, <2>2, <2>3, <2>5
<1>13. Accounted(s)'
  BY <1>1, <1>2, <1>6, <1>9 DEF Accounted, Enqueuing
<1>14. NewInv(s)'
  BY <1>1, <1>4, <1>6, <1>7, <1>10 DEF NewInv, NewData
<1>15. PlaceInv(s)'
  BY <1>1, <1>6 DEF PlaceInv, Retrying
<1>16. Same(s)
  <2>1. me.charged = FALSE
    BY <1>1, IdleMe DEF Inv, PlaceInv
  <2> QED  BY <1>6, <1>10, <2>1 DEF Same
<1> QED  BY <1>8, <1>11, <1>12, <1>13, <1>14, <1>15, <1>16 DEF Inv

LEMMA AddHeadStep ==
    ASSUME Serial, Types, NEW s, Inv(s), AddHead(T), NEW r, r = <<me.new>>
    PROVE  Types' /\ Inv(r)' /\ s = <<>>
<1>1. /\ me.at = "add_head" /\ Return(T) /\ cmdqueue' = me.new
      /\ UNCHANGED <<heap, allocated, requests, refused>>
  BY DEF AddHead, At, me
<1>2. call' \in [Tasks -> CallRec] /\ me' = Idle
  BY <1>1, ReturnMe
<1>3. me'.at = "idle" /\ me'.charged = FALSE
  BY <1>2, IdleMe
<1>4. s = <<>>
  BY <1>1 DEF Inv, PlaceInv
<1>5. /\ me.new \in Cells \ refused /\ heap[me.new].next = NULL
      /\ heap[me.new].data \in NewData(requests)
  BY <1>1 DEF Inv, NewInv, Enqueuing
<1>6. Types'
  BY <1>1, <1>2, <1>5 DEF Types, Ptr
<1>7. /\ r \in Seq(Cells) /\ Len(r) = 1 /\ r[1] = me.new /\ r # <<>>
  BY <1>5
<1>8. Linked(r)'
  <2>1. \A i, j \in 1 .. Len(r) : r[i] = r[j] => i = j
    BY <1>7
  <2>2. IsInjective(r)
    BY <1>7, <2>1, Positions
  <2> QED  BY <1>1, <1>3, <1>5, <1>7, <2>2 DEF Linked, IsList
<1>9. Range(s) = {}
  <2>1. s \in Seq(Cells) /\ Len(s) = 0 /\ 1 .. 0 = {}
    BY <1>4
  <2>2. \A x : x \in Range(s) <=> \E i \in 1 .. Len(s) : x = s[i]
    BY <2>1, Positions
  <2> QED  BY <2>1, <2>2
<1>10. allocated = refused \cup {me.new}
  BY <1>1, <1>9 DEF Inv, Accounted, Enqueuing
<1>11. Range(r) = {me.new}
  <2>1. \A x : x \in Range(r) <=> \E i \in 1 .. Len(r) : x = r[i]
    BY <1>7, Positions
  <2> QED  BY <1>7, <2>1
<1>12. Accounted(r)'
  BY <1>1, <1>3, <1>10, <1>11 DEF Accounted, Enqueuing
<1>13. Filled(r)'
  <2>1. \A i : Charge(i)' = 0
    BY <1>3 DEF Charge
  <2>2. /\ heap[me.new].data \in Data /\ heap[me.new].data.retries = MAX_CMD_RETRIES
        /\ heap[me.new].data.id = requests /\ requests \in Nat
    BY <1>5 DEF NewData, Types
  <2>3. heap[me.new].data.retries + 0 \in 1 .. MAX_CMD_RETRIES
    BY <2>2, CmdListAssumption
  <2>4. me.new \in allocated \ refused
    BY <1>5, <1>10
  <2> QED  BY <1>1, <1>3, <1>7, <2>1, <2>2, <2>3, <2>4 DEF Filled, Enqueuing
<1>14. NewInv(r)' /\ PlaceInv(r)'
  BY <1>2, <1>3 DEF NewInv, PlaceInv, Enqueuing, Retrying
<1> QED  BY <1>4, <1>6, <1>8, <1>12, <1>13, <1>14 DEF Inv

\* The same command is still pending: the new one is dropped.
LEMMA RefusedStep ==
    ASSUME Serial, Types, NEW s, Inv(s), AddEnd(T), Pending(T)
    PROVE  Types' /\ Inv(s)' /\ Same(s)
<1>1. /\ me.at = "add_end" /\ Return(T) /\ heap' = heap
      /\ refused' = refused \cup {me.new}
      /\ UNCHANGED <<cmdqueue, allocated, requests>>
  BY DEF AddEnd, At, me
<1>2. call' \in [Tasks -> CallRec] /\ me' = Idle
  BY <1>1, ReturnMe
<1>3. me'.at = "idle" /\ me'.charged = FALSE
  BY <1>2, IdleMe
<1>4. me.new \in Cells \ (refused \cup Range(s)) /\ me.charged = FALSE
  <2>1. me.charged \in BOOLEAN
    BY MeTyped
  <2> QED  BY <1>1, <2>1 DEF Inv, NewInv, Enqueuing
<1>5. Types'
  BY <1>1, <1>2, <1>4 DEF Types
<1>6. Linked(s)'
  BY <1>1, <1>3, SameHeap DEF Inv
<1>7. Filled(s)'
  <2>1. \A i : Charge(i) = 0 /\ Charge(i)' = 0
    BY <1>3, <1>4 DEF Charge
  <2>2. \A i \in 1 .. Len(s) : s[i] # me.new
    <3>1. \A x : x \in Range(s) <=> \E i \in 1 .. Len(s) : x = s[i]
      BY InvFacts
    <3> QED  BY <1>4, <3>1
  <2> QED  BY <1>1, <1>3, <2>1, <2>2 DEF Inv, Filled, Enqueuing
<1>8. Accounted(s)'
  BY <1>1, <1>3 DEF Inv, Accounted, Enqueuing
<1>9. NewInv(s)' /\ PlaceInv(s)'
  BY <1>2, <1>3 DEF NewInv, PlaceInv, Enqueuing, Retrying
<1>10. Same(s)
  BY <1>1, <1>3, <1>4 DEF Same
<1> QED  BY <1>10, <1>5, <1>6, <1>7, <1>8, <1>9 DEF Inv

\* A sequence of cells with one more.
OneMoreThan(r, s, c) ==
    /\ r \in Seq(Cells) /\ Len(r) = Len(s) + 1 /\ r # <<>> /\ r[Len(r)] = c
    /\ \A i \in 1 .. Len(s) : r[i] = s[i]
    /\ IsInjective(r) /\ Range(r) = Range(s) \cup {c}

LEMMA OneMore ==
    ASSUME NEW s \in Seq(Cells), NEW c \in Cells \ Range(s), IsInjective(s),
           NEW r, r = Append(s, c)
    PROVE  OneMoreThan(r, s, c)
<1>1. /\ r \in Seq(Cells) /\ Len(r) = Len(s) + 1 /\ r # <<>> /\ r[Len(r)] = c
      /\ \A i \in 1 .. Len(s) : r[i] = s[i] /\ Len(s) \in Nat
  OBVIOUS
<1>2. \A i : i \in 1 .. Len(r) <=> i \in 1 .. Len(s) \/ i = Len(r)
  BY <1>1
<1>3. /\ \A x : x \in Range(s) <=> \E i \in 1 .. Len(s) : x = s[i]
      /\ \A i, j \in 1 .. Len(s) : s[i] = s[j] => i = j
  BY Positions
<1>4. \A x : x \in Range(r) <=> \E i \in 1 .. Len(r) : x = r[i]
  BY <1>1, Positions
<1>5. Range(r) = Range(s) \cup {c}
  BY <1>1, <1>2, <1>3, <1>4
<1>6. \A i, j \in 1 .. Len(r) : r[i] = r[j] => i = j
  BY <1>1, <1>2, <1>3
<1>7. IsInjective(r)
  BY <1>1, <1>6, Positions
<1> QED  BY <1>1, <1>5, <1>7 DEF OneMoreThan

LEMMA AppendedStep ==
    ASSUME Serial, Types, NEW s, Inv(s), AddEnd(T), ~Pending(T),
           NEW r, r = Append(s, me.new)
    PROVE  Types' /\ Inv(r)' /\ \A x \in Cells : heap'[x].data = heap[x].data
<1>1. /\ me.at = "add_end" /\ Return(T) /\ SetNext(me.walk, me.new)
      /\ UNCHANGED <<cmdqueue, refused, allocated, requests>>
  BY DEF AddEnd, At, me
<1>2. call' \in [Tasks -> CallRec] /\ me' = Idle
  BY <1>1, ReturnMe
<1>3. me'.at = "idle" /\ me'.charged = FALSE
  BY <1>2, IdleMe
<1>4. /\ me.new \in Cells \ (refused \cup Range(s)) /\ me.charged = FALSE
      /\ heap[me.new].next = NULL /\ heap[me.new].data \in NewData(requests)
  <2>1. me.charged \in BOOLEAN
    BY MeTyped
  <2> QED  BY <1>1, <2>1 DEF Inv, NewInv, Enqueuing
<1>5. s # <<>> /\ me.walk = s[Len(s)]
  BY <1>1 DEF Inv, PlaceInv
<1>f. /\ s \in Seq(Cells) /\ Len(s) \in Nat /\ Len(s) >= 1
      /\ cmdqueue = s[1]
      /\ \A i \in 1 .. Len(s) : s[i] \in Cells
      /\ \A i, j \in 1 .. Len(s) : s[i] = s[j] => i = j
      /\ \A i \in 1 .. Len(s) - 1 : heap[s[i]].next = s[i + 1]
      /\ \A x : x \in Range(s) <=> \E i \in 1 .. Len(s) : x = s[i]
  BY <1>5, InvFacts
<1>6. /\ heap' \in [Cells -> [next : Ptr, data : Data \cup {NULL}]]
      /\ heap'[s[Len(s)]].next = me.new
      /\ \A x \in Cells : heap'[x].data = heap[x].data
      /\ \A x \in Cells : x # s[Len(s)] => heap'[x].next = heap[x].next
  <2>1. s[Len(s)] \in Cells /\ me.new \in Ptr
    BY <1>4, <1>f DEF Ptr
  <2> QED  BY <1>1, <1>5, <2>1, SetNextEffect
<1>7. Types'
  BY <1>1, <1>2, <1>6 DEF Types
<1>8. /\ r \in Seq(Cells) /\ Len(r) = Len(s) + 1 /\ r # <<>> /\ r[Len(r)] = me.new
      /\ \A i \in 1 .. Len(s) : r[i] = s[i]
      /\ IsInjective(r) /\ Range(r) = Range(s) \cup {me.new}
  <2>1. IsInjective(s)
    BY DEF Inv, Linked, IsList
  <2>2. me.new \in Cells \ Range(s)
    BY <1>4
  <2>3. s \in Seq(Cells)
    BY <1>f
  <2>4. PICK c : c = me.new
    OBVIOUS
  <2>5. c \in Cells \ Range(s) /\ r = Append(s, c)
    BY <2>2, <2>4
  <2>6. OneMoreThan(r, s, c)
    BY <2>1, <2>3, <2>5, OneMore, Zenon
  <2> QED  BY <2>4, <2>6 DEF OneMoreThan
<1>9. \A i \in 1 .. Len(s) - 1 : heap'[s[i]].next = s[i + 1]
  <2> SUFFICES ASSUME NEW i \in 1 .. Len(s) - 1 PROVE heap'[s[i]].next = s[i + 1]
    OBVIOUS
  <2>1. i \in 1 .. Len(s) /\ Len(s) \in 1 .. Len(s) /\ i # Len(s)
    BY <1>f
  <2>2. s[i] # s[Len(s)] /\ s[i] \in Cells
    BY <1>f, <2>1
  <2> QED  BY <1>6, <1>f, <2>2
<1>10. \A i \in 1 .. Len(r) - 1 : heap'[r[i]].next = r[i + 1]
  <2> SUFFICES ASSUME NEW i \in 1 .. Len(r) - 1 PROVE heap'[r[i]].next = r[i + 1]
    OBVIOUS
  <2>1. CASE i = Len(s)
    <3>1. i + 1 = Len(r) /\ i \in 1 .. Len(s)
      BY <1>8, <1>f, <2>1
    <3> QED  BY <1>6, <1>8, <2>1, <3>1
  <2>2. CASE i # Len(s)
    <3>1. i \in 1 .. Len(s) - 1 /\ i \in 1 .. Len(s) /\ i + 1 \in 1 .. Len(s)
      BY <1>8, <1>f, <2>2
    <3> QED  BY <1>8, <1>9, <3>1
  <2> QED  BY <2>1, <2>2
<1>11. heap'[me.new].next = NULL
  <2>1. s[Len(s)] \in Range(s)
    BY <1>f
  <2>2. me.new # s[Len(s)]
    BY <1>4, <2>1
  <2> QED  BY <1>4, <1>6, <2>2
<1>12. Linked(r)'
  <2>1. cmdqueue' = r[1]
    BY <1>1, <1>8, <1>f
  <2> QED  BY <1>3, <1>8, <1>10, <1>11, <2>1 DEF Linked, IsList
<1>13. allocated = Range(s) \cup refused \cup {me.new}
  BY <1>1 DEF Inv, Accounted, Enqueuing
<1>14. Filled(r)'
  <2>1. \A i : Charge(i) = 0 /\ Charge(i)' = 0
    BY <1>3, <1>4 DEF Charge
  <2>2. ASSUME NEW i \in 1 .. Len(s)
        PROVE  /\ r[i] \in allocated \ refused /\ heap'[r[i]].data \in Data
               /\ heap'[r[i]].data.retries + 0 \in 1 .. MAX_CMD_RETRIES
               /\ heap'[r[i]].data.id <= requests
    BY <1>6, <1>8, <1>f, <2>1 DEF Inv, Filled
  <2>3. /\ me.new \in allocated \ refused /\ heap'[me.new].data \in Data
        /\ heap'[me.new].data.retries + 0 \in 1 .. MAX_CMD_RETRIES
        /\ heap'[me.new].data.id <= requests
    <3>1. /\ heap'[me.new].data \in Data /\ heap'[me.new].data.retries = MAX_CMD_RETRIES
          /\ heap'[me.new].data.id = requests /\ requests \in Nat
      BY <1>4, <1>6 DEF NewData, Types
    <3>2. MAX_CMD_RETRIES + 0 \in 1 .. MAX_CMD_RETRIES
      BY CmdListAssumption
    <3> QED  BY <1>4, <1>13, <3>1, <3>2
  <2>4. \A i : i \in 1 .. Len(r) <=> i \in 1 .. Len(s) \/ i = Len(r)
    BY <1>8, <1>f
  <2> QED  BY <1>1, <1>3, <1>8, <2>1, <2>2, <2>3, <2>4 DEF Filled, Enqueuing
<1>15. Accounted(r)'
  BY <1>1, <1>3, <1>8, <1>13 DEF Accounted, Enqueuing
<1>16. NewInv(r)' /\ PlaceInv(r)'
  BY <1>2, <1>3 DEF NewInv, PlaceInv, Enqueuing, Retrying
<1> QED  BY <1>6, <1>7, <1>12, <1>14, <1>15, <1>16 DEF Inv

-----------------------------------------------------------------------------
(* command_complete() *)

\* --cmdqueue->retries changes one field of the head.
LEMMA ChargeEffect ==
    ASSUME Types, NEW c \in Cells, heap[c].data \in Data, heap[c].data.retries >= 1,
           heap' = [heap EXCEPT ![c].data.retries = @ - 1]
    PROVE  /\ heap' \in [Cells -> [next : Ptr, data : Data \cup {NULL}]]
           /\ \A x \in Cells : heap'[x].next = heap[x].next
           /\ \A x \in Cells : x # c => heap'[x].data = heap[x].data
           /\ heap'[c].data = [heap[c].data EXCEPT !.retries = @ - 1]
           /\ heap'[c].data \in Data
           /\ heap'[c].data.retries = heap[c].data.retries - 1
           /\ heap'[c].data.id = heap[c].data.id
<1>1. heap \in [Cells -> [next : Ptr, data : Data \cup {NULL}]]
  BY DEF Types
<1> DEFINE d == heap[c].data  e == [d EXCEPT !.retries = @ - 1]
           h == [heap[c] EXCEPT !.data = e]
<1>2. heap' = [heap EXCEPT ![c] = h]
  OBVIOUS
<1>3. d \in Data /\ d.retries \in Int /\ d.retries \in 0 .. MAX_CMD_RETRIES /\ d.retries >= 1
  BY DEF Data
<1>4. d.retries - 1 \in 0 .. MAX_CMD_RETRIES
  BY <1>3, CmdListAssumption
<1> HIDE DEF d
<1>5. e \in Data /\ e.retries = d.retries - 1 /\ e.id = d.id
  BY <1>3, <1>4 DEF Data
<1> HIDE DEF e
<1>6. /\ h \in [next : Ptr, data : Data \cup {NULL}] /\ h.next = heap[c].next /\ h.data = e
  BY <1>1, <1>5
<1> HIDE DEF h
<1>7. heap'[c] = h /\ \A x \in Cells : x # c => heap'[x] = heap[x]
  BY <1>1, <1>2
<1>8. heap' \in [Cells -> [next : Ptr, data : Data \cup {NULL}]]
  BY <1>1, <1>2, <1>6
<1>9. \A x \in Cells : heap'[x].next = heap[x].next
  BY <1>6, <1>7
<1>10. heap'[c].data = e
  BY <1>6, <1>7
<1> QED  BY <1>5, <1>7, <1>8, <1>9, <1>10 DEF d, e

OneRetryLess(d) == [d EXCEPT !.retries = @ - 1]

LEMMA FailedStep ==
    ASSUME Serial, Types, NEW s, Inv(s), Failed(T)
    PROVE  /\ Types' /\ Inv(s)' /\ Len(s) >= 1 /\ s[1] = cmdqueue
           /\ heap'[s[1]].data = OneRetryLess(heap[s[1]].data)
           /\ \A i \in 2 .. Len(s) : heap'[s[i]].data = heap[s[i]].data
           /\ ~me.charged
           /\ \/ me'.charged
              \/ ~me'.charged /\ Len(s) = 1 /\ heap[s[1]].data.retries > 1
<1>1. /\ me.at = "idle" /\ cmdqueue # NULL
      /\ heap' = [heap EXCEPT ![cmdqueue].data.retries = @ - 1]
      /\ call' = IF Exhausted(cmdqueue)
               THEN [call EXCEPT ![T].at = "delete", ![T].charged = TRUE]
               ELSE IF heap[cmdqueue].next = NULL THEN call
               ELSE [call EXCEPT ![T].at = "find_tail", ![T].walk = cmdqueue,
                                 ![T].charged = TRUE]
      /\ UNCHANGED <<cmdqueue, allocated, requests, refused>>
  BY DEF Failed, At, me
<1>f. /\ s \in Seq(Cells) /\ Len(s) \in Nat /\ Len(s) >= 1 /\ s # <<>>
      /\ cmdqueue = s[1]
      /\ \A i \in 1 .. Len(s) : s[i] \in Cells
      /\ \A i, j \in 1 .. Len(s) : s[i] = s[j] => i = j
      /\ \A i \in 1 .. Len(s) - 1 : heap[s[i]].next = s[i + 1]
      /\ heap[s[Len(s)]].next = NULL
  BY <1>1, InvFacts
<1>2. me = Idle /\ me.charged = FALSE
  BY <1>1, IdleMe DEF Inv, PlaceInv
<1>3. /\ s[1] \in Cells /\ heap[s[1]].data \in Data
      /\ heap[s[1]].data.retries \in 1 .. MAX_CMD_RETRIES
      /\ heap[s[1]].data.id <= requests
  <2>1. 1 \in 1 .. Len(s) /\ Charge(1) = 0
    BY <1>2, <1>f DEF Charge
  <2>2. /\ heap[s[1]].data \in Data /\ heap[s[1]].data.id <= requests
        /\ heap[s[1]].data.retries + 0 \in 1 .. MAX_CMD_RETRIES
    BY <2>1 DEF Inv, Filled
  <2>3. heap[s[1]].data.retries \in Int
    BY <2>2 DEF Data
  <2> QED  BY <1>f, <2>1, <2>2, <2>3
<1>4. /\ heap' \in [Cells -> [next : Ptr, data : Data \cup {NULL}]]
      /\ \A x \in Cells : heap'[x].next = heap[x].next
      /\ \A x \in Cells : x # s[1] => heap'[x].data = heap[x].data
      /\ heap'[s[1]].data = [heap[s[1]].data EXCEPT !.retries = @ - 1]
      /\ heap'[s[1]].data \in Data
      /\ heap'[s[1]].data.retries = heap[s[1]].data.retries - 1
      /\ heap'[s[1]].data.id = heap[s[1]].data.id
  <2>1. heap[s[1]].data.retries >= 1
    BY <1>3
  <2> QED  BY <1>1, <1>3, <1>f, <2>1, ChargeEffect
<1>5. \A i \in 2 .. Len(s) : heap'[s[i]].data = heap[s[i]].data
  <2> SUFFICES ASSUME NEW i \in 2 .. Len(s) PROVE heap'[s[i]].data = heap[s[i]].data
    OBVIOUS
  <2>1. i \in 1 .. Len(s) /\ 1 \in 1 .. Len(s) /\ i # 1
    BY <1>f
  <2>2. s[i] # s[1] /\ s[i] \in Cells
    BY <1>f, <2>1
  <2> QED  BY <1>4, <2>2
<1> DEFINE R == heap[s[1]].data.retries
<1>6. \/ /\ R = 1 /\ me'.at = "delete" /\ me'.charged = TRUE
         /\ call' \in [Tasks -> CallRec]
      \/ /\ R > 1 /\ Len(s) = 1 /\ me' = Idle /\ call' \in [Tasks -> CallRec]
      \/ /\ R > 1 /\ Len(s) >= 2 /\ me'.at = "find_tail" /\ me'.charged = TRUE
         /\ me'.walk = s[1] /\ call' \in [Tasks -> CallRec]
  <2>0. me \in CallRec /\ "delete" \in Labels /\ "find_tail" \in Labels /\ s[1] \in Ptr
    BY <1>3, MeTyped DEF Labels, Retrying, Ptr
  <2>1. CASE R <= 1
    <3> DEFINE m == [me EXCEPT !.at = "delete", !.charged = TRUE]
    <3>1. call' = [call EXCEPT ![T] = m]
      BY <1>1, <1>f, <2>1 DEF Exhausted, me
    <3>2. m \in CallRec /\ m.at = "delete" /\ m.charged = TRUE
      BY <2>0 DEF CallRec
    <3> HIDE DEF m
    <3>3. call' \in [Tasks -> CallRec] /\ me' = m
      BY <3>1, <3>2, NextMe
    <3>4. R = 1
      BY <1>3, <2>1
    <3> QED  BY <3>2, <3>3, <3>4
  <2>2. CASE R > 1 /\ heap[s[1]].next = NULL
    <3>1. call' = call
      BY <1>1, <1>3, <1>f, <2>2 DEF Exhausted
    <3>2. Len(s) = 1
      <4>1. ASSUME Len(s) > 1 PROVE FALSE
        <5>1. 1 \in 1 .. Len(s) - 1 /\ 1 + 1 \in 1 .. Len(s)
          BY <1>f, <4>1
        <5>2. heap[s[1]].next \in Cells
          BY <1>f, <5>1
        <5> QED  BY <2>2, <5>2, CmdListAssumption
      <4> DEFINE n == Len(s)
      <4>2. n \in Nat /\ n >= 1 /\ ~(n > 1)
        BY <1>f, <4>1
      <4> HIDE DEF n
      <4>3. n = 1
        BY <4>2
      <4> QED  BY <4>3 DEF n
    <3>3. me' = me /\ call \in [Tasks -> CallRec]
      BY <3>1 DEF me, Types
    <3> QED  BY <1>2, <2>2, <3>1, <3>2, <3>3
  <2>3. CASE R > 1 /\ heap[s[1]].next # NULL
    <3> DEFINE m == [me EXCEPT !.at = "find_tail", !.walk = s[1], !.charged = TRUE]
    <3>1. call' = [call EXCEPT ![T] = m]
      <4>1. ~Exhausted(cmdqueue) /\ heap[cmdqueue].next # NULL /\ cmdqueue = s[1]
        <5>1. R \in Int /\ cmdqueue = s[1]
          BY <1>3, <1>f
        <5> QED  BY <2>3, <5>1 DEF Exhausted
      <4>2. call' = [call EXCEPT ![T].at = "find_tail", ![T].walk = cmdqueue,
                                 ![T].charged = TRUE]
        BY <1>1, <4>1
      <4> QED  BY <4>1, <4>2 DEF me
    <3>2. m \in CallRec /\ m.at = "find_tail" /\ m.charged = TRUE /\ m.walk = s[1]
      BY <2>0 DEF CallRec
    <3> HIDE DEF m
    <3>3. call' \in [Tasks -> CallRec] /\ me' = m
      BY <3>1, <3>2, NextMe
    <3>4. Len(s) >= 2
      BY <1>f, <2>3
    <3> QED  BY <2>3, <3>2, <3>3, <3>4
  <2>4. R \in Int
    BY <1>3
  <2> HIDE DEF R
  <2>5. R <= 1 \/ R > 1
    BY <2>4
  <2> QED  BY <2>1, <2>2, <2>3, <2>5
<1>7. Types'
  BY <1>1, <1>4, <1>6 DEF Types
<1>8. me'.at \notin Enqueuing /\ me'.at \notin {"advance", "detach", "free"}
  BY <1>6, IdleMe DEF Enqueuing
<1>9. Linked(s)'
  <2>1. /\ \A i \in 1 .. Len(s) - 1 : heap'[s[i]].next = heap[s[i]].next
        /\ heap'[s[Len(s)]].next = heap[s[Len(s)]].next
    BY <1>4, <1>f
  <2> QED  BY <1>1, <1>8, <1>f, <2>1 DEF Inv, Linked, IsList
<1>10. heap'[s[1]].data.retries + Charge(1)' \in 1 .. MAX_CMD_RETRIES
  <2>1. me'.charged = TRUE => Charge(1)' = 1
    BY DEF Charge
  <2>2. me' = Idle => Charge(1)' = 0
    BY IdleMe DEF Charge
  <2>3. R \in 1 .. MAX_CMD_RETRIES /\ heap'[s[1]].data.retries = R - 1
    BY <1>3, <1>4
  <2> HIDE DEF R
  <2> QED  BY <1>6, <2>1, <2>2, <2>3, CmdListAssumption
<1>11. Filled(s)'
  <2> SUFFICES ASSUME NEW i \in 1 .. Len(s)
               PROVE  /\ s[i] \in allocated' \ refused' /\ heap'[s[i]].data \in Data
                      /\ heap'[s[i]].data.retries + Charge(i)' \in 1 .. MAX_CMD_RETRIES
                      /\ heap'[s[i]].data.id <= requests'
    BY <1>8 DEF Filled
  <2>1. s[i] \in allocated' \ refused'
    BY <1>1 DEF Inv, Filled
  <2>2. CASE i = 1
    BY <1>1, <1>3, <1>4, <1>10, <2>1, <2>2
  <2>3. CASE i # 1
    <3>1. i \in 2 .. Len(s) /\ Charge(i) = 0 /\ Charge(i)' = 0
      BY <1>f, <2>3 DEF Charge
    <3>2. heap'[s[i]].data = heap[s[i]].data
      BY <1>5, <3>1
    <3>3. /\ heap[s[i]].data \in Data
          /\ heap[s[i]].data.retries + 0 \in 1 .. MAX_CMD_RETRIES
          /\ heap[s[i]].data.id <= requests
      BY <3>1 DEF Inv, Filled
    <3> QED  BY <1>1, <2>1, <3>1, <3>2, <3>3
  <2> QED  BY <2>2, <2>3
<1>12. Accounted(s)'
  BY <1>1, <1>8 DEF Inv, Accounted, Enqueuing
<1>13. NewInv(s)'
  BY <1>8 DEF NewInv
<1>14. PlaceInv(s)'
  <2>1. CASE R = 1 /\ me'.at = "delete"
    BY <1>4, <1>f, <2>1 DEF PlaceInv, Retrying
  <2>2. CASE me' = Idle
    BY <2>2, IdleMe DEF PlaceInv, Retrying
  <2>3. CASE R > 1 /\ Len(s) >= 2 /\ me'.at = "find_tail" /\ me'.charged = TRUE /\ me'.walk = s[1]
    <3>1. heap'[s[1]].data.retries > 0
      BY <1>3, <1>4, <2>3
    <3>2. \E k \in 1 .. Len(s) : me'.walk = s[k]
      BY <1>f, <2>3
    <3> QED  BY <2>3, <3>1, <3>2 DEF PlaceInv, Retrying
  <2> QED  BY <1>6, <2>1, <2>2, <2>3
<1>15. \/ me'.charged
       \/ ~me'.charged /\ Len(s) = 1 /\ heap[s[1]].data.retries > 1
  BY <1>6, IdleMe
<1>16. heap'[s[1]].data = OneRetryLess(heap[s[1]].data)
  BY <1>4 DEF OneRetryLess
<1> QED
  BY <1>2, <1>5, <1>7, <1>9, <1>11, <1>12, <1>13, <1>14, <1>15, <1>16, <1>f DEF Inv

LEMMA StepMe ==
    ASSUME Serial, Types, NEW c \in Ptr, call' = [call EXCEPT ![T].walk = c]
    PROVE  /\ call' \in [Tasks -> CallRec] /\ me'.at = me.at /\ me'.new = me.new
           /\ me'.last = me.last /\ me'.walk = c /\ me'.charged = me.charged
<1> DEFINE r == [me EXCEPT !.walk = c]
<1>1. me \in CallRec
  BY MeTyped
<1>2. r \in CallRec
  BY <1>1 DEF CallRec
<1>3. call' = [call EXCEPT ![T] = r]
  BY DEF me
<1>4. /\ r.at = me.at /\ r.new = me.new /\ r.last = me.last /\ r.walk = c
      /\ r.charged = me.charged
  BY <1>1 DEF CallRec
<1> HIDE DEF r
<1>5. call' \in [Tasks -> CallRec] /\ me' = r
  BY <1>2, <1>3, NextMe
<1> QED  BY <1>4, <1>5

LEMMA FindTailStep ==
    ASSUME Serial, Types, NEW s, Inv(s), FindTail(T)
    PROVE  Types' /\ Inv(s)' /\ Same(s)
<1>1. /\ me.at = "find_tail"
      /\ call' = IF heap[me.walk].next # NULL
                 THEN [call EXCEPT ![T].walk = heap[me.walk].next]
                 ELSE [call EXCEPT ![T].at = "attach"]
      /\ UNCHANGED <<cmdqueue, heap, allocated, requests, refused>>
  BY DEF FindTail, At, me
<1>2. PICK k \in 1 .. Len(s) : me.walk = s[k]
  BY <1>1 DEF Inv, PlaceInv
<1>3. Len(s) >= 2 /\ me.charged /\ heap[s[1]].data.retries > 0
  BY <1>1 DEF Inv, PlaceInv, Retrying
<1>f. /\ s \in Seq(Cells) /\ Len(s) \in Nat
      /\ \A i \in 1 .. Len(s) : s[i] \in Cells
      /\ \A i \in 1 .. Len(s) - 1 : heap[s[i]].next = s[i + 1]
      /\ Len(s) >= 1 => heap[s[Len(s)]].next = NULL
  BY <1>1, InvFacts
<1>4. /\ call' \in [Tasks -> CallRec] /\ me'.at \in {"find_tail", "attach"}
      /\ me'.charged = me.charged
      /\ me'.at = "find_tail" => \E i \in 1 .. Len(s) : me'.walk = s[i]
      /\ me'.at = "attach" => me'.walk = s[Len(s)]
  <2>1. CASE k < Len(s)
    <3>1. k + 1 \in 1 .. Len(s) /\ k \in 1 .. Len(s) - 1
      BY <1>2, <1>f, <2>1
    <3>2. heap[me.walk].next = s[k + 1] /\ s[k + 1] \in Ptr /\ s[k + 1] # NULL
      BY <1>2, <1>f, <3>1, CmdListAssumption DEF Ptr
    <3>3. call' = [call EXCEPT ![T].walk = s[k + 1]]
      BY <1>1, <3>2
    <3>4. /\ call' \in [Tasks -> CallRec] /\ me'.at = me.at /\ me'.walk = s[k + 1]
          /\ me'.charged = me.charged
      BY <3>2, <3>3, StepMe
    <3> QED  BY <1>1, <3>1, <3>4
  <2>2. CASE k = Len(s)
    <3>1. heap[me.walk].next = NULL
      BY <1>2, <1>3, <1>f, <2>2
    <3>2. Goto(T, "attach")
      BY <1>1, <3>1 DEF Goto
    <3>3. /\ call' \in [Tasks -> CallRec] /\ me'.at = "attach" /\ me'.walk = me.walk
          /\ me'.charged = me.charged
      BY <3>2, GotoMe DEF Labels, Retrying
    <3> QED  BY <1>2, <2>2, <3>3
  <2> QED  BY <1>2, <1>f, <2>1, <2>2
<1>5. Types'
  BY <1>1, <1>4 DEF Types
<1>6. me'.at \notin Enqueuing /\ me'.at \notin {"advance", "detach", "free"}
  BY <1>4 DEF Enqueuing
<1>7. Linked(s)'
  BY <1>1, <1>6, SameHeap DEF Inv
<1>8. Filled(s)'
  BY <1>1, <1>4, <1>6, SameFilled DEF Inv
<1>9. Accounted(s)'
  BY <1>1, <1>6 DEF Inv, Accounted, Enqueuing
<1>10. NewInv(s)'
  BY <1>6 DEF NewInv
<1>11. PlaceInv(s)'
  BY <1>1, <1>3, <1>4 DEF PlaceInv, Retrying
<1>12. Same(s)
  BY <1>1, <1>4 DEF Same
<1> QED  BY <1>12, <1>5, <1>7, <1>8, <1>9, <1>10, <1>11 DEF Inv

\* A new pointer in the tail leaves the links between the cells.
LEMMA LinksKept ==
    ASSUME NEW s \in Seq(Cells), IsInjective(s),
           \A i \in 1 .. Len(s) - 1 : heap[s[i]].next = s[i + 1],
           \A x \in Cells : x # s[Len(s)] => heap'[x].next = heap[x].next
    PROVE  \A i \in 1 .. Len(s) - 1 : heap'[s[i]].next = s[i + 1]
<1> SUFFICES ASSUME NEW i \in 1 .. Len(s) - 1 PROVE heap'[s[i]].next = s[i + 1]
  OBVIOUS
<1>1. i \in 1 .. Len(s) /\ Len(s) \in 1 .. Len(s) /\ i # Len(s)
  OBVIOUS
<1>2. s[i] # s[Len(s)] /\ s[i] \in Cells
  BY <1>1, Positions
<1> QED  BY <1>2

LEMMA AttachHeadStep ==
    ASSUME Serial, Types, NEW s, Inv(s), AttachHead(T)
    PROVE  Types' /\ Inv(s)' /\ Same(s)
<1>1. /\ me.at = "attach" /\ Goto(T, "advance") /\ SetNext(me.walk, cmdqueue)
      /\ UNCHANGED <<cmdqueue, allocated, requests, refused>>
  BY DEF AttachHead, At, me
<1>2. /\ Len(s) >= 2 /\ me.charged /\ heap[s[1]].data.retries > 0
      /\ me.walk = s[Len(s)]
  BY <1>1 DEF Inv, PlaceInv, Retrying
<1>3. /\ call' \in [Tasks -> CallRec] /\ me'.at = "advance" /\ me'.walk = s[Len(s)]
      /\ me'.charged = me.charged
  BY <1>1, <1>2, GotoMe DEF Labels, Retrying
<1>f. /\ s \in Seq(Cells) /\ Len(s) \in Nat /\ s # <<>> /\ cmdqueue = s[1]
      /\ \A i \in 1 .. Len(s) : s[i] \in Cells
      /\ \A i \in 1 .. Len(s) - 1 : heap[s[i]].next = s[i + 1]
      /\ \A x : x \in Range(s) <=> \E i \in 1 .. Len(s) : x = s[i]
  <2>1. Len(s) \in Nat /\ Len(s) >= 1
    BY <1>2, InvFacts
  <2> QED  BY <2>1, InvFacts
<1>4. s[Len(s)] \in Cells /\ cmdqueue \in Ptr /\ s[1] \in Cells /\ s[1] \in Range(s)
  BY <1>2, <1>f DEF Ptr
<1>5. /\ heap' \in [Cells -> [next : Ptr, data : Data \cup {NULL}]]
      /\ heap'[s[Len(s)]].next = cmdqueue
      /\ \A x \in Cells : heap'[x].data = heap[x].data
      /\ \A x \in Cells : x # s[Len(s)] => heap'[x].next = heap[x].next
  BY <1>1, <1>2, <1>4, SetNextEffect
<1>6. Types'
  BY <1>1, <1>3, <1>5 DEF Types
<1>7. me'.at \notin Enqueuing /\ me.at \notin Enqueuing
  BY <1>1, <1>3 DEF Enqueuing
<1>8. Linked(s)'
  <2>1. IsInjective(s)
    BY DEF Inv, Linked, IsList
  <2>2. \A i \in 1 .. Len(s) - 1 : heap'[s[i]].next = s[i + 1]
    BY <1>5, <1>f, <2>1, LinksKept
  <2> QED  BY <1>1, <1>3, <1>4, <1>5, <1>f, <2>1, <2>2 DEF Linked, IsList
<1>9. Filled(s)'
  <2>1. \A i : Charge(i)' = Charge(i)
    BY <1>3 DEF Charge
  <2> QED  BY <1>1, <1>5, <1>7, <1>f, <2>1 DEF Inv, Filled
<1>10. Accounted(s)'
  BY <1>1, <1>3, <1>7 DEF Inv, Accounted
<1>11. NewInv(s)'
  BY <1>7 DEF NewInv
<1>12. PlaceInv(s)'
  BY <1>2, <1>3, <1>4, <1>5 DEF PlaceInv, Retrying
<1>13. Same(s)
  BY <1>3, <1>5, <1>f DEF Same
<1> QED  BY <1>13, <1>6, <1>8, <1>9, <1>10, <1>11, <1>12 DEF Inv

\* A sequence of cells with one less.
LEMMA OneLess ==
    ASSUME NEW s \in Seq(Cells), IsInjective(s), s # <<>>, NEW r, r = Tail(s)
    PROVE  /\ r \in Seq(Cells) /\ Len(r) = Len(s) - 1
           /\ \A i \in 1 .. Len(r) : r[i] = s[i + 1]
           /\ IsInjective(r) /\ s[1] \in Cells \ Range(r)
           /\ Range(s) = Range(r) \cup {s[1]}
<1>1. /\ r \in Seq(Cells) /\ Len(r) = Len(s) - 1 /\ Len(s) \in Nat /\ Len(s) >= 1
      /\ \A i \in 1 .. Len(r) : r[i] = s[i + 1]
  OBVIOUS
<1>2. /\ \A x : x \in Range(s) <=> \E i \in 1 .. Len(s) : x = s[i]
      /\ \A i, j \in 1 .. Len(s) : s[i] = s[j] => i = j
      /\ s[1] \in Cells
  BY <1>1, Positions
<1>3. \A x : x \in Range(r) <=> \E i \in 1 .. Len(r) : x = r[i]
  BY <1>1, Positions
<1>4. /\ \A i \in 1 .. Len(r) : i + 1 \in 1 .. Len(s) /\ i + 1 # 1
      /\ \A i \in 1 .. Len(s) : i = 1 \/ (i - 1 \in 1 .. Len(r) /\ (i - 1) + 1 = i)
      /\ 1 \in 1 .. Len(s)
  BY <1>1
<1>5. s[1] \notin Range(r)
  BY <1>1, <1>2, <1>3, <1>4
<1>6. Range(s) = Range(r) \cup {s[1]}
  <2>1. ASSUME NEW x \in Range(s) PROVE x \in Range(r) \/ x = s[1]
    <3>1. PICK i \in 1 .. Len(s) : x = s[i]
      BY <1>2
    <3>2. CASE i - 1 \in 1 .. Len(r) /\ (i - 1) + 1 = i
      <4>1. r[i - 1] = s[i]
        BY <1>1, <3>2
      <4> QED  BY <1>3, <3>1, <3>2, <4>1
    <3> QED  BY <1>4, <3>1, <3>2
  <2>2. ASSUME NEW x \in Range(r) PROVE x \in Range(s)
    BY <1>1, <1>2, <1>3, <1>4
  <2>3. s[1] \in Range(s)
    BY <1>2, <1>4
  <2> QED  BY <2>1, <2>2, <2>3
<1>7. \A i, j \in 1 .. Len(r) : r[i] = r[j] => i = j
  <2> SUFFICES ASSUME NEW i \in 1 .. Len(r), NEW j \in 1 .. Len(r), r[i] = r[j]
               PROVE i = j
    OBVIOUS
  <2>1. i + 1 = j + 1
    BY <1>1, <1>2, <1>4
  <2> QED  BY <1>1, <2>1
<1>8. IsInjective(r)
  BY <1>1, <1>7, Positions
<1> QED  BY <1>1, <1>2, <1>5, <1>6, <1>8

Rotated(s, r) == r = Append(Tail(s), s[1])

LEMMA AdvanceStep ==
    ASSUME Serial, Types, NEW s, Inv(s), Advance(T), NEW r, Rotated(s, r)
    PROVE  /\ Types' /\ Inv(r)' /\ heap' = heap /\ Len(s) >= 2 /\ Len(r) = Len(s)
           /\ me.charged /\ ~me'.charged /\ heap[s[1]].data.retries > 0
           /\ \A i \in 1 .. Len(s) - 1 : r[i] = s[i + 1]
           /\ r[Len(s)] = s[1]
<1>1. /\ me.at = "advance"
      /\ IF cmdqueue = NULL THEN Crash(T)
         ELSE /\ cmdqueue' = heap[cmdqueue].next
              /\ call' = [call EXCEPT ![T].at = "detach", ![T].charged = FALSE]
              /\ UNCHANGED heap
      /\ UNCHANGED <<allocated, requests, refused>>
  BY DEF Advance, At, me
<1>2. /\ Len(s) >= 2 /\ me.charged /\ heap[s[1]].data.retries > 0
      /\ me.walk = s[Len(s)]
  BY <1>1 DEF Inv, PlaceInv, Retrying
<1>f. /\ s \in Seq(Cells) /\ Len(s) \in Nat /\ s # <<>> /\ cmdqueue = s[1]
      /\ cmdqueue # NULL
      /\ \A i \in 1 .. Len(s) : s[i] \in Cells
      /\ \A i \in 1 .. Len(s) - 1 : heap[s[i]].next = s[i + 1]
      /\ heap[s[Len(s)]].next = cmdqueue
  <2>1. Len(s) \in Nat /\ Len(s) >= 1
    BY <1>2, InvFacts
  <2> QED  BY <1>1, <2>1, InvFacts
<1>3. /\ cmdqueue' = s[2] /\ heap' = heap
      /\ call' = [call EXCEPT ![T].at = "detach", ![T].charged = FALSE]
  <2>1. 1 \in 1 .. Len(s) - 1 /\ 1 + 1 = 2
    BY <1>2, <1>f
  <2>2. heap[s[1]].next = s[2]
    BY <1>f, <2>1
  <2> QED  BY <1>1, <1>f, <2>2
<1>4. call' \in [Tasks -> CallRec] /\ me'.at = "detach" /\ me'.charged = FALSE /\ me'.walk = me.walk
  <2> DEFINE m == [me EXCEPT !.at = "detach", !.charged = FALSE]
  <2>1. me \in CallRec /\ "detach" \in Labels
    BY MeTyped DEF Labels
  <2>2. m \in CallRec /\ m.at = "detach" /\ m.charged = FALSE /\ m.walk = me.walk
    BY <2>1 DEF CallRec
  <2>3. call' = [call EXCEPT ![T] = m]
    BY <1>3 DEF me
  <2> HIDE DEF m
  <2>4. call' \in [Tasks -> CallRec] /\ me' = m
    BY <2>2, <2>3, NextMe
  <2> QED  BY <2>2, <2>4
<1>5. /\ r \in Seq(Cells) /\ Len(r) = Len(s) /\ r # <<>>
      /\ \A i \in 1 .. Len(s) - 1 : r[i] = s[i + 1]
      /\ r[Len(s)] = s[1]
      /\ IsInjective(r) /\ Range(r) = Range(s)
  <2> DEFINE q == Tail(s)
  <2>1. IsInjective(s)
    BY DEF Inv, Linked, IsList
  <2>2. /\ q \in Seq(Cells) /\ Len(q) = Len(s) - 1
        /\ \A i \in 1 .. Len(q) : q[i] = s[i + 1]
        /\ IsInjective(q) /\ s[1] \in Cells \ Range(q)
        /\ Range(s) = Range(q) \cup {s[1]}
    BY <1>f, <2>1, OneLess
  <2>3. PICK c : c = s[1]
    OBVIOUS
  <2>4. c \in Cells \ Range(q) /\ r = Append(q, c)
    BY <2>2, <2>3 DEF Rotated
  <2> HIDE DEF q
  <2>5. /\ r \in Seq(Cells) /\ Len(r) = Len(q) + 1 /\ r # <<>> /\ r[Len(r)] = c
        /\ \A i \in 1 .. Len(q) : r[i] = q[i]
        /\ IsInjective(r) /\ Range(r) = Range(q) \cup {c}
    <3>1. q \in Seq(Cells) /\ IsInjective(q)
      BY <2>2
    <3>2. OneMoreThan(r, q, c)
      BY <2>4, <3>1, OneMore, Zenon
    <3> QED  BY <3>2 DEF OneMoreThan
  <2>6. Len(r) = Len(s) /\ Len(q) = Len(s) - 1
    BY <1>f, <2>2, <2>5
  <2> QED  BY <2>2, <2>3, <2>5, <2>6
<1>6. Types'
  <2>1. cmdqueue' \in Ptr
    BY <1>2, <1>3, <1>f DEF Ptr
  <2> QED  BY <1>1, <1>3, <1>4, <2>1 DEF Types
<1>7. me'.at \notin Enqueuing /\ me.at \notin Enqueuing
  BY <1>1, <1>4 DEF Enqueuing
<1>8. cmdqueue' = r[1]
  <2>1. 1 \in 1 .. Len(s) - 1 /\ 1 + 1 = 2
    BY <1>2, <1>f
  <2> QED  BY <1>3, <1>5, <2>1
<1>9. \A i \in 1 .. Len(r) - 1 : heap[r[i]].next = r[i + 1]
  <2> SUFFICES ASSUME NEW i \in 1 .. Len(s) - 1 PROVE heap[r[i]].next = r[i + 1]
    BY <1>5
  <2>1. CASE i = Len(s) - 1
    <3>1. i + 1 = Len(s)
      BY <1>f, <2>1
    <3> QED  BY <1>5, <1>f, <3>1
  <2>2. CASE i # Len(s) - 1
    <3>1. i + 1 \in 1 .. Len(s) - 1
      BY <1>f, <2>2
    <3> QED  BY <1>5, <1>f, <3>1
  <2> QED  BY <2>1, <2>2
<1>10. Linked(r)'
  <2>1. heap[r[Len(r)]].next = cmdqueue'
    <3>1. 1 \in 1 .. Len(s) - 1 /\ 1 + 1 = 2
      BY <1>2, <1>f
    <3> QED  BY <1>3, <1>5, <1>f, <3>1
  <2>2. cmdqueue' \in Range(r)
    <3>1. 1 \in 1 .. Len(r) /\ r \in Seq(Cells)
      BY <1>2, <1>5, <1>f
    <3> QED  BY <1>8, <3>1, Positions
  <2>3. IsList(r)'
    BY <1>3, <1>5, <1>8, <1>9, <2>1, <2>2 DEF IsList
  <2> QED  BY <1>3, <1>4, <1>5, <2>1, <2>3 DEF Linked
<1>11. Filled(r)'
  <2>1. \A i : Charge(i)' = 0
    BY <1>4 DEF Charge
  <2>2. \A i \in 2 .. Len(s) : Charge(i) = 0
    BY DEF Charge
  <2>3. ASSUME NEW i \in 1 .. Len(s) - 1
        PROVE  /\ r[i] \in allocated \ refused /\ heap[r[i]].data \in Data
               /\ heap[r[i]].data.retries + 0 \in 1 .. MAX_CMD_RETRIES
               /\ heap[r[i]].data.id <= requests
    <3>1. i + 1 \in 1 .. Len(s) /\ i + 1 \in 2 .. Len(s) /\ r[i] = s[i + 1]
      BY <1>5, <1>f
    <3> QED  BY <2>2, <3>1 DEF Inv, Filled
  <2>4. /\ s[1] \in allocated \ refused /\ heap[s[1]].data \in Data
        /\ heap[s[1]].data.retries + 0 \in 1 .. MAX_CMD_RETRIES
        /\ heap[s[1]].data.id <= requests
    <3>1. 1 \in 1 .. Len(s) /\ Charge(1) = 1
      BY <1>2, <1>f DEF Charge
    <3>2. /\ s[1] \in allocated \ refused /\ heap[s[1]].data \in Data
          /\ heap[s[1]].data.retries + 1 \in 1 .. MAX_CMD_RETRIES
          /\ heap[s[1]].data.id <= requests
      BY <3>1 DEF Inv, Filled
    <3>3. heap[s[1]].data.retries \in 0 .. MAX_CMD_RETRIES
      BY <3>2 DEF Data
    <3>4. heap[s[1]].data.retries + 0 \in 1 .. MAX_CMD_RETRIES
      BY <1>2, <3>3, CmdListAssumption
    <3> QED  BY <3>2, <3>4
  <2>5. \A i \in 1 .. Len(r) : i \in 1 .. Len(s) - 1 \/ i = Len(s)
    <3>1. Len(r) = Len(s) /\ Len(s) \in Nat
      BY <1>5, <1>f
    <3> QED  BY <3>1
  <2> QED  BY <1>1, <1>3, <1>5, <1>7, <2>1, <2>3, <2>4, <2>5 DEF Filled
<1>12. Accounted(r)'
  BY <1>1, <1>4, <1>5, <1>7 DEF Inv, Accounted
<1>13. NewInv(r)'
  BY <1>7 DEF NewInv
<1>14. PlaceInv(r)'
  <2>1. me'.walk = r[Len(r) - 1] /\ Len(r) >= 2
    <3>1. Len(s) - 1 \in 1 .. Len(s) - 1 /\ (Len(s) - 1) + 1 = Len(s)
      BY <1>2, <1>f
    <3> QED  BY <1>2, <1>4, <1>5, <3>1
  <2> QED  BY <1>4, <2>1 DEF PlaceInv, Retrying
<1> QED  BY <1>2, <1>3, <1>4, <1>5, <1>6, <1>10, <1>11, <1>12, <1>13, <1>14 DEF Inv

LEMMA DetachHeadStep ==
    ASSUME Serial, Types, NEW s, Inv(s), DetachHead(T)
    PROVE  Types' /\ Inv(s)' /\ Same(s)
<1>1. /\ me.at = "detach"
      /\ IF heap[me.walk].next = NULL THEN Crash(T)
         ELSE SetNext(heap[me.walk].next, NULL) /\ Return(T)
      /\ UNCHANGED <<cmdqueue, allocated, requests, refused>>
  BY DEF DetachHead, At, me
<1>2. Len(s) >= 2 /\ me.walk = s[Len(s) - 1] /\ ~me.charged
  BY <1>1 DEF Inv, PlaceInv
<1>f. /\ s \in Seq(Cells) /\ Len(s) \in Nat /\ s # <<>> /\ cmdqueue = s[1]
      /\ \A i \in 1 .. Len(s) : s[i] \in Cells
      /\ \A i \in 1 .. Len(s) - 1 : heap[s[i]].next = s[i + 1]
  <2>1. Len(s) \in Nat /\ Len(s) >= 1
    BY <1>2, InvFacts
  <2> QED  BY <2>1, InvFacts
<1>3. heap[me.walk].next = s[Len(s)] /\ s[Len(s)] \in Cells /\ s[Len(s)] # NULL
  <2>1. /\ Len(s) - 1 \in 1 .. Len(s) - 1 /\ (Len(s) - 1) + 1 = Len(s)
        /\ Len(s) \in 1 .. Len(s)
    BY <1>2, <1>f
  <2> QED  BY <1>2, <1>f, <2>1, CmdListAssumption
<1>4. SetNext(s[Len(s)], NULL) /\ Return(T)
  BY <1>1, <1>3
<1>5. call' \in [Tasks -> CallRec] /\ me' = Idle
  BY <1>4, ReturnMe
<1>6. /\ heap' \in [Cells -> [next : Ptr, data : Data \cup {NULL}]]
      /\ heap'[s[Len(s)]].next = NULL
      /\ \A x \in Cells : heap'[x].data = heap[x].data
      /\ \A x \in Cells : x # s[Len(s)] => heap'[x].next = heap[x].next
  <2>1. NULL \in Ptr
    BY DEF Ptr
  <2> QED  BY <1>3, <1>4, <2>1, SetNextEffect
<1>7. Types'
  BY <1>1, <1>5, <1>6 DEF Types
<1>8. me'.at = "idle" /\ me'.charged = FALSE
  BY <1>5, IdleMe
<1>9. Linked(s)'
  <2>1. IsInjective(s)
    BY DEF Inv, Linked, IsList
  <2>2. \A i \in 1 .. Len(s) - 1 : heap'[s[i]].next = s[i + 1]
    BY <1>6, <1>f, <2>1, LinksKept
  <2> QED  BY <1>1, <1>6, <1>8, <1>f, <2>1, <2>2 DEF Linked, IsList
<1>10. Filled(s)'
  <2>1. me.charged = FALSE
    <3>1. me.charged \in BOOLEAN
      BY MeTyped
    <3> QED  BY <1>2, <3>1
  <2>2. \A i : Charge(i)' = Charge(i)
    BY <1>8, <2>1 DEF Charge
  <2> QED  BY <1>1, <1>6, <1>8, <1>f, <2>2 DEF Inv, Filled, Enqueuing
<1>11. Accounted(s)'
  BY <1>1, <1>8 DEF Inv, Accounted, Enqueuing
<1>12. NewInv(s)' /\ PlaceInv(s)'
  BY <1>5, <1>8 DEF NewInv, PlaceInv, Enqueuing, Retrying
<1>13. Same(s)
  <2>1. me.charged = FALSE
    <3>1. me.charged \in BOOLEAN
      BY MeTyped
    <3> QED  BY <1>2, <3>1
  <2> QED  BY <1>6, <1>8, <1>f, <2>1 DEF Same
<1> QED  BY <1>13, <1>7, <1>9, <1>10, <1>11, <1>12 DEF Inv

LEMMA DeleteHeadStep ==
    ASSUME Serial, Types, NEW s, Inv(s), DeleteHead(T), NEW r, r = Tail(s)
    PROVE  /\ Types' /\ Inv(r)' /\ heap' = heap /\ s # <<>> /\ ~me'.charged
           /\ me.charged => heap[s[1]].data.retries = 0
<1>1. /\ me.at = "delete"
      /\ IF cmdqueue = NULL THEN Return(T) /\ UNCHANGED cmdqueue
         ELSE /\ cmdqueue' = heap[cmdqueue].next
              /\ call' = [call EXCEPT ![T].at = "free", ![T].walk = cmdqueue,
                                      ![T].charged = FALSE]
      /\ UNCHANGED <<heap, allocated, requests, refused>>
  BY DEF DeleteHead, At, me
<1>2. s # <<>> /\ (me.charged => heap[s[1]].data.retries = 0)
  BY <1>1 DEF Inv, PlaceInv
<1>f. /\ s \in Seq(Cells) /\ Len(s) \in Nat /\ Len(s) >= 1 /\ cmdqueue = s[1]
      /\ cmdqueue # NULL
      /\ \A i \in 1 .. Len(s) : s[i] \in Cells
      /\ \A i \in 1 .. Len(s) - 1 : heap[s[i]].next = s[i + 1]
      /\ heap[s[Len(s)]].next = NULL
  BY <1>1, <1>2, InvFacts
<1>3. /\ cmdqueue' = heap[s[1]].next
      /\ call' = [call EXCEPT ![T].at = "free", ![T].walk = s[1], ![T].charged = FALSE]
  BY <1>1, <1>f
<1>4. /\ r \in Seq(Cells) /\ Len(r) = Len(s) - 1
      /\ \A i \in 1 .. Len(r) : r[i] = s[i + 1]
      /\ IsInjective(r) /\ s[1] \in Cells \ Range(r)
      /\ Range(s) = Range(r) \cup {s[1]} /\ (r # <<>> <=> Len(r) >= 1)
  <2>1. IsInjective(s)
    BY DEF Inv, Linked, IsList
  <2> DEFINE q == Tail(s)
  <2>2. /\ q \in Seq(Cells) /\ Len(q) = Len(s) - 1
        /\ \A i \in 1 .. Len(q) : q[i] = s[i + 1]
        /\ IsInjective(q) /\ s[1] \in Cells \ Range(q)
        /\ Range(s) = Range(q) \cup {s[1]}
    BY <1>2, <1>f, <2>1, OneLess
  <2> HIDE DEF q
  <2>3. r = q
    BY DEF q
  <2>4. q # <<>> <=> Len(q) >= 1
    BY <2>2, Positions
  <2> QED  BY <2>2, <2>3, <2>4
<1>5. call' \in [Tasks -> CallRec] /\ me'.at = "free" /\ me'.charged = FALSE /\ me'.walk = s[1]
  <2> DEFINE m == [me EXCEPT !.at = "free", !.walk = s[1], !.charged = FALSE]
  <2>1. me \in CallRec /\ "free" \in Labels /\ s[1] \in Ptr
    BY <1>4, MeTyped DEF Labels, Ptr
  <2>2. m \in CallRec /\ m.at = "free" /\ m.charged = FALSE /\ m.walk = s[1]
    BY <2>1 DEF CallRec
  <2>3. call' = [call EXCEPT ![T] = m]
    BY <1>3 DEF me
  <2> HIDE DEF m
  <2>4. call' \in [Tasks -> CallRec] /\ me' = m
    BY <2>2, <2>3, NextMe
  <2> QED  BY <2>2, <2>4
<1>6. s[1] \in allocated \ refused
  <2>1. 1 \in 1 .. Len(s)
    BY <1>f
  <2> QED  BY <2>1 DEF Inv, Filled
<1>7. Types'
  <2>1. cmdqueue' \in Ptr
    BY <1>3, <1>4 DEF Types
  <2> QED  BY <1>1, <1>5, <2>1 DEF Types
<1>8. Linked(r)'
  <2>1. CASE Len(s) = 1
    <3>1. Len(r) = 0 /\ cmdqueue' = NULL
      BY <1>3, <1>4, <1>f, <2>1
    <3>2. r = <<>> /\ 1 .. Len(r) - 1 = {}
      BY <1>4, <3>1
    <3> QED  BY <1>4, <3>1, <3>2 DEF Linked, IsList
  <2>2. CASE Len(s) # 1
    <3>1. /\ 1 \in 1 .. Len(s) - 1 /\ 1 \in 1 .. Len(r) /\ 1 + 1 = 2
          /\ Len(r) \in 1 .. Len(r) /\ Len(r) + 1 = Len(s)
      BY <1>4, <1>f, <2>2
    <3>2. cmdqueue' = r[1]
      BY <1>3, <1>4, <1>f, <3>1
    <3>3. heap[r[Len(r)]].next = NULL
      BY <1>4, <1>f, <3>1
    <3>4. \A i \in 1 .. Len(r) - 1 : heap[r[i]].next = r[i + 1]
      <4> SUFFICES ASSUME NEW i \in 1 .. Len(r) - 1 PROVE heap[r[i]].next = r[i + 1]
        OBVIOUS
      <4>1. i + 1 \in 1 .. Len(s) - 1 /\ i \in 1 .. Len(r) /\ i + 1 \in 1 .. Len(r)
        <5>1. Len(r) = Len(s) - 1 /\ Len(s) \in Nat
          BY <1>4, <1>f
        <5> QED  BY <5>1
      <4> QED  BY <1>4, <1>f, <4>1
    <3>5. r # <<>>
      <4>1. Len(r) >= 1
        BY <1>4, <3>1
      <4> QED  BY <1>4, <4>1
    <3> QED  BY <1>1, <1>4, <1>5, <3>2, <3>3, <3>4, <3>5 DEF Linked, IsList
  <2> QED  BY <2>1, <2>2
<1>9. me'.at \notin Enqueuing /\ me.at \notin Enqueuing
  BY <1>1, <1>5 DEF Enqueuing
<1>10. Filled(r)'
  <2>1. \A i : Charge(i)' = 0
    BY <1>5 DEF Charge
  <2>2. \A i \in 2 .. Len(s) : Charge(i) = 0
    BY DEF Charge
  <2>3. ASSUME NEW i \in 1 .. Len(r)
        PROVE  /\ r[i] \in allocated \ refused /\ heap[r[i]].data \in Data
               /\ heap[r[i]].data.retries + 0 \in 1 .. MAX_CMD_RETRIES
               /\ heap[r[i]].data.id <= requests
    <3>1. i + 1 \in 1 .. Len(s) /\ i + 1 \in 2 .. Len(s) /\ r[i] = s[i + 1]
      BY <1>4, <1>f
    <3> QED  BY <2>2, <3>1 DEF Inv, Filled
  <2> QED  BY <1>1, <1>9, <2>1, <2>3 DEF Filled
<1>11. Accounted(r)'
  BY <1>1, <1>4, <1>5, <1>9 DEF Inv, Accounted
<1>12. NewInv(r)'
  BY <1>9 DEF NewInv
<1>13. PlaceInv(r)'
  BY <1>1, <1>4, <1>5, <1>6 DEF PlaceInv, Retrying
<1> QED  BY <1>1, <1>2, <1>5, <1>7, <1>8, <1>10, <1>11, <1>12, <1>13 DEF Inv

LEMMA FreeCellStep ==
    ASSUME Serial, Types, NEW s, Inv(s), FreeCell(T)
    PROVE  Types' /\ Inv(s)' /\ Same(s)
<1>1. /\ me.at = "free" /\ Return(T) /\ allocated' = allocated \ {me.walk}
      /\ UNCHANGED <<cmdqueue, heap, requests, refused>>
  BY DEF FreeCell, At, me
<1>2. me.walk \in Cells \ (refused \cup Range(s)) /\ me.charged = FALSE
  <2>1. me.charged \in BOOLEAN
    BY MeTyped
  <2> QED  BY <1>1, <2>1 DEF Inv, PlaceInv
<1>3. call' \in [Tasks -> CallRec] /\ me' = Idle /\ me'.at = "idle" /\ me'.charged = FALSE
  BY <1>1, ReturnMe, IdleMe
<1>4. Types'
  BY <1>1, <1>3 DEF Types
<1>5. Linked(s)'
  BY <1>1, <1>3, SameHeap DEF Inv
<1>6. Filled(s)'
  <2>1. \A i : Charge(i) = 0 /\ Charge(i)' = 0
    BY <1>2, <1>3 DEF Charge
  <2>2. \A i \in 1 .. Len(s) : s[i] # me.walk
    <3>1. \A x : x \in Range(s) <=> \E i \in 1 .. Len(s) : x = s[i]
      BY InvFacts
    <3> QED  BY <1>2, <3>1
  <2> QED  BY <1>1, <1>3, <2>1, <2>2 DEF Inv, Filled, Enqueuing
<1>7. Accounted(s)'
  BY <1>1, <1>2, <1>3 DEF Inv, Accounted, Enqueuing
<1>8. NewInv(s)' /\ PlaceInv(s)'
  BY <1>3 DEF NewInv, PlaceInv, Enqueuing, Retrying
<1>9. Same(s)
  BY <1>1, <1>2, <1>3 DEF Same
<1> QED  BY <1>9, <1>4, <1>5, <1>6, <1>7, <1>8 DEF Inv

-----------------------------------------------------------------------------
(* The queue the list stands for *)

Item(c, n) == [heap[c].data EXCEPT !.retries = @ + n]

Shown(s) == [i \in 1 .. Len(s) |-> Item(s[i], Charge(i))]

ShownIs(s) ==
    /\ Len(s) \in Nat /\ Shown(s) \in Seq(Data) /\ Len(Shown(s)) = Len(s)
    /\ \A i \in 1 .. Len(s) : /\ Shown(s)[i] = Item(s[i], Charge(i))
                              /\ Shown(s)[i].retries \in 1 .. MAX_CMD_RETRIES

LEMMA ChargedData ==
    ASSUME NEW d \in Data, NEW n \in {0, 1}, d.retries + n \in 1 .. MAX_CMD_RETRIES,
           NEW e, e = [d EXCEPT !.retries = @ + n]
    PROVE  /\ e \in Data /\ e.retries = d.retries + n /\ e.id = d.id
           /\ e.bleda = d.bleda /\ e.cmd = d.cmd /\ e.junk = d.junk
           /\ n = 0 => e = d
<1>1. d.retries \in Nat /\ d.retries + n \in 0 .. MAX_CMD_RETRIES
  BY CmdListAssumption DEF Data
<1>2. /\ e \in Data /\ e.retries = d.retries + n /\ e.id = d.id
      /\ e.bleda = d.bleda /\ e.cmd = d.cmd /\ e.junk = d.junk
  BY <1>1 DEF Data
<1>3. ASSUME n = 0 PROVE e = d
  <2>1. d.retries + n = d.retries
    BY <1>1, <1>3
  <2> QED  BY <2>1 DEF Data
<1> QED  BY <1>2, <1>3

LEMMA ShownFacts == \A s : Types /\ Inv(s) => ShownIs(s)
<1> SUFFICES ASSUME Types, NEW s, Inv(s) PROVE ShownIs(s)
  OBVIOUS
<1>1. Len(s) \in Nat
  BY InvFacts
<1>2. \A i \in 1 .. Len(s) :
         /\ heap[s[i]].data \in Data
         /\ heap[s[i]].data.retries + Charge(i) \in 1 .. MAX_CMD_RETRIES
  BY DEF Inv, Filled
<1>3. ASSUME NEW i \in 1 .. Len(s)
      PROVE  /\ Item(s[i], Charge(i)) \in Data
             /\ Item(s[i], Charge(i)).retries \in 1 .. MAX_CMD_RETRIES
  <2>1. PICK d, n, e : d = heap[s[i]].data /\ n = Charge(i) /\ e = Item(s[i], Charge(i))
    OBVIOUS
  <2>2. /\ d \in Data /\ n \in {0, 1} /\ d.retries + n \in 1 .. MAX_CMD_RETRIES
        /\ e = [d EXCEPT !.retries = @ + n]
    BY <1>2, <2>1 DEF Item, Charge
  <2>3. e \in Data /\ e.retries = d.retries + n
    BY <2>2, ChargedData
  <2> QED  BY <2>1, <2>2, <2>3
<1>4. /\ Shown(s) \in Seq(Data) /\ Len(Shown(s)) = Len(s)
      /\ \A i \in 1 .. Len(s) : Shown(s)[i] = Item(s[i], Charge(i))
  BY <1>1, <1>3 DEF Shown
<1> QED  BY <1>1, <1>3, <1>4 DEF ShownIs

LEMMA ShownFactsNext == (\A s : Types /\ Inv(s) => ShownIs(s))'
  BY ShownFacts, PTL

LEMMA SameShown ==
    ASSUME NEW s, Same(s) PROVE Shown(s)' = Shown(s)
<1>1. \A i : Charge(i)' = Charge(i)
  BY DEF Same, Charge
<1>2. \A i \in 1 .. Len(s) : Item(s[i], Charge(i))' = Item(s[i], Charge(i))
  BY <1>1 DEF Same, Item
<1> QED  BY <1>2 DEF Shown

\* What a step of the contract makes of the queue.
QueueStep(q, p) ==
    \/ p = q
    \/ \E new \in Contract!NewCommand :
          /\ \A i \in 1 .. Len(q) : q[i].id < new.id
          /\ p = Contract!enqueue_command(q, new)
    \/ p = Contract!QueueAfterSuccess(q)
    \/ p = Contract!QueueAfterFailure(q)

LEMMA NewIsNew ==
    ASSUME NEW d \in NewData(requests)
    PROVE  d \in Contract!NewCommand
  BY DEF NewData, Data, Contract!NewCommand

LEMMA AddHeadShown ==
    ASSUME Serial, Types, NEW s, Inv(s), AddHead(T), NEW r, r = <<me.new>>
    PROVE  QueueStep(Shown(s), Shown(r)')
<1>1. Types' /\ Inv(r)' /\ s = <<>> /\ me' = Idle /\ heap' = heap
  <2>1. Return(T) /\ heap' = heap
    BY DEF AddHead
  <2>2. me' = Idle
    BY <2>1, ReturnMe
  <2> QED  BY <2>1, <2>2, AddHeadStep
<1>2. me.new \in Cells /\ heap[me.new].data \in NewData(requests)
  BY DEF Inv, NewInv, AddHead, At, me, Enqueuing
<1> DEFINE d == heap[me.new].data
<1>3. d \in Data /\ d.retries + 0 \in 1 .. MAX_CMD_RETRIES /\ d \in Contract!NewCommand
  BY <1>2, NewIsNew, CmdListAssumption DEF NewData
<1>4. Len(r) = 1 /\ r[1] = me.new
  OBVIOUS
<1>5. Item(r[1], Charge(1))' = d
  <2>1. Charge(1)' = 0
    BY <1>1, IdleMe DEF Charge
  <2>2. PICK e : e = [d EXCEPT !.retries = @ + 0]
    OBVIOUS
  <2>3. e = d
    BY <1>3, <2>2, ChargedData
  <2> QED  BY <1>1, <1>4, <2>1, <2>2, <2>3 DEF Item
<1>6. Shown(s) = <<>>
  <2>1. ShownIs(s)
    BY ShownFacts
  <2>2. Shown(s) \in Seq(Data) /\ Len(Shown(s)) = 0
    BY <1>1, <2>1 DEF ShownIs
  <2> QED  BY <2>2
<1>7. Shown(r)' = <<d>>
  <2>1. ShownIs(r)'
    BY <1>1, ShownFactsNext
  <2>2. PICK p : p = Shown(r)'
    OBVIOUS
  <2>3. p \in Seq(Data) /\ Len(p) = 1 /\ p[1] = d
    BY <1>4, <1>5, <2>1, <2>2 DEF ShownIs
  <2> HIDE DEF d
  <2>4. p = <<d>>
    BY <2>3
  <2> QED  BY <2>2, <2>4
<1> HIDE DEF d
<1>8. Contract!enqueue_command(<<>>, d) = <<d>>
  BY DEF Contract!enqueue_command, Contract!lastCommandForDevice
<1> QED  BY <1>3, <1>6, <1>7, <1>8 DEF QueueStep

\* An entry of the queue, and the cell it is about.
LEMMA Entry ==
    ASSUME Types, NEW s, Inv(s), NEW i \in 1 .. Len(s)
    PROVE  /\ Shown(s)[i].bleda = heap[s[i]].data.bleda
           /\ Shown(s)[i].cmd = heap[s[i]].data.cmd
           /\ Shown(s)[i].junk = heap[s[i]].data.junk
           /\ Shown(s)[i].id = heap[s[i]].data.id
           /\ Shown(s)[i].retries = heap[s[i]].data.retries + Charge(i)
           /\ Charge(i) = 0 => Shown(s)[i] = heap[s[i]].data
<1>1. PICK d, n, e : d = heap[s[i]].data /\ n = Charge(i) /\ e = Shown(s)[i]
  OBVIOUS
<1>2. e = [d EXCEPT !.retries = @ + n]
  BY <1>1, ShownFacts DEF ShownIs, Item
<1>3. d \in Data /\ n \in {0, 1} /\ d.retries + n \in 1 .. MAX_CMD_RETRIES
  BY <1>1 DEF Inv, Filled, Charge
<1>4. /\ e.retries = d.retries + n /\ e.id = d.id
      /\ e.bleda = d.bleda /\ e.cmd = d.cmd /\ e.junk = d.junk
      /\ n = 0 => e = d
  BY <1>2, <1>3, ChargedData
<1> QED  BY <1>1, <1>4

LEMMA EntryNext == (\A s : Types /\ Inv(s) => \A i \in 1 .. Len(s) :
                      Charge(i) = 0 => Shown(s)[i] = heap[s[i]].data)'
<1>1. \A s : Types /\ Inv(s) => \A i \in 1 .. Len(s) :
                      Charge(i) = 0 => Shown(s)[i] = heap[s[i]].data
  BY Entry
<1> QED  BY <1>1, PTL

LEMMA UnchargedNext ==
    ASSUME NEW r, Types', Inv(r)', ~me'.charged
    PROVE  \A i \in 1 .. Len(r) : Shown(r)'[i] = heap'[r[i]].data
<1>1. \A i : Charge(i)' = 0
  BY DEF Charge
<1> QED  BY <1>1, EntryNext

\* enqueue_command() looks at the command lastCommandForDevice points to.
LEMMA NotPending ==
    ASSUME Types, NEW s, Inv(s), LastIs(s, Len(s)), ~Pending(T),
           NEW d, d = heap[me.new].data
    PROVE  Contract!enqueue_command(Shown(s), d) = Append(Shown(s), d)
<1> DEFINE q == Shown(s)
<1>1. /\ Len(q) = Len(s) /\ Len(s) \in Nat
      /\ \A i \in 1 .. Len(s) : s[i] \in Cells
  BY ShownFacts, InvFacts DEF ShownIs
<1>2. \A i \in 1 .. Len(s) : /\ q[i].bleda = heap[s[i]].data.bleda
                             /\ q[i].cmd = heap[s[i]].data.cmd
                             /\ q[i].junk = heap[s[i]].data.junk
  BY Entry
<1> HIDE DEF q
<1>3. ~\E i \in Contract!lastCommandForDevice(q, d.bleda) :
          q[i].cmd = d.cmd /\ q[i].junk = d.junk
  <2> SUFFICES ASSUME NEW i \in 1 .. Len(s), q[i].bleda = d.bleda,
                      \A j \in (i + 1) .. Len(s) : q[j].bleda # d.bleda,
                      q[i].cmd = d.cmd, q[i].junk = d.junk
               PROVE  FALSE
    BY <1>1 DEF Contract!lastCommandForDevice
  <2>1. SameValve(s[i], me.new) /\ SameCommand(s[i], me.new)
    BY <1>2 DEF SameValve, SameCommand
  <2>2. PICK k \in 1 .. Len(s) : /\ me.last = s[k] /\ SameValve(s[k], me.new)
                                 /\ \A j \in (k + 1) .. Len(s) : ~SameValve(s[j], me.new)
    BY <2>1 DEF LastIs
  <2>3. ~(k < i)
    <3>1. k < i => i \in (k + 1) .. Len(s)
      BY <1>1
    <3> QED  BY <2>1, <2>2, <3>1
  <2>4. ~(i < k)
    <3>1. i < k => k \in (i + 1) .. Len(s)
      BY <1>1
    <3>2. q[k].bleda = d.bleda
      BY <1>2, <2>2 DEF SameValve
    <3> QED  BY <3>1, <3>2
  <2>5. i = k
    BY <1>1, <2>3, <2>4
  <2>6. me.last = NULL \/ ~SameCommand(me.last, me.new)
    BY DEF Pending, me
  <2>7. me.last # NULL
    BY <1>1, <2>2, CmdListAssumption
  <2> QED  BY <2>1, <2>2, <2>5, <2>6, <2>7
<1> QED  BY <1>3 DEF Contract!enqueue_command, q

LEMMA AppendedShown ==
    ASSUME Serial, Types, NEW s, Inv(s), AddEnd(T), ~Pending(T),
           NEW r, r = Append(s, me.new)
    PROVE  QueueStep(Shown(s), Shown(r)')
<1>1. /\ Types' /\ Inv(r)' /\ \A x \in Cells : heap'[x].data = heap[x].data
  BY AppendedStep
<1>2. me' = Idle
  <2>1. Return(T)
    BY DEF AddEnd
  <2> QED  BY <2>1, ReturnMe
<1>3. /\ me.at = "add_end" /\ me.new \in Cells /\ me.charged = FALSE
      /\ heap[me.new].data \in NewData(requests) /\ LastIs(s, Len(s))
  <2>1. me.at = "add_end" /\ me.charged \in BOOLEAN
    BY MeTyped DEF AddEnd, At, me
  <2> QED  BY <2>1 DEF Inv, NewInv, PlaceInv, Enqueuing
<1>f. /\ s \in Seq(Cells) /\ Len(s) \in Nat
      /\ \A i \in 1 .. Len(s) : s[i] \in Cells
  BY InvFacts
<1>4. /\ Len(r) = Len(s) + 1 /\ r[Len(r)] = me.new
      /\ \A i \in 1 .. Len(s) : r[i] = s[i]
  BY <1>f, <1>3
<1>5. PICK d : d = heap[me.new].data
  OBVIOUS
<1>6. d \in Data /\ d \in Contract!NewCommand /\ d.id = requests
  BY <1>3, <1>5, NewIsNew DEF NewData
<1>7. PICK q, p : q = Shown(s) /\ p = Shown(r)'
  OBVIOUS
<1>8. q \in Seq(Data) /\ Len(q) = Len(s) /\ p \in Seq(Data) /\ Len(p) = Len(r)
  BY <1>1, <1>7, ShownFacts, ShownFactsNext DEF ShownIs
<1>9. \A i \in 1 .. Len(s) : q[i] = heap[s[i]].data /\ q[i].id < d.id
  <2>1. \A i : Charge(i) = 0
    BY <1>3 DEF Charge
  <2>2. \A i \in 1 .. Len(s) : heap[s[i]].data.id < requests
    BY <1>3 DEF Inv, Filled, Enqueuing
  <2> QED  BY <1>6, <1>7, <2>1, <2>2, Entry
<1>10. \A i \in 1 .. Len(r) : p[i] = heap'[r[i]].data
  <2>1. \A i : Charge(i)' = 0
    BY <1>2, IdleMe DEF Charge
  <2> QED  BY <1>1, <1>7, <2>1, EntryNext
<1>11. p = Append(q, d)
  <2>1. /\ Append(q, d) \in Seq(Data) /\ Len(Append(q, d)) = Len(q) + 1
        /\ Append(q, d)[Len(q) + 1] = d
        /\ \A i \in 1 .. Len(q) : Append(q, d)[i] = q[i]
    BY <1>6, <1>8
  <2>2. Len(p) = Len(q) + 1
    BY <1>4, <1>8
  <2>3. \A i \in 1 .. Len(s) : p[i] = q[i]
    <3>1. \A i \in 1 .. Len(s) : i \in 1 .. Len(r)
      BY <1>4, <1>f
    <3> QED  BY <1>1, <1>4, <1>9, <1>10, <1>f, <3>1
  <2>4. p[Len(s) + 1] = d
    <3>1. Len(r) \in 1 .. Len(r) /\ Len(r) = Len(s) + 1
      BY <1>4, <1>f
    <3> QED  BY <1>1, <1>3, <1>4, <1>5, <1>10, <3>1
  <2>5. PICK w : w = Append(q, d)
    OBVIOUS
  <2>6. /\ w \in Seq(Data) /\ Len(w) = Len(p)
        /\ \A i \in 1 .. Len(p) : p[i] = w[i]
    <3>1. \A i \in 1 .. Len(p) : i \in 1 .. Len(s) \/ i = Len(s) + 1
      <4>1. Len(p) = Len(s) + 1
        BY <1>8, <2>2
      <4> QED  BY <1>f, <4>1
    <3> QED  BY <1>8, <2>1, <2>2, <2>3, <2>4, <2>5, <3>1
  <2>7. p = w
    BY <1>8, <2>6, SeqEqual
  <2> QED  BY <2>5, <2>7
<1>12. Contract!enqueue_command(q, d) = Append(q, d)
  BY <1>3, <1>5, <1>7, NotPending
<1> QED  BY <1>6, <1>7, <1>8, <1>9, <1>11, <1>12 DEF QueueStep

\* What --retries takes away and the charge gives back.
LEMMA Recharged ==
    ASSUME NEW d \in Data, NEW e, NEW f
    PROVE  /\ e = [d EXCEPT !.retries = @ - 1] /\ f = [e EXCEPT !.retries = @ + 1]
                => f = d
           /\ e = [d EXCEPT !.retries = @ + 1] => d = [e EXCEPT !.retries = @ - 1]
<1>1. d.retries \in Int /\ (d.retries - 1) + 1 = d.retries /\ (d.retries + 1) - 1 = d.retries
  BY DEF Data
<1>2. ASSUME e = [d EXCEPT !.retries = @ - 1], f = [e EXCEPT !.retries = @ + 1]
      PROVE  f = d
  BY <1>1, <1>2 DEF Data
<1>3. ASSUME e = [d EXCEPT !.retries = @ + 1] PROVE d = [e EXCEPT !.retries = @ - 1]
  BY <1>1, <1>3 DEF Data
<1> QED  BY <1>2, <1>3

\* The failed head behind the others, with one retry less.
LEMMA FailureIs ==
    ASSUME NEW q \in Seq(Data), NEW p \in Seq(Data), Len(q) >= 1, q[1].retries > 1,
           Len(p) = Len(q), \A i \in 1 .. Len(q) - 1 : p[i] = q[i + 1],
           p[Len(q)] = [q[1] EXCEPT !.retries = @ - 1]
    PROVE  p = Contract!QueueAfterFailure(q)
<1> DEFINE e == [q[1] EXCEPT !.retries = @ - 1]
           w == Append(Tail(q), e)
<1>1. Len(q) \in Nat /\ q # <<>> /\ Head(q) = q[1] /\ 1 \in 1 .. Len(q) /\ q[1] \in Data
  OBVIOUS
<1>2. q[1].retries \in Int /\ ~(q[1].retries - 1 <= 0)
  BY <1>1 DEF Data
<1>3. e \in Data
  <2>1. q[1].retries - 1 \in 0 .. MAX_CMD_RETRIES
    BY <1>1, <1>2, CmdListAssumption DEF Data
  <2> QED  BY <1>1, <2>1 DEF Data
<1>4. Contract!QueueAfterFailure(q) = w
  BY <1>1, <1>2 DEF Contract!QueueAfterFailure
<1>5. p[Len(q)] = e
  OBVIOUS
<1> HIDE DEF e
<1>6. /\ w \in Seq(Data) /\ Len(w) = Len(q) /\ w[Len(q)] = e
      /\ \A i \in 1 .. Len(q) - 1 : w[i] = q[i + 1]
  <2>1. /\ Tail(q) \in Seq(Data) /\ Len(Tail(q)) = Len(q) - 1
        /\ \A i \in 1 .. Len(q) - 1 : Tail(q)[i] = q[i + 1]
    BY <1>1
  <2> QED  BY <1>1, <1>3, <2>1
<1> HIDE DEF w
<1>7. \A i \in 1 .. Len(p) : p[i] = w[i]
  <2>1. \A i \in 1 .. Len(p) : i \in 1 .. Len(q) - 1 \/ i = Len(q)
    BY <1>1
  <2> QED  BY <1>5, <1>6, <2>1
<1>8. p = w
  BY <1>6, <1>7, SeqEqual
<1> QED  BY <1>4, <1>8

LEMMA FailedShown ==
    ASSUME Serial, Types, NEW s, Inv(s), Failed(T)
    PROVE  QueueStep(Shown(s), Shown(s)')
<1>1. /\ Types' /\ Inv(s)' /\ Len(s) >= 1
      /\ heap'[s[1]].data = OneRetryLess(heap[s[1]].data)
      /\ \A i \in 2 .. Len(s) : heap'[s[i]].data = heap[s[i]].data
      /\ ~me.charged
      /\ \/ me'.charged
         \/ ~me'.charged /\ Len(s) = 1 /\ heap[s[1]].data.retries > 1
  BY FailedStep, ZenonT(60)
<1>2. PICK q, p, d : q = Shown(s) /\ p = Shown(s)' /\ d = heap[s[1]].data
  OBVIOUS
<1>3. /\ Len(s) \in Nat /\ q \in Seq(Data) /\ Len(q) = Len(s)
      /\ p \in Seq(Data) /\ Len(p) = Len(s)
      /\ \A i \in 1 .. Len(s) : p[i] = Item(s[i], Charge(i))'
  BY <1>1, <1>2, ShownFacts, ShownFactsNext DEF ShownIs
<1>4. \A i \in 1 .. Len(s) : q[i] = heap[s[i]].data /\ heap[s[i]].data \in Data
  <2>1. \A i : Charge(i) = 0
    BY <1>1 DEF Charge
  <2> QED  BY <1>2, <2>1, Entry DEF Inv, Filled
<1>5. 1 \in 1 .. Len(s) /\ q[1] = d /\ d \in Data
  BY <1>1, <1>2, <1>3, <1>4
<1>6. CASE me'.charged
  <2>1. Charge(1)' = 1 /\ \A i \in 2 .. Len(s) : Charge(i)' = 0
    BY <1>6 DEF Charge
  <2>2. p[1] = d
    <3>1. PICK e, f : /\ e = [d EXCEPT !.retries = @ - 1]
                      /\ f = [e EXCEPT !.retries = @ + 1]
      OBVIOUS
    <3>2. p[1] = f
      <4>1. heap'[s[1]].data = e
        BY <1>1, <1>2, <3>1 DEF OneRetryLess
      <4>2. p[1] = [heap'[s[1]].data EXCEPT !.retries = @ + 1]
        BY <1>3, <1>5, <2>1 DEF Item
      <4> QED  BY <3>1, <4>1, <4>2
    <3> QED  BY <1>5, <3>1, <3>2, Recharged
  <2>3. \A i \in 2 .. Len(s) : p[i] = q[i]
    <3> SUFFICES ASSUME NEW i \in 2 .. Len(s) PROVE p[i] = q[i]
      OBVIOUS
    <3>1. i \in 1 .. Len(s) /\ Charge(i)' = 0
      BY <1>3, <2>1
    <3>2. p[i] = heap'[s[i]].data
      BY <1>1, <1>2, <3>1, EntryNext
    <3> QED  BY <1>1, <1>4, <3>1, <3>2
  <2>4. \A i \in 1 .. Len(p) : p[i] = q[i]
    <3>1. \A i \in 1 .. Len(p) : i = 1 \/ i \in 2 .. Len(s)
      BY <1>3
    <3> QED  BY <1>5, <2>2, <2>3, <3>1
  <2>5. p = q
    BY <1>3, <2>4, SeqEqual
  <2> QED  BY <1>2, <2>5 DEF QueueStep
<1>7. CASE ~me'.charged /\ Len(s) = 1 /\ heap[s[1]].data.retries > 1
  <2>1. p[1] = [q[1] EXCEPT !.retries = @ - 1]
    <3>1. Charge(1)' = 0
      BY <1>7 DEF Charge
    <3>2. p[1] = heap'[s[1]].data
      BY <1>1, <1>2, <1>5, <3>1, EntryNext
    <3> QED  BY <1>1, <1>2, <1>5, <3>2 DEF OneRetryLess
  <2>2. Len(q) = 1 /\ q[1].retries > 1 /\ Len(p) = Len(q)
    BY <1>2, <1>3, <1>5, <1>7
  <2>3. p = Contract!QueueAfterFailure(q)
    <3>1. 1 .. Len(q) - 1 = {} /\ Len(q) >= 1 /\ p[Len(q)] = p[1]
      BY <2>2
    <3> QED  BY <1>3, <2>1, <2>2, <3>1, FailureIs
  <2> QED  BY <1>2, <2>3 DEF QueueStep
<1> QED  BY <1>1, <1>6, <1>7

LEMMA AdvanceShown ==
    ASSUME Serial, Types, NEW s, Inv(s), Advance(T), NEW r, Rotated(s, r)
    PROVE  QueueStep(Shown(s), Shown(r)')
<1>1. /\ Types' /\ Inv(r)' /\ heap' = heap /\ Len(s) >= 2 /\ Len(r) = Len(s)
      /\ me.charged /\ ~me'.charged /\ heap[s[1]].data.retries > 0
      /\ \A i \in 1 .. Len(s) - 1 : r[i] = s[i + 1]
      /\ r[Len(s)] = s[1]
  BY AdvanceStep
<1>2. PICK q, p, d : q = Shown(s) /\ p = Shown(r)' /\ d = heap[s[1]].data
  OBVIOUS
<1>3. /\ Len(s) \in Nat /\ q \in Seq(Data) /\ Len(q) = Len(s)
      /\ p \in Seq(Data) /\ Len(p) = Len(s)
  BY <1>1, <1>2, ShownFacts, ShownFactsNext DEF ShownIs
<1>4. \A i \in 1 .. Len(s) : p[i] = heap[r[i]].data
  <2>1. \A i \in 1 .. Len(r) : Shown(r)'[i] = heap'[r[i]].data
    BY <1>1, UnchargedNext, ZenonT(30)
  <2> QED  BY <1>1, <1>2, <2>1
<1>5. \A i \in 2 .. Len(s) : q[i] = heap[s[i]].data
  <2>1. \A i \in 2 .. Len(s) : Charge(i) = 0 /\ i \in 1 .. Len(s)
    BY <1>3 DEF Charge
  <2> QED  BY <1>2, <2>1, Entry
<1>6. 1 \in 1 .. Len(s) /\ Charge(1) = 1 /\ d \in Data
  <2>1. 1 \in 1 .. Len(s)
    BY <1>1, <1>3
  <2> QED  BY <1>1, <1>2, <2>1 DEF Charge, Inv, Filled
<1>7. q[1] = [d EXCEPT !.retries = @ + 1] /\ q[1].retries > 1
  <2>1. q[1] = [d EXCEPT !.retries = @ + 1]
    BY <1>2, <1>6, ShownFacts DEF ShownIs, Item
  <2>2. q[1].retries = d.retries + 1 /\ d.retries > 0 /\ d.retries \in Int
    BY <1>1, <1>2, <1>6, Entry DEF Data
  <2> QED  BY <2>1, <2>2
<1>8. p[Len(q)] = [q[1] EXCEPT !.retries = @ - 1]
  <2>1. p[Len(q)] = d
    <3>1. Len(s) \in 1 .. Len(s)
      BY <1>1, <1>3
    <3> QED  BY <1>1, <1>2, <1>3, <1>4, <3>1
  <2> QED  BY <1>6, <1>7, <2>1, Recharged
<1>9. \A i \in 1 .. Len(q) - 1 : p[i] = q[i + 1]
  <2> SUFFICES ASSUME NEW i \in 1 .. Len(s) - 1 PROVE p[i] = q[i + 1]
    BY <1>3
  <2>1. i \in 1 .. Len(s) /\ i + 1 \in 2 .. Len(s)
    BY <1>3
  <2> QED  BY <1>1, <1>4, <1>5, <2>1
<1>10. p = Contract!QueueAfterFailure(q)
  <2>1. Len(q) >= 1 /\ Len(p) = Len(q)
    BY <1>1, <1>3
  <2> QED  BY <1>3, <1>7, <1>8, <1>9, <2>1, FailureIs
<1> QED  BY <1>2, <1>10 DEF QueueStep

LEMMA DeleteHeadShown ==
    ASSUME Serial, Types, NEW s, Inv(s), DeleteHead(T), NEW r, r = Tail(s)
    PROVE  QueueStep(Shown(s), Shown(r)')
<1>1. /\ Types' /\ Inv(r)' /\ heap' = heap /\ s # <<>> /\ ~me'.charged
  BY DeleteHeadStep
<1>f. s \in Seq(Cells) /\ Len(s) \in Nat /\ Len(s) >= 1
  BY <1>1, InvFacts
<1>r. Len(r) = Len(s) - 1 /\ \A i \in 1 .. Len(s) - 1 : r[i] = s[i + 1]
  BY <1>1, <1>f
<1>2. PICK q, p : q = Shown(s) /\ p = Shown(r)'
  OBVIOUS
<1>3. /\ q \in Seq(Data) /\ Len(q) = Len(s) /\ q # <<>>
      /\ p \in Seq(Data) /\ Len(p) = Len(s) - 1
  <2>1. /\ q \in Seq(Data) /\ Len(q) = Len(s)
        /\ p \in Seq(Data) /\ Len(p) = Len(r)
    BY <1>1, <1>2, ShownFacts, ShownFactsNext DEF ShownIs
  <2>2. q # <<>>
    BY <1>f, <2>1
  <2> QED  BY <1>r, <2>1, <2>2
<1>4. \A i \in 1 .. Len(s) - 1 : p[i] = heap[r[i]].data
  <2>1. \A i \in 1 .. Len(r) : Shown(r)'[i] = heap'[r[i]].data
    BY <1>1, UnchargedNext, ZenonT(30)
  <2> QED  BY <1>1, <1>2, <1>r, <2>1
<1>5. \A i \in 2 .. Len(s) : q[i] = heap[s[i]].data
  <2>1. \A i \in 2 .. Len(s) : Charge(i) = 0 /\ i \in 1 .. Len(s)
    BY <1>f DEF Charge
  <2> QED  BY <1>2, <2>1, Entry
<1>6. PICK w : w = Tail(q)
  OBVIOUS
<1>7. /\ w \in Seq(Data) /\ Len(w) = Len(s) - 1
      /\ \A i \in 1 .. Len(s) - 1 : w[i] = q[i + 1]
  BY <1>3, <1>6
<1>8. \A i \in 1 .. Len(p) : p[i] = w[i]
  <2> SUFFICES ASSUME NEW i \in 1 .. Len(s) - 1 PROVE p[i] = w[i]
    BY <1>3
  <2>1. i + 1 \in 2 .. Len(s)
    BY <1>f
  <2> QED  BY <1>4, <1>5, <1>7, <1>r, <2>1
<1>9. p = w
  BY <1>3, <1>7, <1>8, SeqEqual
<1>10. Contract!QueueAfterSuccess(q) = w
  BY <1>3, <1>6 DEF Contract!QueueAfterSuccess
<1> QED  BY <1>2, <1>9, <1>10 DEF QueueStep

-----------------------------------------------------------------------------
(* Every step *)

LEMMA SameStep ==
    ASSUME NEW s, Same(s) PROVE QueueStep(Shown(s), Shown(s)')
  BY SameShown DEF QueueStep

LEMMA StepKept ==
    ASSUME Serial, Types, NEW s, Inv(s), [Next]_vars
    PROVE  \E r : Types' /\ Inv(r)' /\ QueueStep(Shown(s), Shown(r)')
<1> DEFINE Goal == \E r : Types' /\ Inv(r)' /\ QueueStep(Shown(s), Shown(r)')
<1>1. ASSUME Types', Inv(s)', Same(s) PROVE Goal
  BY <1>1, SameStep
<1>2. ASSUME UNCHANGED vars PROVE Goal
  <2>1. /\ cmdqueue' = cmdqueue /\ heap' = heap /\ allocated' = allocated
        /\ call' = call /\ requests' = requests /\ refused' = refused
    BY <1>2 DEF vars
  <2>2. Types' /\ Same(s)
    BY <2>1 DEF Types, Same, me
  <2>3. Linked(s)' /\ Accounted(s)'
    BY <2>1 DEF Inv, Linked, IsList, Accounted, me
  <2>4. Filled(s)'
    <3>1. me' = me
      BY <2>1 DEF me
    <3> QED  BY <2>1, <3>1, SameFilled DEF Inv
  <2>5. NewInv(s)'
    <3>1. me' = me
      BY <2>1 DEF me
    <3> QED  BY <2>1, <3>1, SameNew DEF Inv
  <2>6. PlaceInv(s)'
    BY <2>1 DEF Inv, PlaceInv, LastIs, SameValve, me
  <2>7. Inv(s)'
    BY <2>3, <2>4, <2>5, <2>6 DEF Inv
  <2> QED  BY <1>1, <2>2, <2>7
<1>3. ASSUME NewRequest(T) PROVE Goal
  BY <1>1, <1>3, NewRequestStep
<1>4. ASSUME Succeeded(T) PROVE Goal
  BY <1>1, <1>4, SucceededStep
<1>5. ASSUME Failed(T) PROVE Goal
  <2>1. Types' /\ Inv(s)'
    BY <1>5, FailedStep, ZenonT(30)
  <2>2. QueueStep(Shown(s), Shown(s)')
    BY <1>5, FailedShown
  <2> QED  BY <2>1, <2>2
<1>6. ASSUME TestEmpty(T) PROVE Goal
  BY <1>1, <1>6, TestEmptyStep
<1>7. ASSUME AddHead(T) PROVE Goal
  <2>1. PICK r : r = <<me.new>>
    OBVIOUS
  <2> QED  BY <1>7, <2>1, AddHeadStep, AddHeadShown, ZenonT(30)
<1>8. ASSUME Walk(T) PROVE Goal
  BY <1>1, <1>8, WalkStep
<1>9. ASSUME AddEnd(T) PROVE Goal
  <2>1. CASE Pending(T)
    BY <1>1, <1>9, <2>1, RefusedStep
  <2>2. CASE ~Pending(T)
    <3>1. PICK r : r = Append(s, me.new)
      OBVIOUS
    <3>2. Types' /\ Inv(r)'
      BY <1>9, <2>2, <3>1, AppendedStep, ZenonT(30)
    <3>3. QueueStep(Shown(s), Shown(r)')
      BY <1>9, <2>2, <3>1, AppendedShown, ZenonT(30)
    <3> QED  BY <3>2, <3>3, Zenon
  <2> QED  BY <2>1, <2>2
<1>10. ASSUME FindTail(T) PROVE Goal
  BY <1>1, <1>10, FindTailStep
<1>11. ASSUME AttachHead(T) PROVE Goal
  BY <1>1, <1>11, AttachHeadStep
<1>12. ASSUME Advance(T) PROVE Goal
  <2>1. PICK r : Rotated(s, r)
    BY DEF Rotated
  <2>2. Types' /\ Inv(r)'
    BY <1>12, <2>1, AdvanceStep, ZenonT(30)
  <2>3. QueueStep(Shown(s), Shown(r)')
    BY <1>12, <2>1, AdvanceShown, ZenonT(30)
  <2> QED  BY <2>2, <2>3, Zenon
<1>13. ASSUME DetachHead(T) PROVE Goal
  BY <1>1, <1>13, DetachHeadStep
<1>14. ASSUME DeleteHead(T) PROVE Goal
  <2>1. PICK r : r = Tail(s)
    OBVIOUS
  <2>2. Types' /\ Inv(r)'
    BY <1>14, <2>1, DeleteHeadStep, ZenonT(30)
  <2>3. QueueStep(Shown(s), Shown(r)')
    BY <1>14, <2>1, DeleteHeadShown, ZenonT(30)
  <2> QED  BY <2>2, <2>3, Zenon
<1>15. ASSUME FreeCell(T) PROVE Goal
  BY <1>1, <1>15, FreeCellStep
<1>16. Next => \/ NewRequest(T) \/ Succeeded(T) \/ Failed(T) \/ TestEmpty(T)
               \/ AddHead(T) \/ Walk(T) \/ AddEnd(T) \/ FindTail(T) \/ AttachHead(T)
               \/ Advance(T) \/ DetachHead(T) \/ DeleteHead(T) \/ FreeCell(T)
  BY Alone DEF Next, CallStep
<1> HIDE DEF Goal
<1>17. Goal
  BY <1>2, <1>3, <1>4, <1>5, <1>6, <1>7, <1>8, <1>9, <1>10, <1>11, <1>12, <1>13,
     <1>14, <1>15, <1>16
<1> QED  BY <1>17 DEF Goal

LEMMA InitKept ==
    ASSUME Serial, Init PROVE Types /\ Inv(<<>>) /\ Shown(<<>>) = <<>>
<1>1. /\ cmdqueue = NULL /\ allocated = {} /\ refused = {} /\ requests = 0
      /\ heap = [c \in Cells |-> [next |-> NULL, data |-> NULL]]
      /\ call = [t \in Tasks |-> Idle]
  BY DEF Init
<1>2. me = Idle
  BY <1>1, Alone DEF me
<1>3. Types
  BY <1>1, IdleMe, CmdListAssumption DEF Types, Ptr
<1>4. /\ <<>> \in Seq(Cells) /\ Len(<<>>) = 0 /\ 1 .. 0 = {} /\ 1 .. 0 - 1 = {}
      /\ Range(<<>>) = {} /\ IsInjective(<<>>)
  BY DEF Range, IsInjective
<1>5. Linked(<<>>) /\ Filled(<<>>)
  BY <1>1, <1>4 DEF Linked, IsList, Filled
<1>6. Accounted(<<>>) /\ NewInv(<<>>) /\ PlaceInv(<<>>)
  BY <1>1, <1>2, <1>4, IdleMe DEF Accounted, NewInv, PlaceInv, Enqueuing, Retrying
<1>7. Inv(<<>>)
  BY <1>5, <1>6 DEF Inv
<1>8. Shown(<<>>) = <<>>
  <2>1. ShownIs(<<>>)
    BY <1>3, <1>7, ShownFacts
  <2> QED  BY <1>4, <2>1 DEF ShownIs
<1> QED  BY <1>3, <1>7, <1>8

\* What satisfies the invariant is the list.
LEMMA Adopt ==
    ASSUME Types, NEW s, Inv(s) PROVE List = s /\ ListInv
<1>1. List = s
  BY ListIs DEF Inv, Linked
<1> QED  BY <1>1 DEF ListInv

LEMMA AdoptNext == (\A s : Types /\ Inv(s) => List = s /\ ListInv)'
<1>1. \A s : Types /\ Inv(s) => List = s /\ ListInv
  BY Adopt
<1> QED  BY <1>1, PTL

LEMMA QueueShown == Serial => \A s : Types /\ Inv(s) => queue = Shown(s)
<1> SUFFICES ASSUME Serial, Types, NEW s, Inv(s) PROVE queue = Shown(s)
  OBVIOUS
<1>1. List = s
  BY Adopt
<1>2. (\E t \in Tasks : call[t].charged) <=> me.charged
  BY Alone DEF me
<1>3. \A i \in 1 .. Len(s) : heap[s[i]].data \in Data
  BY DEF Inv, Filled
<1>4. ASSUME NEW i \in 1 .. Len(s)
      PROVE  [heap[s[i]].data EXCEPT !.retries =
                 IF i = 1 /\ \E t \in Tasks : call[t].charged THEN @ + 1 ELSE @]
             = Item(s[i], Charge(i))
  <2>1. CASE i = 1 /\ me.charged
    BY <1>2, <2>1 DEF Item, Charge
  <2>2. CASE ~(i = 1 /\ me.charged)
    <3>1. heap[s[i]].data.retries + 0 = heap[s[i]].data.retries
      BY <1>3 DEF Data
    <3> QED  BY <1>2, <2>2, <3>1 DEF Item, Charge
  <2> QED  BY <2>1, <2>2
<1> QED  BY <1>1, <1>4 DEF queue, Shown

LEMMA QueueShownNext == (Serial => \A s : Types /\ Inv(s) => queue = Shown(s))'
  BY QueueShown, PTL

-----------------------------------------------------------------------------
(* Theorems *)

LEMMA ListStep ==
    ASSUME Serial, ListInv, [Next]_vars
    PROVE  ListInv' /\ QueueStep(queue, queue')
<1>1. PICK s : s = List
  OBVIOUS
<1>2. Types /\ Inv(s)
  BY <1>1 DEF ListInv
<1>3. PICK r : Types' /\ Inv(r)' /\ QueueStep(Shown(s), Shown(r)')
  BY <1>2, StepKept
<1>4. ListInv'
  BY <1>3, AdoptNext
<1>5. queue = Shown(s)
  BY <1>2, QueueShown
<1>6. queue' = Shown(r)'
  BY <1>3, QueueShownNext
<1> QED  BY <1>3, <1>4, <1>5, <1>6

LEMMA ListInit ==
    ASSUME Serial, Init PROVE ListInv /\ queue = <<>>
<1>1. Types /\ Inv(<<>>) /\ Shown(<<>>) = <<>>
  BY InitKept
<1>2. PICK s : s = <<>>
  OBVIOUS
<1>3. Types /\ Inv(s) /\ Shown(s) = <<>>
  BY <1>1, <1>2
<1> QED  BY <1>3, Adopt, QueueShown

LEMMA ListInvAlways == ASSUME Serial PROVE Spec => []ListInv
<1>1. Init => ListInv
  BY ListInit
<1>2. ListInv /\ [Next]_vars => ListInv'
  BY ListStep
<1> QED  BY <1>1, <1>2, PTL DEF Spec

\* Calls that do not overlap make of the list what CmdQueueContract says:
\* the pointers REQUEUE_RETRY of command_complete() relinks are a rotation,
\* and enqueue_command() compares with the last command of the valve.
THEOREM ListKeepsContract == ASSUME Serial PROVE Spec => ImplementsQueue
<1>1. Init => Contract!Init
  BY ListInit DEF Contract!Init
<1>2. ListInv /\ [Next]_vars => [Contract!Next]_queue
  <2>1. ASSUME QueueStep(queue, queue') PROVE [Contract!Next]_queue
    BY <2>1 DEF QueueStep, Contract!Next, Contract!Enqueue, Contract!Succeed,
                Contract!Fail
  <2> QED  BY <2>1, ListStep
<1> QED
  BY <1>1, <1>2, ListInvAlways, PTL DEF Spec, ImplementsQueue, Contract!Spec

\* Between the calls every block of malloc() is in the list or belongs to a
\* command that was "still pending": none is lost, none outlives its command.
THEOREM ListLosesNothing == ASSUME Serial PROVE Spec => []NothingLost
<1>1. ListInv => NothingLost
  <2> SUFFICES ASSUME ListInv, \A t \in Tasks : call[t] = Idle
               PROVE  allocated = Range(List) \cup refused
    BY DEF NothingLost
  <2>1. me = Idle
    BY Alone DEF me
  <2>2. me.at \notin Enqueuing /\ me.at # "free"
    BY <2>1, IdleMe DEF Enqueuing
  <2> QED  BY <2>2 DEF ListInv, Inv, Accounted
<1> QED  BY <1>1, ListInvAlways, PTL

\* A step of the contract keeps the order of the commands of a valve.
LEMMA OrderStep ==
    ASSUME NEW q \in Seq(Data), NEW p, Contract!OrderKept(q), QueueStep(q, p),
           \A i \in 1 .. Len(q) : q[i].retries \in 1 .. MAX_CMD_RETRIES
    PROVE  Contract!OrderKept(p)
<1>o. \A i, j \in 1 .. Len(q) :
         i < j /\ q[i].bleda = q[j].bleda /\ q[j].id < q[i].id
             => q[j].retries < MAX_CMD_RETRIES
  BY DEF Contract!OrderKept
<1>q. /\ Len(q) \in Nat /\ (q # <<>> <=> Len(q) >= 1)
      /\ \A i \in 1 .. Len(q) : q[i] \in Data
  OBVIOUS
<1>1. CASE p = q
  BY <1>1
<1>2. ASSUME NEW new \in Contract!NewCommand, \A i \in 1 .. Len(q) : q[i].id < new.id,
             p = Append(q, new)
      PROVE  Contract!OrderKept(p)
  <2>1. new \in Data
    BY CmdListAssumption DEF Contract!NewCommand, Data
  <2>2. /\ Len(p) = Len(q) + 1 /\ p[Len(p)] = new
        /\ \A i \in 1 .. Len(q) : p[i] = q[i]
    BY <1>2, <2>1
  <2> SUFFICES ASSUME NEW i \in 1 .. Len(p), NEW j \in 1 .. Len(p), i < j,
                      p[i].bleda = p[j].bleda, p[j].id < p[i].id
               PROVE  p[j].retries < MAX_CMD_RETRIES
    BY DEF Contract!OrderKept
  <2>3. i \in 1 .. Len(q) /\ (j \in 1 .. Len(q) \/ j = Len(p))
    BY <1>q, <2>2
  <2>4. j # Len(p)
    <3>1. q[i].id < new.id /\ q[i].id \in Int /\ new.id \in Int
      BY <1>2, <1>q, <2>1, <2>3 DEF Data
    <3> QED  BY <2>2, <2>3, <3>1
  <2> QED  BY <1>o, <2>2, <2>3, <2>4
<1>3. ASSUME q # <<>>, p = Tail(q) PROVE Contract!OrderKept(p)
  <2>1. Len(p) = Len(q) - 1 /\ \A i \in 1 .. Len(p) : p[i] = q[i + 1]
    BY <1>3
  <2> SUFFICES ASSUME NEW i \in 1 .. Len(p), NEW j \in 1 .. Len(p), i < j,
                      p[i].bleda = p[j].bleda, p[j].id < p[i].id
               PROVE  p[j].retries < MAX_CMD_RETRIES
    BY DEF Contract!OrderKept
  <2>2. i + 1 \in 1 .. Len(q) /\ j + 1 \in 1 .. Len(q) /\ i + 1 < j + 1
    BY <1>q, <2>1
  <2> QED  BY <1>o, <2>1, <2>2
<1>4. ASSUME q # <<>>, p = Append(Tail(q), [q[1] EXCEPT !.retries = @ - 1])
      PROVE  Contract!OrderKept(p)
  <2> DEFINE e == [q[1] EXCEPT !.retries = @ - 1]
  <2>1. e \in Data /\ e.retries = q[1].retries - 1 /\ q[1].retries \in 1 .. MAX_CMD_RETRIES
    <3>1. q[1] \in Data /\ q[1].retries \in 1 .. MAX_CMD_RETRIES
      BY <1>4, <1>q
    <3>2. q[1].retries - 1 \in 0 .. MAX_CMD_RETRIES
      BY <3>1, CmdListAssumption
    <3> QED  BY <3>1, <3>2 DEF Data
  <2>2. e.retries < MAX_CMD_RETRIES
    BY <2>1, CmdListAssumption
  <2> HIDE DEF e
  <2>3. p = Append(Tail(q), e)
    BY <1>4 DEF e
  <2>4. /\ Len(p) = Len(q) /\ p[Len(p)] = e
        /\ \A i \in 1 .. Len(q) - 1 : p[i] = q[i + 1]
    BY <1>4, <1>q, <2>1, <2>3
  <2> SUFFICES ASSUME NEW i \in 1 .. Len(p), NEW j \in 1 .. Len(p), i < j,
                      p[i].bleda = p[j].bleda, p[j].id < p[i].id
               PROVE  p[j].retries < MAX_CMD_RETRIES
    BY DEF Contract!OrderKept
  <2>5. CASE j = Len(p)
    BY <2>2, <2>4, <2>5
  <2>6. CASE j # Len(p)
    <3>1. /\ i \in 1 .. Len(q) - 1 /\ j \in 1 .. Len(q) - 1
          /\ i + 1 \in 1 .. Len(q) /\ j + 1 \in 1 .. Len(q) /\ i + 1 < j + 1
      BY <1>q, <2>4, <2>6
    <3> QED  BY <1>o, <2>4, <3>1
  <2> QED  BY <2>5, <2>6
<1>5. CASE \E new \in Contract!NewCommand :
              /\ \A i \in 1 .. Len(q) : q[i].id < new.id
              /\ p = Contract!enqueue_command(q, new)
  BY <1>1, <1>2, <1>5 DEF Contract!enqueue_command
<1>6. CASE p = Contract!QueueAfterSuccess(q)
  BY <1>1, <1>3, <1>6 DEF Contract!QueueAfterSuccess
<1>7. CASE p = Contract!QueueAfterFailure(q)
  <2>1. q # <<>> => Head(q) = q[1]
    OBVIOUS
  <2> QED  BY <1>1, <1>3, <1>4, <1>7, <2>1 DEF Contract!QueueAfterFailure
<1> QED  BY <1>1, <1>5, <1>6, <1>7 DEF QueueStep

LEMMA QueueTyped ==
    ASSUME Serial, ListInv
    PROVE  queue \in Seq(Data) /\ \A i \in 1 .. Len(queue) : queue[i].retries \in 1 .. MAX_CMD_RETRIES
<1>1. PICK s : s = List
  OBVIOUS
<1>2. Types /\ Inv(s)
  BY <1>1 DEF ListInv
<1>3. queue = Shown(s) /\ ShownIs(s)
  BY <1>2, QueueShown, ShownFacts
<1> QED  BY <1>3 DEF ShownIs

\* Of two commands of a valve the older is behind the newer only after it has
\* failed: walking and relinking the pointers never changes the order.
THEOREM ListStaysInOrder == ASSUME Serial PROVE Spec => []ListInOrder
<1>1. Init => ListInOrder
  BY ListInit DEF ListInOrder, Contract!OrderKept
<1>2. ListInv /\ ListInOrder /\ [Next]_vars => ListInOrder'
  <2> SUFFICES ASSUME ListInv, ListInOrder, [Next]_vars PROVE ListInOrder'
    OBVIOUS
  <2>1. PICK q, p : q = queue /\ p = queue'
    OBVIOUS
  <2>2. /\ q \in Seq(Data) /\ QueueStep(q, p) /\ Contract!OrderKept(q)
        /\ \A i \in 1 .. Len(q) : q[i].retries \in 1 .. MAX_CMD_RETRIES
    BY <2>1, ListStep, QueueTyped DEF ListInOrder
  <2>3. Contract!OrderKept(p)
    BY <2>2, OrderStep
  <2> QED  BY <2>1, <2>3 DEF ListInOrder, Contract!OrderKept
<1> QED  BY <1>1, <1>2, ListInvAlways, PTL DEF Spec

\* Variables keep their types; every command in the list has a retry left.
THEOREM ListTypeCorrect == ASSUME Serial PROVE Spec => []TypeOK
<1>1. ListInv => TypeOK
  <2> SUFFICES ASSUME ListInv PROVE TypeOK
    OBVIOUS
  <2>1. CallRec \subseteq [at : Places, new : Ptr, last : Ptr, walk : Ptr, charged : BOOLEAN]
    <3>1. Labels \subseteq Places
      BY DEF Labels, Enqueuing, Retrying, Places
    <3> SUFFICES ASSUME NEW m \in CallRec
                 PROVE  m \in [at : Places, new : Ptr, last : Ptr, walk : Ptr, charged : BOOLEAN]
      OBVIOUS
    <3> QED  BY <3>1 DEF CallRec
  <2>2. call \in [Tasks -> [at : Places, new : Ptr, last : Ptr, walk : Ptr, charged : BOOLEAN]]
    BY <2>1 DEF ListInv, Types
  <2> QED  BY <2>2, QueueTyped DEF ListInv, Types, TypeOK
<1> QED  BY <1>1, ListInvAlways, PTL
=============================================================================
