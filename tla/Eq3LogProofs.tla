---------------------------- MODULE Eq3LogProofs ----------------------------
(***************************************************************************)
(* Theorems about Eq3Log, for any length of the array and any number of    *)
(* entries.                                                                *)
(***************************************************************************)
EXTENDS Eq3Log, TLAPS

N == NUM_LOG_ENTRIES

\* Place i of the array once n entries were added.
Entry(n, i) == IF i < n THEN n - i ELSE NULL

\* The places from here on already hold what they hold after this call of
\* eq3_add_log().
Moved == IF add.at = "shift" THEN add.i + 2 ELSE IF add.at = "store" THEN 1 ELSE 0

AddFacts ==
    /\ N \in Nat /\ N >= 2 /\ NULL \notin Nat
    /\ adds \in Nat /\ adds <= MaxAdds
    /\ add \in [at : {"idle", "shift", "store"}, i : Nat]
    /\ add.at # "idle" => adds >= 1
    /\ add.at = "shift" => add.i <= N - 2
    /\ add.at = "store" => add.i = 0
    /\ add.at = "idle" => add.i = 0

\* The array in the middle of a call: its places are moved from the last one
\* down, and the page can read it between any two of them.
ArrayInv ==
    /\ AddFacts
    /\ log_entries = [i \in Slots |-> log_entries[i]]
    /\ \A i \in Slots : log_entries[i] = Entry(IF i < Moved THEN adds - 1 ELSE adds, i)
    /\ alive = {e \in 1 .. adds : e + N > adds}

LEMMA SlotFacts == ASSUME AddFacts PROVE \A i : i \in Slots <=> i \in Nat /\ i <= N - 1
  BY DEF AddFacts, Slots, N

\* What a place of the array can hold.
LEMMA PlaceFacts ==
    ASSUME ArrayInv, NEW i \in Slots
    PROVE  /\ i \in Nat /\ i <= N - 1
           /\ log_entries[i] # NULL =>
                /\ log_entries[i] \in Nat /\ log_entries[i] >= 1 /\ log_entries[i] <= adds
                /\ i >= Moved => log_entries[i] = adds - i
                /\ i < Moved => log_entries[i] = adds - 1 - i
           /\ log_entries[i] = NULL <=> IF i < Moved THEN i >= adds - 1 ELSE i >= adds
  <1>1. i \in Nat /\ i <= N - 1 /\ adds \in Nat /\ Moved \in Nat /\ NULL \notin Nat
    BY SlotFacts DEF ArrayInv, AddFacts, Moved
  <1>2. log_entries[i] = Entry(IF i < Moved THEN adds - 1 ELSE adds, i)
    BY DEF ArrayInv
  <1>3. CASE i < Moved
    <2>1. add.at # "idle" /\ adds >= 1
      BY <1>1, <1>3 DEF ArrayInv, AddFacts, Moved
    <2>2. log_entries[i] = IF i < adds - 1 THEN adds - 1 - i ELSE NULL
      BY <1>2, <1>3 DEF Entry
    <2> QED BY <1>1, <1>3, <2>1, <2>2
  <1>4. CASE ~(i < Moved)
    <2>1. log_entries[i] = IF i < adds THEN adds - i ELSE NULL
      BY <1>2, <1>4 DEF Entry
    <2> QED BY <1>1, <1>4, <2>1
  <1> QED BY <1>3, <1>4

\* The steps of the three actions of eq3_add_log().
LEMMA AddLogEffect ==
    ASSUME ArrayInv, AddLog
    PROVE  /\ add.at = "idle" /\ adds' = adds + 1 /\ adds' <= MaxAdds
           /\ alive' = (alive \ {log_entries[N - 1]}) \cup {adds + 1}
           /\ add' = [at |-> "shift", i |-> N - 2] /\ UNCHANGED log_entries
           /\ Moved' = N /\ Moved = 0 /\ AddFacts'
  <1>1. /\ add.at = "idle" /\ adds' = adds + 1 /\ adds < MaxAdds
        /\ alive' = (alive \ {log_entries[N - 1]}) \cup {adds + 1}
        /\ add' = [at |-> "shift", i |-> N - 2] /\ UNCHANGED log_entries
    BY DEF AddLog, N
  <1>2. adds \in Nat /\ MaxAdds \in Nat /\ N \in Nat /\ N >= 2 /\ NULL \notin Nat
    BY LogAssumption DEF ArrayInv, AddFacts
  <1>3. adds' \in Nat /\ adds' >= 1 /\ adds' <= MaxAdds /\ N - 2 \in Nat
    BY <1>1, <1>2
  <1>4. add'.at = "shift" /\ add'.i = N - 2
    BY <1>1
  <1>5. Moved' = N /\ Moved = 0
    BY <1>1, <1>2, <1>4 DEF Moved
  <1>6. add' \in [at : {"idle", "shift", "store"}, i : Nat]
    BY <1>1, <1>3
  <1>7. AddFacts'
    BY <1>2, <1>3, <1>4, <1>6 DEF AddFacts, N
  <1> QED BY <1>1, <1>3, <1>5, <1>7

LEMMA ShiftEffect ==
    ASSUME ArrayInv, Shift
    PROVE  /\ add.at = "shift" /\ add.i \in Nat /\ add.i <= N - 2
           /\ add.i \in Slots /\ add.i + 1 \in Slots
           /\ log_entries' = [log_entries EXCEPT ![add.i + 1] = log_entries[add.i]]
           /\ UNCHANGED <<alive, page, adds>>
           /\ Moved = add.i + 2 /\ Moved' = add.i + 1 /\ AddFacts' /\ adds >= 1
           /\ add'.at # "idle"
  <1>1. /\ add.at = "shift"
        /\ log_entries' = [log_entries EXCEPT ![add.i + 1] = log_entries[add.i]]
        /\ UNCHANGED <<alive, page, adds>>
    BY DEF Shift
  <1>2. /\ add.i \in Nat /\ add.i <= N - 2 /\ adds >= 1 /\ adds \in Nat /\ adds <= MaxAdds
        /\ N \in Nat /\ N >= 2 /\ NULL \notin Nat
    BY <1>1 DEF ArrayInv, AddFacts
  <1>3. add.i \in Slots /\ add.i + 1 \in Slots
    BY <1>2 DEF Slots, N
  <1>4. CASE add.i = 0
    <2>1. add' = [add EXCEPT !.at = "store"]
      BY <1>4 DEF Shift
    <2>2. add'.at = "store" /\ add'.i = 0 /\ add' \in [at : {"idle", "shift", "store"}, i : Nat]
      BY <1>4, <2>1 DEF ArrayInv, AddFacts
    <2>3. Moved' = add.i + 1 /\ Moved = add.i + 2
      BY <1>1, <1>4, <2>2 DEF Moved
    <2>4. AddFacts'
      BY <1>1, <1>2, <2>2 DEF AddFacts, N
    <2> QED BY <1>1, <1>2, <1>3, <2>2, <2>3, <2>4
  <1>5. CASE add.i # 0
    <2>1. add' = [add EXCEPT !.i = @ - 1]
      BY <1>5 DEF Shift
    <2>2. add.i - 1 \in Nat
      BY <1>2, <1>5
    <2>3. /\ add'.at = "shift" /\ add'.i = add.i - 1
          /\ add' \in [at : {"idle", "shift", "store"}, i : Nat]
      BY <1>1, <2>1, <2>2 DEF ArrayInv, AddFacts
    <2>4. Moved' = add.i + 1 /\ Moved = add.i + 2
      BY <1>1, <1>2, <2>3 DEF Moved
    <2>5. AddFacts'
      BY <1>1, <1>2, <2>3 DEF AddFacts, N
    <2> QED BY <1>1, <1>2, <1>3, <2>3, <2>4, <2>5
  <1> QED BY <1>4, <1>5

LEMMA StoreEffect ==
    ASSUME ArrayInv, Store
    PROVE  /\ add.at = "store" /\ 0 \in Slots
           /\ log_entries' = [log_entries EXCEPT ![0] = adds]
           /\ UNCHANGED <<alive, page, adds>>
           /\ Moved = 1 /\ Moved' = 0 /\ AddFacts' /\ adds >= 1
  <1>1. /\ add.at = "store" /\ log_entries' = [log_entries EXCEPT ![0] = adds]
        /\ UNCHANGED <<alive, page, adds>> /\ add' = [at |-> "idle", i |-> 0]
    BY DEF Store, NotAdding
  <1>2. /\ adds >= 1 /\ adds \in Nat /\ adds <= MaxAdds
        /\ N \in Nat /\ N >= 2 /\ NULL \notin Nat
    BY <1>1 DEF ArrayInv, AddFacts
  <1>3. 0 \in Slots
    BY <1>2 DEF Slots, N
  <1>4. add'.at = "idle" /\ add'.i = 0 /\ add' \in [at : {"idle", "shift", "store"}, i : Nat]
    BY <1>1
  <1>5. Moved = 1 /\ Moved' = 0
    BY <1>1, <1>4 DEF Moved
  <1>6. AddFacts'
    BY <1>1, <1>2, <1>4 DEF AddFacts, N
  <1> QED BY <1>1, <1>2, <1>3, <1>5, <1>6

PageStep ==
    \/ ServeLog \/ Count \/ (\E p \in Pointers : Load(p)) \/ Copy
    \/ Reload \/ Advance \/ Send \/ Sent

LEMMA PageLeaves ==
    ASSUME PageStep \/ UNCHANGED vars
    PROVE  UNCHANGED <<log_entries, alive, add, adds>>
  BY DEF PageStep, ServeLog, Count, Load, Copy, Reload, Advance, Send, Sent, vars, addVars

LEMMA ArrayIsFcn == ASSUME ArrayInv PROVE DOMAIN log_entries = Slots
  BY DEF ArrayInv

LEMMA ArrayStep == ASSUME ArrayInv, [Next]_vars PROVE ArrayInv'
  <1>1. /\ N \in Nat /\ N >= 2 /\ adds \in Nat /\ NULL \notin Nat
        /\ \A i : i \in Slots <=> i \in Nat /\ i <= N - 1
    BY SlotFacts DEF ArrayInv, AddFacts
  <1>2. DOMAIN log_entries = Slots
    BY ArrayIsFcn
  <1>3. CASE AddLog
    <2>1. /\ adds' = adds + 1 /\ Moved' = N /\ Moved = 0 /\ AddFacts' /\ UNCHANGED log_entries
          /\ alive' = (alive \ {log_entries[N - 1]}) \cup {adds + 1}
      BY <1>3, AddLogEffect
    <2>2. ASSUME NEW i \in Slots
          PROVE  log_entries'[i] = Entry(IF i < Moved' THEN adds' - 1 ELSE adds', i)
      <3>1. log_entries[i] = Entry(adds, i)
        <4>1. ~(i < 0)
          BY <1>1
        <4> QED BY <2>1, <4>1 DEF ArrayInv
      <3>2. i < Moved' /\ adds' - 1 = adds
        BY <1>1, <2>1
      <3> QED BY <2>1, <3>1, <3>2
    <2>3. alive' = {e \in 1 .. adds' : e + N > adds'}
      <3>1. N - 1 \in Slots /\ N - 1 >= Moved
        BY <1>1, <2>1
      <3>2. \/ log_entries[N - 1] = NULL /\ N - 1 >= adds
            \/ log_entries[N - 1] = adds - (N - 1) /\ N - 1 < adds
        BY <1>1, <2>1, <3>1, PlaceFacts
      <3>3. \A e : e \in alive <=> e \in Nat /\ e >= 1 /\ e <= adds /\ e + N > adds
        BY <1>1 DEF ArrayInv
      <3>4. ASSUME NEW e
            PROVE  e \in alive' <=> e \in Nat /\ e >= 1 /\ e <= adds + 1 /\ e + N > adds + 1
        <4>1. e \in alive' <=> (e \in alive /\ e # log_entries[N - 1]) \/ e = adds + 1
          BY <2>1
        <4>2. CASE log_entries[N - 1] = NULL /\ N - 1 >= adds
          BY <1>1, <3>3, <4>1, <4>2
        <4>3. CASE log_entries[N - 1] = adds - (N - 1) /\ N - 1 < adds
          BY <1>1, <3>3, <4>1, <4>3
        <4> QED BY <3>2, <4>2, <4>3
      <3> QED BY <1>1, <2>1, <3>4
    <2>4. log_entries' = [i \in Slots |-> log_entries'[i]]
      BY <2>1 DEF ArrayInv
    <2> QED BY <2>1, <2>2, <2>3, <2>4 DEF ArrayInv, N, Slots
  <1>4. CASE Shift
    <2> DEFINE s == add.i
    <2>1. /\ s \in Nat /\ s <= N - 2 /\ s \in Slots /\ s + 1 \in Slots
          /\ log_entries' = [log_entries EXCEPT ![s + 1] = log_entries[s]]
          /\ UNCHANGED <<alive, adds>> /\ adds >= 1
          /\ Moved = s + 2 /\ Moved' = s + 1 /\ AddFacts'
      BY <1>4, ShiftEffect
    <2> HIDE DEF s
    <2>2. ASSUME NEW i \in Slots
          PROVE  log_entries'[i] = Entry(IF i < Moved' THEN adds' - 1 ELSE adds', i)
      <3>1. CASE i = s + 1
        <4>1. log_entries[s] = Entry(adds - 1, s)
          BY <2>1 DEF ArrayInv
        <4>2. Entry(adds - 1, s) = Entry(adds, s + 1)
          BY <1>1, <2>1 DEF Entry
        <4>3. log_entries'[i] = log_entries[s]
          BY <1>2, <2>1, <3>1
        <4> QED BY <2>1, <3>1, <4>1, <4>2, <4>3
      <3>2. CASE i # s + 1
        <4>1. log_entries'[i] = log_entries[i]
          BY <1>2, <2>1, <3>2
        <4>2. i < s + 2 <=> i < s + 1
          BY <1>1, <2>1, <3>2
        <4>3. log_entries[i] = Entry(IF i < Moved THEN adds - 1 ELSE adds, i)
          BY DEF ArrayInv
        <4> QED BY <2>1, <4>1, <4>2, <4>3
      <3> QED BY <3>1, <3>2
    <2>3. log_entries' = [i \in Slots |-> log_entries'[i]]
      BY <1>2, <2>1
    <2> QED BY <2>1, <2>2, <2>3 DEF ArrayInv, N, Slots
  <1>5. CASE Store
    <2>1. /\ log_entries' = [log_entries EXCEPT ![0] = adds] /\ 0 \in Slots
          /\ UNCHANGED <<alive, adds>> /\ adds >= 1
          /\ Moved = 1 /\ Moved' = 0 /\ AddFacts'
      BY <1>5, StoreEffect
    <2>2. ASSUME NEW i \in Slots
          PROVE  log_entries'[i] = Entry(IF i < Moved' THEN adds' - 1 ELSE adds', i)
      <3>0. ~(i < Moved')
        BY <1>1, <2>1
      <3>1. CASE i = 0
        <4>1. log_entries'[i] = adds
          BY <1>2, <2>1, <3>1
        <4>2. Entry(adds, 0) = adds
          BY <1>1, <2>1 DEF Entry
        <4> QED BY <2>1, <3>0, <3>1, <4>1, <4>2
      <3>2. CASE i # 0
        <4>1. log_entries'[i] = log_entries[i]
          BY <1>2, <2>1, <3>2
        <4>2. ~(i < 1)
          BY <1>1, <3>2
        <4>3. log_entries[i] = Entry(adds, i)
          BY <2>1, <4>2 DEF ArrayInv
        <4> QED BY <2>1, <3>0, <4>1, <4>3
      <3> QED BY <3>1, <3>2
    <2>3. log_entries' = [i \in Slots |-> log_entries'[i]]
      BY <1>2, <2>1
    <2> QED BY <2>1, <2>2, <2>3 DEF ArrayInv, N, Slots
  <1>6. CASE PageStep \/ UNCHANGED vars
    <2>1. UNCHANGED <<log_entries, alive, add, adds>>
      BY <1>6, PageLeaves
    <2> QED BY <2>1 DEF ArrayInv, AddFacts, Moved, Entry, Slots, N
  <1> QED BY <1>3, <1>4, <1>5, <1>6 DEF Next, PageStep

LEMMA ArrayAlways == Spec => []ArrayInv
  <1>1. Init => ArrayInv
    <2> SUFFICES ASSUME Init PROVE ArrayInv
      OBVIOUS
    <2>1. /\ log_entries = [i \in Slots |-> NULL] /\ alive = {} /\ adds = 0
          /\ add = [at |-> "idle", i |-> 0]
      BY DEF Init, NotAdding
    <2>2. /\ add.at = "idle" /\ add.i = 0 /\ add \in [at : {"idle", "shift", "store"}, i : Nat]
      BY <2>1
    <2>3. AddFacts
      BY <2>1, <2>2, LogAssumption DEF AddFacts, N
    <2>4. Moved = 0
      BY <2>2 DEF Moved
    <2>5. ASSUME NEW i \in Slots
          PROVE  log_entries[i] = Entry(IF i < Moved THEN adds - 1 ELSE adds, i)
      <3>1. i \in Nat /\ ~(i < 0)
        BY <2>3, SlotFacts
      <3> QED BY <2>1, <2>4, <3>1 DEF Entry
    <2>6. log_entries = [i \in Slots |-> log_entries[i]] /\ alive = {e \in 1 .. adds : e + N > adds}
      BY <2>1
    <2> QED BY <2>3, <2>5, <2>6 DEF ArrayInv
  <1>2. ArrayInv /\ [Next]_vars => ArrayInv'
    BY ArrayStep
  <1> QED BY <1>1, <1>2, PTL DEF Spec

\* Between two calls of eq3_add_log() the array holds exactly the latest
\* entries, newest first, and they are all that is allocated.
THEOREM LogLatestKept == Spec => []LatestKept
  <1>1. ArrayInv => LatestKept
    <2> SUFFICES ASSUME ArrayInv, add.at = "idle"
                 PROVE  /\ \A i \in Slots : log_entries[i] = IF i < adds THEN adds - i ELSE NULL
                        /\ alive = Range(log_entries) \ {NULL}
      BY DEF LatestKept
    <2>1. Moved = 0 /\ N \in Nat /\ N >= 2 /\ adds \in Nat /\ NULL \notin Nat
      BY DEF Moved, ArrayInv, AddFacts
    <2>2. ASSUME NEW i \in Slots
          PROVE  i \in Nat /\ i <= N - 1 /\ log_entries[i] = IF i < adds THEN adds - i ELSE NULL
      <3>1. i \in Nat /\ i <= N - 1 /\ ~(i < 0)
        BY SlotFacts DEF ArrayInv
      <3> QED BY <2>1, <3>1 DEF ArrayInv, Entry
    <2>3. \A e \in alive : e \in Range(log_entries) \ {NULL}
      <3> TAKE e \in alive
      <3>1. e \in Nat /\ e >= 1 /\ e <= adds /\ e + N > adds
        BY <2>1 DEF ArrayInv
      <3>2. adds - e \in Slots /\ adds - e < adds /\ adds - (adds - e) = e
        BY <2>1, <3>1 DEF Slots, N
      <3>3. log_entries[adds - e] = e
        BY <2>2, <3>2
      <3> QED BY <2>1, <3>1, <3>2, <3>3, ArrayIsFcn DEF Range
    <2>4. \A e \in Range(log_entries) \ {NULL} : e \in alive
      <3> TAKE e \in Range(log_entries) \ {NULL}
      <3>1. PICK i \in Slots : e = log_entries[i]
        BY ArrayIsFcn DEF Range
      <3>2. i \in Nat /\ i <= N - 1 /\ i < adds /\ e = adds - i
        BY <2>2, <3>1
      <3>3. e \in 1 .. adds /\ e + N > adds
        BY <2>1, <3>2
      <3> QED BY <3>3 DEF ArrayInv
    <2> QED BY <2>2, <2>3, <2>4
  <1> QED BY <1>1, ArrayAlways, PTL
-----------------------------------------------------------------------------
\* Entry e, shown last, is followed by one that is at most one older.
Shows(e, j) == j < page.numlogs => e <= log_entries[j] + 1

PageSet == [at : {"idle", "count", "load", "step", "sent"}, i : Nat, numlogs : Nat]

Lines(n) == [entry : 1 .. n, text : {"whole", "cut", "junk", "ends"}, shifted : BOOLEAN]

\* The places the page goes through are counted before they are read, and an
\* entry may be shifted at any time in between: what was counted is there
\* (CountInv); what was read is not freed by the next call (HeldInv), and is
\* what stands in the place as long as no call overlaps the line (QuietInv);
\* the place to be read next continues what is shown (NextInv).
IndexInv ==
    /\ page \in PageSet
    /\ page.i <= N - 1 /\ page.numlogs <= N - 1
    /\ page.at = "count" => page.numlogs <= page.i
    /\ page.at = "load" => page.i <= page.numlogs
    /\ page.at = "step" => page.i < page.numlogs

ReadInv ==
    /\ read \in [Pointers -> 1 .. adds \cup {NULL}] /\ since \in Nat
    /\ page.at \notin {"load", "step"} => read = NothingRead
    /\ page.at = "load" =>
         /\ read["stepped"] = NULL
         /\ read # NothingRead => page.i < page.numlogs
    /\ page.at = "step" => read["copied"] # NULL /\ read["measured"] # NULL

CountInv == \A j \in Slots : j < page.numlogs => log_entries[j] # NULL

HeldInv == \A p \in Pointers : read[p] # NULL => read[p] + N + since >= adds + 2

QuietInv ==
    \A p \in Pointers :
        read[p] # NULL /\ since = 0 => add.at = "idle" /\ read[p] = log_entries[page.i]

NextInv ==
    /\ read["copied"] # NULL => Shows(read["copied"], page.i + 1)
    /\ Len(shown) > 0 /\ ~Ended /\ page.at \in {"load", "step"} =>
         IF read["copied"] = NULL THEN Shows(shown[Len(shown)].entry, page.i)
         ELSE shown[Len(shown)].entry <= read["copied"] + 1

ShownInv ==
    /\ shown \in Seq(Lines(adds))
    /\ page.at \in {"idle", "count"} => shown = <<>>
    /\ page.at \in {"load", "step"} => Len(shown) = page.i \/ Ended

PageInv ==
    /\ IndexInv /\ ReadInv /\ CountInv /\ HeldInv /\ QuietInv
    /\ NextInv /\ ShownInv /\ PageHasNoGap

LEMMA PageFields ==
    ASSUME ArrayInv, PageInv
    PROVE  /\ page.i \in Nat /\ page.numlogs \in Nat /\ since \in Nat /\ adds \in Nat
           /\ page.i <= N - 1 /\ page.numlogs <= N - 1
           /\ N \in Nat /\ N >= 2 /\ NULL \notin Nat
           /\ Len(shown) \in Nat /\ \A k \in 1 .. Len(shown) : shown[k] \in Lines(adds)
           /\ \A p \in Pointers : read[p] # NULL => read[p] \in Nat /\ read[p] \in 1 .. adds
           /\ {"copied", "measured", "stepped"} = Pointers
           /\ \A j : j \in Slots <=> j \in Nat /\ j <= N - 1
  <1>1. /\ page.i \in Nat /\ page.numlogs \in Nat /\ since \in Nat /\ adds \in Nat
        /\ N \in Nat /\ N >= 2 /\ NULL \notin Nat
        /\ page.i <= N - 1 /\ page.numlogs <= N - 1
    BY DEF ArrayInv, AddFacts, PageInv, IndexInv, PageSet, ReadInv
  <1>2. Len(shown) \in Nat /\ \A k \in 1 .. Len(shown) : shown[k] \in Lines(adds)
    BY DEF PageInv, ShownInv
  <1>3. \A p \in Pointers : read[p] # NULL => read[p] \in Nat /\ read[p] \in 1 .. adds
    BY <1>1 DEF PageInv, ReadInv
  <1>4. \A j : j \in Slots <=> j \in Nat /\ j <= N - 1
    BY SlotFacts DEF ArrayInv
  <1> QED BY <1>1, <1>2, <1>3, <1>4 DEF Pointers

\* A line that has read something has read it for one of the three.
LEMMA SomethingRead ==
    ASSUME PageInv, read # NothingRead
    PROVE  \E p \in Pointers : read[p] # NULL
  <1>1. read = [p \in Pointers |-> read[p]]
    BY DEF PageInv, ReadInv
  <1> QED BY <1>1 DEF NothingRead

\* A place never goes back to an older entry, nor to none.
LEMMA PlacesGrow ==
    ASSUME ArrayInv, [Next]_vars
    PROVE  \A j \in Slots : log_entries[j] # NULL =>
              /\ log_entries[j] \in Nat /\ log_entries'[j] \in Nat
              /\ log_entries'[j] # NULL /\ log_entries[j] <= log_entries'[j]
  <1> TAKE j \in Slots
  <1> HAVE log_entries[j] # NULL
  <1>1. /\ log_entries[j] \in Nat /\ log_entries[j] <= adds /\ j \in Nat
        /\ DOMAIN log_entries = Slots /\ adds \in Nat /\ NULL \notin Nat
    BY PlaceFacts, ArrayIsFcn DEF ArrayInv, AddFacts
  <1>2. CASE UNCHANGED log_entries
    BY <1>1, <1>2
  <1>3. CASE Shift
    <2>1. /\ add.i \in Nat /\ add.i \in Slots /\ add.i + 1 \in Slots
          /\ log_entries' = [log_entries EXCEPT ![add.i + 1] = log_entries[add.i]]
          /\ Moved = add.i + 2
      BY <1>3, ShiftEffect
    <2>2. CASE j = add.i + 1
      <3>1. log_entries[j] = adds - 1 - j /\ j < adds - 1
        BY <1>1, <2>1, <2>2, PlaceFacts
      <3>2. add.i < Moved /\ ~(add.i >= adds - 1)
        BY <1>1, <2>1, <2>2, <3>1
      <3>3. log_entries[add.i] # NULL /\ log_entries[add.i] = adds - 1 - add.i
        BY <2>1, <3>2, PlaceFacts
      <3>4. log_entries'[j] = log_entries[add.i]
        BY <1>1, <2>1, <2>2
      <3> QED BY <1>1, <2>1, <2>2, <3>1, <3>3, <3>4
    <2>3. CASE j # add.i + 1
      <3>1. log_entries'[j] = log_entries[j]
        BY <1>1, <2>1, <2>3
      <3> QED BY <1>1, <3>1
    <2> QED BY <2>2, <2>3
  <1>4. CASE Store
    <2>1. log_entries' = [log_entries EXCEPT ![0] = adds]
      BY <1>4, StoreEffect
    <2>2. log_entries'[j] = log_entries[j] \/ log_entries'[j] = adds
      BY <1>1, <2>1
    <2> QED BY <1>1, <2>2
  <1>5. CASE AddLog
    BY <1>2, <1>5 DEF AddLog
  <1>6. CASE PageStep \/ UNCHANGED vars
    BY <1>2, <1>6, PageLeaves
  <1> QED BY <1>3, <1>4, <1>5, <1>6 DEF Next, PageStep

\* What a line of the page finds in its place.
LEMMA PlaceRead ==
    ASSUME ArrayInv, PageInv, page.i < page.numlogs
    PROVE  LET e == log_entries[page.i]
           IN  /\ e # NULL /\ e \in 1 .. adds /\ e \in Nat
               /\ e + N + 1 >= adds + 2
               /\ add.at = "idle" => e + N >= adds + 2
               /\ Shows(e, page.i + 1)
  <1> DEFINE i == page.i  n == page.numlogs  e == log_entries[page.i]
  <1>1. /\ i \in Nat /\ n \in Nat /\ adds \in Nat /\ N \in Nat /\ n <= N - 1 /\ NULL \notin Nat
        /\ \A j : j \in Slots <=> j \in Nat /\ j <= N - 1
    BY PageFields
  <1>2. i \in Slots
    BY <1>1
  <1>3. e # NULL
    BY <1>2 DEF PageInv, CountInv
  <1>4. /\ e \in Nat /\ e >= 1 /\ e <= adds
        /\ (i >= Moved => e = adds - i) /\ (i < Moved => e = adds - 1 - i)
    BY <1>2, <1>3, PlaceFacts
  <1>5. Moved \in Nat /\ (add.at = "idle" => Moved = 0)
    BY DEF Moved, ArrayInv, AddFacts
  <1>6. e + N + 1 >= adds + 2 /\ (add.at = "idle" => e + N >= adds + 2)
    BY <1>1, <1>4, <1>5
  <1>7. ASSUME i + 1 < n PROVE e <= log_entries[i + 1] + 1
    <2>1. i + 1 \in Slots /\ log_entries[i + 1] # NULL
      BY <1>1, <1>7 DEF PageInv, CountInv
    <2>2. /\ log_entries[i + 1] \in Nat
          /\ (i + 1 >= Moved => log_entries[i + 1] = adds - (i + 1))
          /\ (i + 1 < Moved => log_entries[i + 1] = adds - 1 - (i + 1))
      BY <2>1, PlaceFacts
    <2> QED BY <1>1, <1>4, <1>5, <2>2
  <1>8. Shows(e, i + 1)
    BY <1>7 DEF Shows
  <1> QED BY <1>1, <1>3, <1>4, <1>6, <1>8

\* Steps of eq3_add_log(): what was read stays as it was, and a call that
\* begins while a line is being made is counted.
LEMMA AddStep ==
    ASSUME ArrayInv, PageInv, AddLog \/ Shift \/ Store \/ UNCHANGED vars
    PROVE  PageInv'
  <1>1. UNCHANGED <<page, read, shown>>
    BY DEF AddLog, Shift, Store, vars, lineVars
  <1>2. /\ page.i \in Nat /\ page.numlogs \in Nat /\ since \in Nat /\ adds \in Nat
        /\ page.i <= N - 1 /\ page.numlogs <= N - 1
        /\ N \in Nat /\ N >= 2 /\ NULL \notin Nat
        /\ Len(shown) \in Nat /\ \A k \in 1 .. Len(shown) : shown[k] \in Lines(adds)
        /\ \A p \in Pointers : read[p] # NULL => read[p] \in Nat /\ read[p] \in 1 .. adds
        /\ {"copied", "measured", "stepped"} = Pointers
        /\ \A j : j \in Slots <=> j \in Nat /\ j <= N - 1
    BY PageFields
  <1>3. /\ since' \in Nat /\ adds' \in Nat /\ adds <= adds'
        /\ read # NothingRead => adds' + since <= adds + since'
        /\ since' = 0 /\ read # NothingRead => UNCHANGED <<log_entries, add, since>>
    <2>1. CASE AddLog
      <3>1. adds' = adds + 1 /\ since' = IF read = NothingRead THEN since ELSE since + 1
        BY <2>1 DEF AddLog
      <3> QED BY <1>2, <3>1
    <2>2. CASE Shift \/ Store
      <3>1. UNCHANGED <<adds, since>> /\ add.at # "idle"
        BY <2>2 DEF Shift, Store, lineVars
      <3>2. ASSUME since = 0, read # NothingRead PROVE FALSE
        BY <3>1, <3>2, SomethingRead DEF PageInv, QuietInv
      <3> QED BY <1>2, <3>1, <3>2
    <2>3. CASE UNCHANGED vars
      BY <1>2, <2>3 DEF vars, addVars, lineVars
    <2> QED BY <2>1, <2>2, <2>3
  <1>4. \A p \in Pointers : read[p] # NULL => read # NothingRead
    BY DEF NothingRead
  <1>5. [Next]_vars
    BY DEF Next
  <1>6. \A j \in Slots : log_entries[j] # NULL =>
           /\ log_entries[j] \in Nat /\ log_entries'[j] \in Nat
           /\ log_entries'[j] # NULL /\ log_entries[j] <= log_entries'[j]
    BY <1>5, PlacesGrow
  <1>7. IndexInv' /\ ReadInv' /\ CountInv'
    <2>1. IndexInv'
      BY <1>1 DEF IndexInv, PageInv, N
    <2>2. read' \in [Pointers -> 1 .. adds' \cup {NULL}]
      <3>1. read \in [Pointers -> 1 .. adds \cup {NULL}]
        BY DEF PageInv, ReadInv
      <3>2. 1 .. adds \subseteq 1 .. adds'
        BY <1>2, <1>3
      <3> QED BY <1>1, <3>1, <3>2
    <2>3. ReadInv'
      BY <1>1, <1>3, <2>2 DEF PageInv, ReadInv, NothingRead
    <2>4. CountInv'
      BY <1>1, <1>6 DEF PageInv, CountInv, Slots
    <2> QED BY <2>1, <2>3, <2>4
  <1>8. HeldInv'
    <2> SUFFICES ASSUME NEW p \in Pointers, read[p] # NULL
                 PROVE  read[p] + N + since' >= adds' + 2
      BY <1>1 DEF HeldInv, N
    <2>1. read[p] + N + since >= adds + 2 /\ read[p] \in Nat
      BY <1>2 DEF PageInv, HeldInv
    <2>2. adds' + since <= adds + since'
      BY <1>3, <1>4
    <2>3. adds \in Nat /\ adds' \in Nat /\ since \in Nat /\ since' \in Nat /\ N \in Nat
      BY <1>2, <1>3
    <2>4. \A r, n, s, t, a, b \in Nat :
             r + n + s >= a + 2 /\ b + s <= a + t => r + n + t >= b + 2
      OBVIOUS
    <2> QED BY <2>1, <2>2, <2>3, <2>4
  <1>9. QuietInv'
    BY <1>1, <1>3, <1>4 DEF PageInv, QuietInv
  <1>10. ASSUME NEW e \in Nat, NEW j \in Nat, Shows(e, j)
         PROVE  j < page.numlogs => e <= log_entries'[j] + 1
    <2> SUFFICES ASSUME j < page.numlogs PROVE e <= log_entries'[j] + 1
      OBVIOUS
    <2>1. j \in Slots /\ log_entries[j] # NULL
      BY <1>2 DEF PageInv, CountInv
    <2>2. log_entries[j] \in Nat /\ log_entries'[j] \in Nat /\ log_entries[j] <= log_entries'[j]
      BY <1>6, <2>1
    <2> QED BY <1>10, <2>2 DEF Shows
  <1>11. NextInv'
    <2>1. ASSUME read["copied"] # NULL
          PROVE  page.i + 1 < page.numlogs => read["copied"] <= log_entries'[page.i + 1] + 1
      <3>1. read["copied"] \in Nat /\ page.i + 1 \in Nat /\ Shows(read["copied"], page.i + 1)
        BY <1>2, <2>1 DEF PageInv, NextInv
      <3> QED BY <1>10, <3>1
    <2>2. ASSUME Len(shown) > 0, ~Ended, page.at \in {"load", "step"}, read["copied"] = NULL
          PROVE  page.i < page.numlogs => shown[Len(shown)].entry <= log_entries'[page.i] + 1
      <3>1. shown[Len(shown)] \in Lines(adds)
        BY <1>2, <2>2
      <3>2. shown[Len(shown)].entry \in Nat /\ Shows(shown[Len(shown)].entry, page.i)
        BY <1>2, <2>2, <3>1 DEF PageInv, NextInv, Lines
      <3> QED BY <1>2, <1>10, <3>2
    <2>3. ASSUME Len(shown) > 0, ~Ended, page.at \in {"load", "step"}, read["copied"] # NULL
          PROVE  shown[Len(shown)].entry <= read["copied"] + 1
      BY <2>3 DEF PageInv, NextInv
    <2> QED BY <1>1, <2>1, <2>2, <2>3 DEF NextInv, Shows, Ended
  <1>12. ShownInv' /\ PageHasNoGap'
    <2>1. \A k \in 1 .. Len(shown) : shown[k] \in Lines(adds')
      <3>1. 1 .. adds \subseteq 1 .. adds'
        BY <1>2, <1>3
      <3> QED BY <1>2, <3>1 DEF Lines
    <2>2. shown \in Seq(Lines(adds))
      BY DEF PageInv, ShownInv
    <2>3. shown' \in Seq(Lines(adds'))
      BY <1>1, <2>1, <2>2
    <2> QED BY <1>1, <2>3 DEF PageInv, ShownInv, PageHasNoGap, Ended
  <1> QED BY <1>7, <1>8, <1>9, <1>11, <1>12 DEF PageInv

\* The entries are a prefix of the array, even while it is being shifted.
LEMMA NoHole ==
    ASSUME ArrayInv, NEW i \in Slots, NEW j \in Slots, j <= i, log_entries[i] # NULL
    PROVE  log_entries[j] # NULL
  <1>1. adds \in Nat /\ Moved \in Nat
    BY DEF ArrayInv, AddFacts, Moved
  <1>2. i \in Nat /\ IF i < Moved THEN i < adds - 1 ELSE i < adds
    BY <1>1, PlaceFacts
  <1>3. j \in Nat /\ (log_entries[j] = NULL => IF j < Moved THEN j >= adds - 1 ELSE j >= adds)
    BY PlaceFacts
  <1> QED BY <1>1, <1>2, <1>3

\* Steps at which no line is being made.
LEMMA NoLineStep ==
    ASSUME ArrayInv, PageInv, read = NothingRead, UNCHANGED <<addVars, lineVars>>,
           IndexInv', CountInv', page'.at # "step",
           page'.at \in {"idle", "count"} => shown = <<>>,
           page'.at = "load" => Len(shown) = page'.i \/ Ended,
           page'.at = "load" /\ Len(shown) > 0 /\ ~Ended => Shows(shown[Len(shown)].entry, page.i)',
           page'.at = "sent" => Len(shown) = page'.numlogs \/ Ended
    PROVE  PageInv'
  <1>1. UNCHANGED <<log_entries, alive, add, adds, read, since, shown>>
    BY DEF addVars, lineVars
  <1>2. \A p \in Pointers : read'[p] = NULL
    BY <1>1 DEF NothingRead
  <1>3. "copied" \in Pointers /\ "stepped" \in Pointers
    BY DEF Pointers
  <1>4. ReadInv'
    BY <1>1, <1>2, <1>3 DEF PageInv, ReadInv, NothingRead
  <1>5. HeldInv' /\ QuietInv'
    BY <1>2 DEF HeldInv, QuietInv
  <1>6. NextInv'
    BY <1>1, <1>2, <1>3 DEF NextInv, Ended
  <1>7. ShownInv' /\ PageHasNoGap'
    BY <1>1 DEF PageInv, ShownInv, PageHasNoGap, Ended
  <1> QED BY <1>4, <1>5, <1>6, <1>7 DEF PageInv

LEMMA CountStep ==
    ASSUME ArrayInv, PageInv, Count
    PROVE  PageInv'
  <1>1. /\ page \in PageSet /\ page.at = "count" /\ page.numlogs <= page.i
        /\ shown = <<>> /\ read = NothingRead
    BY DEF PageInv, IndexInv, ShownInv, ReadInv, Count
  <1>2. /\ page.i \in Nat /\ page.numlogs \in Nat /\ N \in Nat /\ N >= 2
        /\ page.i <= N - 1 /\ page.numlogs <= N - 1
        /\ \A j : j \in Slots <=> j \in Nat /\ j <= N - 1
    BY PageFields
  <1>3. UNCHANGED <<addVars, lineVars>> /\ UNCHANGED log_entries
    BY DEF Count, addVars
  <1>4. CASE page.i < N - 1 /\ log_entries[page.i] # NULL
    <2>1. page' = [page EXCEPT !.i = page.i + 1, !.numlogs = page.numlogs + 1]
      BY <1>4 DEF Count, Counted, Counts, N
    <2>2. /\ page'.at = "count" /\ page'.i = page.i + 1 /\ page'.numlogs = page.numlogs + 1
          /\ page' \in PageSet
      <3> DEFINE i == page.i + 1  m == page.numlogs + 1
      <3>1. i \in Nat /\ m \in Nat /\ page' = [page EXCEPT !.i = i, !.numlogs = m]
        BY <1>2, <2>1
      <3> HIDE DEF i, m
      <3>2. page'.at = "count" /\ page'.i = i /\ page'.numlogs = m /\ page' \in PageSet
        BY <1>1, <3>1 DEF PageSet
      <3> QED BY <3>2 DEF i, m
    <2>3. IndexInv'
      BY <1>1, <1>2, <1>4, <2>2 DEF IndexInv, N, PageSet
    <2>4. CountInv'
      <3> SUFFICES ASSUME NEW j \in Slots, j < page.numlogs + 1 PROVE log_entries[j] # NULL
        BY <1>3, <2>2 DEF CountInv, Slots
      <3>1. j \in Nat /\ page.i \in Slots /\ j <= page.i
        BY <1>1, <1>2, <1>4
      <3> QED BY <1>4, <3>1, NoHole
    <2> QED BY <1>1, <1>3, <2>2, <2>3, <2>4, NoLineStep
  <1>5. CASE page.i < N - 1 /\ log_entries[page.i] = NULL
    <2>1. page' = [page EXCEPT !.i = page.i + 1, !.numlogs = page.numlogs]
      BY <1>5 DEF Count, Counted, Counts, N
    <2>2. /\ page'.at = "count" /\ page'.i = page.i + 1 /\ page'.numlogs = page.numlogs
          /\ page' \in PageSet
      <3> DEFINE i == page.i + 1
      <3>1. i \in Nat /\ page' = [page EXCEPT !.i = i, !.numlogs = page.numlogs]
        BY <1>2, <2>1
      <3> HIDE DEF i
      <3>2. page'.at = "count" /\ page'.i = i /\ page'.numlogs = page.numlogs /\ page' \in PageSet
        BY <1>1, <3>1 DEF PageSet
      <3> QED BY <3>2 DEF i
    <2>3. IndexInv'
      BY <1>1, <1>2, <1>5, <2>2 DEF IndexInv, N, PageSet
    <2>4. CountInv'
      BY <1>3, <2>2 DEF CountInv, Slots, PageInv
    <2> QED BY <1>1, <1>3, <2>2, <2>3, <2>4, NoLineStep
  <1>6. CASE ~(page.i < N - 1)
    <2>1. page' = [page EXCEPT !.at = "load", !.i = 0]
      BY <1>6 DEF Count, Counted, N
    <2>2. /\ page'.at = "load" /\ page'.i = 0 /\ page'.numlogs = page.numlogs
          /\ page' \in PageSet
      BY <1>1, <2>1 DEF PageSet
    <2>3. IndexInv'
      BY <1>1, <1>2, <2>2 DEF IndexInv, N, PageSet
    <2>4. CountInv'
      BY <1>3, <2>2 DEF CountInv, Slots, PageInv
    <2>5. Len(shown) = 0
      BY <1>1
    <2> QED BY <1>1, <1>3, <2>2, <2>3, <2>4, <2>5, NoLineStep
  <1> QED BY <1>4, <1>5, <1>6

LEMMA SendStep ==
    ASSUME ArrayInv, PageInv, Send
    PROVE  PageInv'
  <1>1. /\ page \in PageSet /\ page.at = "load" /\ page.i <= page.numlogs
        /\ page.i >= page.numlogs /\ page' = [page EXCEPT !.at = "sent"]
    BY DEF PageInv, IndexInv, Send
  <1>2. page.i \in Nat /\ page.numlogs \in Nat /\ page.i <= N - 1 /\ page.numlogs <= N - 1
    BY PageFields
  <1>3. /\ page'.at = "sent" /\ page'.i = page.i /\ page'.numlogs = page.numlogs
        /\ page' \in PageSet
    BY <1>1 DEF PageSet
  <1>4. read = NothingRead
    BY <1>1, <1>2 DEF PageInv, ReadInv
  <1>5. Len(shown) = page'.numlogs \/ Ended
    BY <1>1, <1>2, <1>3 DEF PageInv, ShownInv
  <1>6. UNCHANGED <<addVars, lineVars>> /\ UNCHANGED log_entries
    BY DEF Send, addVars
  <1>7. IndexInv'
    BY <1>1, <1>2, <1>3 DEF IndexInv, N, PageSet
  <1>8. CountInv'
    BY <1>3, <1>6 DEF CountInv, Slots, PageInv
  <1> QED BY <1>3, <1>4, <1>5, <1>6, <1>7, <1>8, NoLineStep

\* A page that is begun, or done with, shows nothing.
LEMMA FreshPage ==
    ASSUME ArrayInv, PageInv, ServeLog \/ Sent
    PROVE  PageInv'
  <1>1. /\ page'.at \in {"idle", "count"} /\ page'.i = 0 /\ page'.numlogs = 0
        /\ page' \in PageSet /\ UNCHANGED addVars /\ UNCHANGED <<read, since>>
    BY DEF ServeLog, Sent, NoPage, PageSet, lineVars
  <1>2. read = NothingRead /\ shown' = <<>>
    BY DEF PageInv, ReadInv, ShownInv, ServeLog, Sent, lineVars
  <1>3. N \in Nat /\ N >= 2 /\ \A j \in Slots : j \in Nat
    BY PageFields
  <1>4. IndexInv'
    BY <1>1, <1>3 DEF IndexInv, N
  <1>5. CountInv'
    BY <1>1, <1>3 DEF CountInv, Slots
  <1>6. \A p \in Pointers : read'[p] = NULL
    BY <1>1, <1>2 DEF NothingRead
  <1>7. ReadInv'
    BY <1>1, <1>2 DEF PageInv, ReadInv, NothingRead, addVars
  <1>8. HeldInv' /\ QuietInv'
    BY <1>6 DEF HeldInv, QuietInv
  <1>9. NextInv' /\ ShownInv' /\ PageHasNoGap'
    <2>1. Len(shown') = 0 /\ "copied" \in Pointers
      BY <1>2 DEF Pointers
    <2>2. shown' \in Seq(Lines(adds'))
      BY <1>2
    <2> QED BY <1>1, <1>2, <1>6, <2>1, <2>2 DEF NextInv, ShownInv, PageHasNoGap
  <1> QED BY <1>4, <1>5, <1>7, <1>8, <1>9 DEF PageInv

\* What a line may add to the entries it has read.
LEMMA ReadStep ==
    ASSUME ArrayInv, PageInv, NEW p \in Pointers,
           page.i < page.numlogs, page.at \in {"load", "step"},
           page.at = "load" => p # "stepped", read[p] = NULL,
           read' = [read EXCEPT ![p] = log_entries[page.i]],
           since' = IF read # NothingRead THEN since ELSE IF add.at = "idle" THEN 0 ELSE 1,
           UNCHANGED <<log_entries, alive, add, adds, page, shown>>
    PROVE  PageInv'
  <1> DEFINE e == log_entries[page.i]
  <1>1. /\ e # NULL /\ e \in 1 .. adds /\ e \in Nat /\ e + N + 1 >= adds + 2
        /\ add.at = "idle" => e + N >= adds + 2
        /\ Shows(e, page.i + 1)
    BY PlaceRead
  <1>2. /\ since \in Nat /\ adds \in Nat /\ N \in Nat /\ NULL \notin Nat
        /\ {"copied", "measured", "stepped"} = Pointers
        /\ \A q \in Pointers : read[q] # NULL => read[q] \in Nat
    BY PageFields
  <1>3. read \in [Pointers -> 1 .. adds \cup {NULL}]
    BY DEF PageInv, ReadInv
  <1>4. /\ read' \in [Pointers -> 1 .. adds \cup {NULL}] /\ read'[p] = e
        /\ \A q \in Pointers : q # p => read'[q] = read[q]
    BY <1>1, <1>3
  <1>5. since' \in Nat /\ (since' = 0 => add.at = "idle")
    <2>1. CASE read = NothingRead
      BY <2>1
    <2>2. CASE read # NothingRead
      BY <1>2, <2>2, SomethingRead DEF PageInv, QuietInv
    <2> QED BY <2>1, <2>2
  <1>6. \A q \in Pointers : read[q] # NULL => since' = since
    BY DEF NothingRead
  <1> HIDE DEF e
  <1>7. IndexInv' /\ CountInv'
    BY DEF IndexInv, CountInv, PageInv, PageSet, Slots, N
  <1>8. ReadInv'
    BY <1>2, <1>4, <1>5 DEF PageInv, ReadInv
  <1>9. HeldInv'
    <2>1. e + N + since' >= adds + 2
      <3>1. since' = 0 \/ since' >= 1
        BY <1>5
      <3> QED BY <1>1, <1>2, <1>5, <3>1
    <2>2. ASSUME NEW q \in Pointers, read'[q] # NULL
          PROVE  read'[q] + N + since' >= adds + 2
      <3>1. CASE q = p
        BY <1>4, <2>1, <3>1
      <3>2. CASE q # p
        BY <1>4, <1>6, <2>2, <3>2 DEF PageInv, HeldInv
      <3> QED BY <3>1, <3>2
    <2> QED BY <2>2 DEF HeldInv, N
  <1>10. QuietInv'
    <2> SUFFICES ASSUME NEW q \in Pointers, read'[q] # NULL, since' = 0
                 PROVE  add.at = "idle" /\ read'[q] = e
      BY DEF QuietInv, e
    <2>1. CASE q = p
      BY <1>4, <1>5, <2>1
    <2>2. CASE q # p
      BY <1>4, <1>6, <2>2 DEF PageInv, QuietInv, e
    <2> QED BY <2>1, <2>2
  <1>11. NextInv'
    <2>1. CASE p = "copied"
      <3>1. read'["copied"] = e
        BY <1>4, <2>1
      <3>2. Len(shown) > 0 /\ ~Ended => shown[Len(shown)].entry <= e + 1
        BY <2>1 DEF PageInv, NextInv, Shows, e
      <3> QED BY <1>1, <3>1, <3>2 DEF NextInv, Shows, Ended
    <2>2. CASE p # "copied"
      <3>1. read'["copied"] = read["copied"]
        BY <1>2, <1>4, <2>2
      <3> QED BY <3>1 DEF PageInv, NextInv, Shows, Ended
    <2> QED BY <2>1, <2>2
  <1>12. ShownInv' /\ PageHasNoGap'
    BY DEF PageInv, ShownInv, PageHasNoGap, Ended
  <1> QED BY <1>7, <1>8, <1>9, <1>10, <1>11, <1>12 DEF PageInv

LEMMA LoadStep ==
    ASSUME ArrayInv, PageInv, NEW p \in Pointers, Load(p)
    PROVE  PageInv'
  <1>1. /\ page.at = "load" /\ page.i < page.numlogs /\ p # "stepped" /\ read[p] = NULL
        /\ read' = [read EXCEPT ![p] = log_entries[page.i]]
        /\ since' = IF read # NothingRead THEN since ELSE IF add.at = "idle" THEN 0 ELSE 1
        /\ UNCHANGED <<log_entries, alive, add, adds, page, shown>>
    BY DEF Load, addVars
  <1> QED BY <1>1, ReadStep

LEMMA ReloadStep ==
    ASSUME ArrayInv, PageInv, Reload
    PROVE  PageInv'
  <1>1. /\ page.at = "step" /\ read["stepped"] = NULL
        /\ read' = [read EXCEPT !["stepped"] = log_entries[page.i]]
        /\ UNCHANGED <<log_entries, alive, add, adds, page, since, shown>>
    BY DEF Reload, addVars
  <1>2. page.i < page.numlogs /\ read["copied"] # NULL
    BY <1>1 DEF PageInv, IndexInv, ReadInv
  <1>3. read # NothingRead /\ "stepped" \in Pointers
    BY <1>2 DEF NothingRead, Pointers
  <1> QED BY <1>1, <1>2, <1>3, ReadStep

LEMMA CopyStep ==
    ASSUME ArrayInv, PageInv, Copy
    PROVE  PageInv'
  <1>1. /\ page \in PageSet /\ page.at = "load" /\ page' = [page EXCEPT !.at = "step"]
        /\ read["copied"] # NULL /\ read["measured"] # NULL
        /\ UNCHANGED <<log_entries, alive, add, adds, read, since, shown>>
    BY DEF PageInv, IndexInv, Copy, addVars, lineVars
  <1>2. page'.at = "step" /\ page'.i = page.i /\ page'.numlogs = page.numlogs /\ page' \in PageSet
    BY <1>1 DEF PageSet
  <1>3. read # NothingRead
    BY <1>1 DEF NothingRead, Pointers
  <1>4. IndexInv' /\ CountInv'
    BY <1>1, <1>2, <1>3 DEF PageInv, IndexInv, ReadInv, CountInv, Slots, N
  <1>5. ReadInv' /\ HeldInv' /\ QuietInv'
    BY <1>1, <1>2 DEF PageInv, ReadInv, HeldInv, QuietInv, N
  <1>6. NextInv' /\ ShownInv' /\ PageHasNoGap'
    BY <1>1, <1>2 DEF PageInv, NextInv, ShownInv, PageHasNoGap, Shows, Ended
  <1> QED BY <1>4, <1>5, <1>6 DEF PageInv

\* A line no call of eq3_add_log() overlapped is the whole entry.
LEMMA WholeLine ==
    ASSUME ArrayInv, PageInv, page.at = "step", read["stepped"] # NULL
    PROVE  /\ Texts \subseteq {"whole", "cut", "junk", "ends"}
           /\ since = 0 => Texts = {"whole"}
  <1>1. Texts \subseteq {"whole", "cut", "junk", "ends"}
    BY DEF Texts
  <1>2. ASSUME since = 0 PROVE Texts = {"whole"}
    <2>1. read["copied"] # NULL /\ read["measured"] # NULL
      BY DEF PageInv, ReadInv
    <2>2. read["copied"] = read["measured"] /\ read["copied"] = read["stepped"]
      BY <1>2, <2>1, PageFields DEF PageInv, QuietInv
    <2>3. /\ read["copied"] \in Nat /\ read["copied"] \in 1 .. adds
          /\ adds \in Nat /\ adds <= MaxAdds /\ MaxAdds \in Nat
      BY <2>1, PageFields, LogAssumption DEF ArrayInv, AddFacts
    <2>4. read["copied"] \in 1 .. MaxAdds
      BY <2>3
    <2>5. Length[read["copied"]] \in Nat
      BY <2>4, LogAssumption
    <2> QED BY <2>2, <2>5 DEF Texts
  <1> QED BY <1>1, <1>2

LEMMA AdvanceStep ==
    ASSUME ArrayInv, PageInv, Advance
    PROVE  PageInv'
  <1> DEFINE i == page.i  n == page.numlogs  c == read["copied"]  s == shown
  <1>1. /\ page \in PageSet /\ page.at = "step" /\ read["stepped"] # NULL
        /\ page' = [page EXCEPT !.at = "load", !.i = i + 1]
        /\ read' = NothingRead /\ since' = 0 /\ i < n /\ c # NULL
        /\ UNCHANGED <<log_entries, alive, add, adds>>
    BY DEF PageInv, IndexInv, ReadInv, Advance, ShowLine, addVars
  <1>2. /\ i \in Nat /\ n \in Nat /\ since \in Nat /\ adds \in Nat /\ n <= N - 1 /\ N \in Nat
        /\ NULL \notin Nat /\ Len(s) \in Nat
        /\ \A k \in 1 .. Len(s) : s[k] \in Lines(adds)
        /\ {"copied", "measured", "stepped"} = Pointers
    BY PageFields
  <1>3. c \in Nat /\ c \in 1 .. adds
    BY <1>1, PageFields
  <1>4. page'.at = "load" /\ page'.i = i + 1 /\ page'.numlogs = n /\ page' \in PageSet
    <2> DEFINE m == i + 1
    <2>1. m \in Nat /\ page' = [page EXCEPT !.at = "load", !.i = m]
      BY <1>1, <1>2
    <2> HIDE DEF m
    <2>2. page'.at = "load" /\ page'.i = m /\ page'.numlogs = n /\ page' \in PageSet
      BY <1>1, <2>1 DEF PageSet
    <2> QED BY <2>2 DEF m
  <1>5. IndexInv' /\ CountInv'
    BY <1>1, <1>2, <1>4 DEF PageInv, IndexInv, CountInv, Slots, N
  <1>6. \A p \in Pointers : read'[p] = NULL
    BY <1>1 DEF NothingRead
  <1>7. ReadInv'
    <2>1. NothingRead \in [Pointers -> 1 .. adds \cup {NULL}]
      BY DEF NothingRead
    <2> QED BY <1>1, <1>2, <1>4, <1>6, <2>1 DEF ReadInv, NothingRead
  <1>8. HeldInv' /\ QuietInv'
    BY <1>6 DEF HeldInv, QuietInv
  <1>9. s \in Seq(Lines(adds)) /\ (Len(s) = i \/ Ended) /\ Shows(c, i + 1)
        /\ (Len(s) > 0 /\ ~Ended => s[Len(s)].entry <= c + 1)
    BY <1>1 DEF PageInv, ShownInv, NextInv
  <1>10. \/ Ended /\ s' = s
         \/ ~Ended /\ \E text \in Texts :
              s' = Append(s, [entry |-> c, text |-> text, shifted |-> since > 0])
    BY DEF Advance, ShowLine
  <1>11. CASE Ended /\ s' = s
    <2>1. Ended'
      BY <1>11 DEF Ended
    <2> QED BY <1>1, <1>2, <1>4, <1>5, <1>6, <1>7, <1>8, <1>9, <1>11, <2>1
            DEF PageInv, NextInv, ShownInv, PageHasNoGap
  <1>12. ASSUME ~Ended, NEW text \in Texts,
                s' = Append(s, [entry |-> c, text |-> text, shifted |-> since > 0])
         PROVE  PageInv'
    <2> DEFINE l == [entry |-> c, text |-> text, shifted |-> since > 0]
    <2>1. /\ text \in {"whole", "cut", "junk", "ends"}
          /\ since = 0 => text = "whole"
      BY <1>1, <1>12, WholeLine
    <2>2. l \in Lines(adds) /\ l.entry = c /\ (l.text = "whole" \/ l.shifted)
      <3>1. l.entry = c /\ l.text = text /\ l.shifted = (since > 0)
        OBVIOUS
      <3>2. l \in Lines(adds)
        <4>1. (since > 0) \in BOOLEAN
          OBVIOUS
        <4> QED BY <1>3, <2>1, <4>1 DEF Lines
      <3>3. since = 0 \/ since > 0
        BY <1>2
      <3> QED BY <2>1, <3>1, <3>2, <3>3
    <2> HIDE DEF l
    <2>3. s' = Append(s, l)
      BY <1>12 DEF l
    <2>4. /\ s' \in Seq(Lines(adds)) /\ Len(s') = Len(s) + 1 /\ s'[Len(s) + 1] = l
          /\ \A k \in 1 .. Len(s) : s'[k] = s[k]
      BY <1>9, <2>2, <2>3
    <2>5. Len(s) = i
      BY <1>9, <1>12
    <2>6. NextInv'
      BY <1>1, <1>2, <1>4, <1>6, <1>9, <2>2, <2>4 DEF NextInv, Shows
    <2>7. ShownInv'
      BY <1>1, <1>2, <1>4, <2>4, <2>5 DEF ShownInv
    <2>8. ASSUME NEW k \in 1 .. Len(s) PROVE s'[k].entry <= s'[k + 1].entry + 1
      <3>1. CASE k = Len(s)
        BY <1>2, <1>9, <1>12, <2>2, <2>4, <3>1
      <3>2. CASE k # Len(s)
        <4>1. k \in 1 .. Len(s) - 1 /\ k + 1 \in 1 .. Len(s)
          BY <1>2, <3>2
        <4>2. s[k].entry <= s[k + 1].entry + 1
          BY <4>1 DEF PageInv, PageHasNoGap
        <4> QED BY <2>4, <4>1, <4>2
      <3> QED BY <3>1, <3>2
    <2>9. ASSUME NEW k \in 1 .. Len(s) + 1 PROVE s'[k].text = "whole" \/ s'[k].shifted
      <3>1. k \in 1 .. Len(s) \/ k = Len(s) + 1
        BY <1>2
      <3> QED BY <2>2, <2>4, <3>1 DEF PageInv, PageHasNoGap
    <2>10. PageHasNoGap'
      <3>1. Len(s') - 1 = Len(s)
        BY <1>2, <2>4
      <3> QED BY <1>4, <2>4, <2>8, <2>9, <3>1 DEF PageHasNoGap
    <2> QED BY <1>5, <1>7, <1>8, <2>6, <2>7, <2>10 DEF PageInv
  <1> QED BY <1>10, <1>11, <1>12

LEMMA PageInvStep ==
    ASSUME ArrayInv, PageInv, [Next]_vars
    PROVE  PageInv'
  <1>1. CASE AddLog \/ Shift \/ Store \/ UNCHANGED vars
    BY <1>1, AddStep
  <1>2. CASE Count
    BY <1>2, CountStep
  <1>3. CASE \E p \in Pointers : Load(p)
    BY <1>3, LoadStep
  <1>4. CASE Copy
    BY <1>4, CopyStep
  <1>5. CASE Reload
    BY <1>5, ReloadStep
  <1>6. CASE Advance
    BY <1>6, AdvanceStep
  <1>7. CASE Send
    BY <1>7, SendStep
  <1>8. CASE ServeLog \/ Sent
    BY <1>8, FreshPage
  <1> QED BY <1>1, <1>2, <1>3, <1>4, <1>5, <1>6, <1>7, <1>8 DEF Next

LEMMA PageAlways == Spec => [](ArrayInv /\ PageInv)
  <1>1. Init => PageInv
    <2> SUFFICES ASSUME Init PROVE PageInv
      OBVIOUS
    <2>1. /\ page = NoPage /\ page.at = "idle" /\ page.i = 0 /\ page.numlogs = 0
          /\ shown = <<>> /\ read = NothingRead /\ since = 0 /\ adds = 0
      BY DEF Init, NoPage
    <2>2. page \in PageSet
      BY <2>1 DEF NoPage, PageSet
    <2>3. N \in Nat /\ N >= 2
      BY LogAssumption DEF N
    <2>4. IndexInv /\ CountInv
      BY <2>1, <2>2, <2>3 DEF IndexInv, CountInv, Slots
    <2>5. \A p \in Pointers : read[p] = NULL
      BY <2>1 DEF NothingRead
    <2>6. ReadInv
      <3>1. NothingRead \in [Pointers -> 1 .. adds \cup {NULL}]
        BY DEF NothingRead
      <3> QED BY <2>1, <3>1 DEF ReadInv
    <2>7. HeldInv /\ QuietInv
      BY <2>5 DEF HeldInv, QuietInv
    <2>8. NextInv /\ ShownInv /\ PageHasNoGap
      <3>1. Len(shown) = 0 /\ shown \in Seq(Lines(adds)) /\ "copied" \in Pointers
        BY <2>1 DEF Pointers
      <3> QED BY <2>1, <2>5, <3>1 DEF NextInv, ShownInv, PageHasNoGap
    <2> QED BY <2>4, <2>6, <2>7, <2>8 DEF PageInv
  <1>2. ArrayInv /\ PageInv /\ [Next]_vars => PageInv'
    BY PageInvStep
  <1> QED BY <1>1, <1>2, ArrayAlways, PTL DEF Spec

\* Types of eq3_add_log() and mongoose_serve_log(); in particular the page
\* never reads an empty pointer, although the array is shifted between the
\* count of the entries and the reads.
THEOREM LogTypeCorrect == Spec => []TypeOK
  <1>1. ArrayInv /\ PageInv => TypeOK
    <2> SUFFICES ASSUME ArrayInv, PageInv PROVE TypeOK
      OBVIOUS
    <2>1. /\ N \in Nat /\ N >= 2 /\ adds \in 0 .. MaxAdds /\ adds \in Nat
      BY LogAssumption DEF ArrayInv, AddFacts
    <2>2. ASSUME NEW i \in Slots PROVE log_entries[i] \in 1 .. adds \cup {NULL}
      BY <2>1, PlaceFacts
    <2>3. log_entries \in [Slots -> 1 .. adds \cup {NULL}]
      <3>1. log_entries = [i \in Slots |-> log_entries[i]]
        BY DEF ArrayInv
      <3> QED BY <2>2, <3>1
    <2>4. alive \subseteq 1 .. adds
      BY DEF ArrayInv
    <2>5. add \in [at : {"idle", "shift", "store"}, i : Slots]
      <3>1. add \in [at : {"idle", "shift", "store"}, i : Nat] /\ add.i <= N - 1
        BY <2>1 DEF ArrayInv, AddFacts
      <3>2. add.i \in Slots
        BY <3>1, SlotFacts DEF ArrayInv
      <3> QED BY <3>1, <3>2
    <2>6. page \in [at : {"idle", "count", "load", "step", "sent"},
                 i : 0 .. NUM_LOG_ENTRIES, numlogs : 0 .. NUM_LOG_ENTRIES]
      <3>1. page \in PageSet /\ page.i <= N - 1 /\ page.numlogs <= N - 1
        BY DEF PageInv, IndexInv
      <3>2. page.i \in 0 .. NUM_LOG_ENTRIES /\ page.numlogs \in 0 .. NUM_LOG_ENTRIES
        BY <2>1, <3>1 DEF PageSet, N
      <3> QED BY <3>1, <3>2 DEF PageSet
    <2>7. /\ read \in [Pointers -> 1 .. adds \cup {NULL}] /\ since \in Nat
          /\ page.at = "step" => read["copied"] # NULL /\ read["measured"] # NULL
      BY DEF PageInv, ReadInv
    <2>8. shown \in Seq(Line)
      BY DEF PageInv, ShownInv, Lines, Line
    <2> QED BY <2>1, <2>3, <2>4, <2>5, <2>6, <2>7, <2>8 DEF TypeOK
  <1> QED BY <1>1, PageAlways, PTL

\* mongoose_serve_log() measures and copies the text of entries that are not
\* freed as long as at most one call of eq3_add_log() overlaps the line.
THEOREM LogHeldIsAlive == Spec => []HeldIsAlive
  <1>1. ArrayInv /\ PageInv => HeldIsAlive
    <2> SUFFICES ASSUME ArrayInv, PageInv, since < 2, NEW p \in Pointers, read[p] # NULL
                 PROVE  read[p] \in alive
      BY DEF HeldIsAlive, InHand
    <2>1. read[p] + N + since >= adds + 2
      BY DEF PageInv, HeldInv
    <2>2. /\ read[p] \in 1 .. adds /\ read[p] \in Nat
          /\ N \in Nat /\ adds \in Nat /\ since \in Nat
      BY PageFields
    <2>3. read[p] + N > adds
      BY <2>1, <2>2
    <2> QED BY <2>2, <2>3 DEF ArrayInv
  <1> QED BY <1>1, PageAlways, PTL

\* The page mongoose_serve_log() builds while entries are added leaves none of
\* them out between two that it shows, however often the array is shifted
\* between the three reads of a line; only a line that a call of eq3_add_log()
\* overlaps can be damaged or end the page.
THEOREM LogPageHasNoGap == Spec => []PageHasNoGap
  <1>1. PageInv => PageHasNoGap
    BY DEF PageInv
  <1> QED BY <1>1, PageAlways, PTL
=============================================================================
