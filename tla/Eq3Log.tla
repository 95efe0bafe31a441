------------------------------- MODULE Eq3Log -------------------------------
(***************************************************************************)
(* The log of main/eq3_bootwifi.c: an array of pointers, newest first,     *)
(* into which eq3_add_log() shifts an entry while the web task builds the  *)
(* log page from it, without a lock.  A step is one access to the array or *)
(* to a text.                                                              *)
(*                                                                         *)
(* Each line of the page reads its place in the array three times: for the *)
(* text to copy, for the number of bytes to copy and for the number of     *)
(* bytes to go on by.  When the place is shifted in between, a line can be *)
(* cut short or padded with zeros, and the page ends at the first zero.    *)
(*                                                                         *)
(* One task adds at a time here.  The hub's tasks can also overlap in      *)
(* eq3_add_log(); both then free the last entry.                           *)
(***************************************************************************)
EXTENDS Naturals, Sequences, Functions

CONSTANTS
    NUM_LOG_ENTRIES,    \* 40
    NULL,
    MaxAdds,            \* bound on the entries of one behaviour
    Length              \* the length of each entry's text

ASSUME LogAssumption ==
    /\ NUM_LOG_ENTRIES \in Nat \ {0, 1} /\ MaxAdds \in Nat /\ NULL \notin Nat
    /\ Length \in [1 .. MaxAdds -> Nat \ {0}]

VARIABLES
    log_entries,    \* entries are numbered from 1 in the order they are added
    alive,          \* entries that are allocated
    add,            \* eq3_add_log(): [at, i], the index to shift next
    adds,           \* calls of eq3_add_log() so far
    page,           \* mongoose_serve_log(): [at, i, numlogs]
    read,           \* the entries the current line of the page has read
    since,          \* history: calls of eq3_add_log() under way when the line
                    \* read the array first, or begun since
    shown           \* the lines of the page that reach the browser

addVars == <<log_entries, alive, add, adds>>
lineVars == <<read, since, shown>>
vars == <<addVars, page, lineVars>>

Slots == 0 .. NUM_LOG_ENTRIES - 1

NotAdding == [at |-> "idle", i |-> 0]

NoPage == [at |-> "idle", i |-> 0, numlogs |-> 0]

\* What a line reads its place for: the text to copy, the bytes to copy, the
\* bytes to go on by.
Pointers == {"copied", "measured", "stepped"}

NothingRead == [p \in Pointers |-> NULL]

\* eq3_log_init()
Init ==
    /\ log_entries = [i \in Slots |-> NULL]
    /\ alive = {} /\ add = NotAdding /\ adds = 0
    /\ page = NoPage /\ read = NothingRead /\ since = 0 /\ shown = <<>>

-----------------------------------------------------------------------------
(* eq3_add_log() *)

\* Mutant: the entry that is shifted out is not freed.
AddLog_leak ==
    /\ add.at = "idle" /\ adds < MaxAdds
    /\ adds' = adds + 1
    /\ alive' = alive \cup {adds'}
    /\ add' = [at |-> "shift", i |-> NUM_LOG_ENTRIES - 2]
    /\ since' = IF read = NothingRead THEN since ELSE since + 1
    /\ UNCHANGED <<log_entries, page, read, shown>>

\* malloc() of the new entry, free() of the last one; a failed malloc()
\* changes nothing.
AddLog ==
    /\ add.at = "idle" /\ adds < MaxAdds
    /\ adds' = adds + 1
    /\ alive' = (alive \ {log_entries[NUM_LOG_ENTRIES - 1]}) \cup {adds'}
    /\ add' = [at |-> "shift", i |-> NUM_LOG_ENTRIES - 2]
    /\ since' = IF read = NothingRead THEN since ELSE since + 1
    /\ UNCHANGED <<log_entries, page, read, shown>>

\* log_entries[i+1] = log_entries[i]
Shift ==
    /\ add.at = "shift"
    /\ log_entries' = [log_entries EXCEPT ![add.i + 1] = log_entries[add.i]]
    /\ add' = IF add.i = 0 THEN [add EXCEPT !.at = "store"]
              ELSE [add EXCEPT !.i = @ - 1]
    /\ UNCHANGED <<alive, adds, page, lineVars>>

Store ==
    /\ add.at = "store"
    /\ log_entries' = [log_entries EXCEPT ![0] = adds]
    /\ add' = NotAdding
    /\ UNCHANGED <<alive, adds, page, lineVars>>

-----------------------------------------------------------------------------
(* mongoose_serve_log() *)

ServeLog ==
    /\ page.at = "idle"
    /\ page' = [NoPage EXCEPT !.at = "count"]
    /\ UNCHANGED <<addVars, lineVars>>

\* Mutant: all the entries are counted.
Counted_all == NUM_LOG_ENTRIES

\* The entries eq3_num_logs() looks at.
Counted == NUM_LOG_ENTRIES - 1

Counts(i) == log_entries[i] # NULL

\* One pass of the loop of eq3_num_logs()
Count ==
    /\ page.at = "count"
    /\ page' = IF page.i < Counted
               THEN [page EXCEPT !.i = @ + 1,
                       !.numlogs = IF Counts(page.i) THEN @ + 1 ELSE @]
               ELSE [page EXCEPT !.at = "load", !.i = 0]
    /\ UNCHANGED <<addVars, lineVars>>

\* The arguments of strncpy(), in either order
Load(p) ==
    /\ page.at = "load" /\ page.i < page.numlogs
    /\ p # "stepped" /\ read[p] = NULL
    /\ read' = [read EXCEPT ![p] = log_entries[page.i]]
    /\ since' = IF read # NothingRead THEN since
                ELSE IF add.at = "idle" THEN 0 ELSE 1
    /\ UNCHANGED <<addVars, page, shown>>

\* strlen() of the one, strncpy() of the other
Copy ==
    /\ page.at = "load" /\ read["copied"] # NULL /\ read["measured"] # NULL
    /\ page' = [page EXCEPT !.at = "step"]
    /\ UNCHANGED <<addVars, lineVars>>

\* The argument of the second strlen()
Reload ==
    /\ page.at = "step" /\ read["stepped"] = NULL
    /\ read' = [read EXCEPT !["stepped"] = log_entries[page.i]]
    /\ UNCHANGED <<addVars, page, since, shown>>

\* What stands in the line after all: strncpy() fills up with zeros when the
\* text is shorter than the count, and when wridx goes on behind what was
\* copied, memory the line did not write is left in it.
Texts ==
    LET text == Length[read["copied"]]
        count == Length[read["measured"]]
        next == Length[read["stepped"]]
    IN  IF next <= text /\ next <= count
        THEN {IF next = text THEN "whole" ELSE "cut"}
        ELSE IF text < count THEN {"ends"} ELSE {"junk", "ends"}

\* A zero was sent: the browser gets nothing behind it.
Ended == shown # <<>> /\ shown[Len(shown)].text = "ends"

\* The end of a line
ShowLine ==
    /\ read' = NothingRead /\ since' = 0
    /\ \E text \in Texts :
          shown' = IF Ended THEN shown
                   ELSE Append(shown, [entry |-> read["copied"], text |-> text,
                                       shifted |-> since > 0])

\* Mutant: the index is advanced in the loop's body too.
Advance_twice ==
    /\ page.at = "step" /\ read["stepped"] # NULL
    /\ page' = [page EXCEPT !.at = "load", !.i = @ + 2]
    /\ ShowLine
    /\ UNCHANGED addVars

\* wridx goes on, logcount++
Advance ==
    /\ page.at = "step" /\ read["stepped"] # NULL
    /\ page' = [page EXCEPT !.at = "load", !.i = @ + 1]
    /\ ShowLine
    /\ UNCHANGED addVars

\* mongoose_serve_content()
Send ==
    /\ page.at = "load" /\ page.i >= page.numlogs
    /\ page' = [page EXCEPT !.at = "sent"]
    /\ UNCHANGED <<addVars, lineVars>>

Sent ==
    /\ page.at = "sent"
    /\ page' = NoPage /\ shown' = <<>>
    /\ UNCHANGED <<addVars, read, since>>

-----------------------------------------------------------------------------
Next ==
    \/ AddLog \/ Shift \/ Store
    \/ ServeLog \/ Count \/ (\E p \in Pointers : Load(p)) \/ Copy
    \/ Reload \/ Advance \/ Send \/ Sent

Spec == Init /\ [][Next]_vars

-----------------------------------------------------------------------------
(* Properties *)

Line == [entry : 1 .. adds, text : {"whole", "cut", "junk", "ends"},
         shifted : BOOLEAN]

\* Types; a line of the page never takes the text of an empty pointer.
TypeOK ==
    /\ log_entries \in [Slots -> 1 .. adds \cup {NULL}]
    /\ alive \subseteq 1 .. adds
    /\ add \in [at : {"idle", "shift", "store"}, i : Slots]
    /\ adds \in 0 .. MaxAdds
    /\ page \in [at : {"idle", "count", "load", "step", "sent"},
                 i : 0 .. NUM_LOG_ENTRIES, numlogs : 0 .. NUM_LOG_ENTRIES]
    /\ read \in [Pointers -> 1 .. adds \cup {NULL}]
    /\ since \in Nat
    /\ shown \in Seq(Line)
    /\ page.at = "step" => read["copied"] # NULL /\ read["measured"] # NULL

\* The reads whose text is still to be looked at.
InHand == {p \in Pointers : /\ read[p] # NULL
                            /\ page.at = "load" \/ p = "stepped"}

\* Every text mongoose_serve_log() measures or copies survives one call of
\* eq3_add_log() that overlaps its line: the page leaves out the last place of
\* the array, so an entry it reads moves there first and is freed by the call
\* after that.
HeldIsAlive == since < 2 => \A p \in InHand : read[p] \in alive

\* What the browser gets of the page has no gap: the next line is at most one
\* entry older, entries shifted meanwhile show twice.  The lines are whole
\* entries, and as many as were counted, unless eq3_add_log() overlaps a line:
\* that line can be cut, have junk in it, or be the last to arrive.
PageHasNoGap ==
    /\ \A i \in 1 .. Len(shown) - 1 : shown[i].entry <= shown[i + 1].entry + 1
    /\ \A i \in 1 .. Len(shown) : shown[i].text = "whole" \/ shown[i].shifted
    /\ page.at = "sent" => Len(shown) = page.numlogs \/ Ended

\* Between the calls the array holds the latest entries in order and nothing
\* else is allocated: none is lost, leaked or freed too early.
LatestKept ==
    add.at = "idle" =>
        /\ \A i \in Slots : log_entries[i] = IF i < adds THEN adds - i ELSE NULL
        /\ alive = Range(log_entries) \ {NULL}
=============================================================================
