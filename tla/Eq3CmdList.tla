---------------------------- MODULE Eq3CmdList ----------------------------
(***************************************************************************)
(* The command list of main/eq3_main.c as it is in memory: cells linked by *)
(* next pointers from cmdqueue, walked and relinked by enqueue_command()   *)
(* (called for every request) and command_complete() (called for every     *)
(* verdict) without a lock.                                                *)
(*                                                                         *)
(* A step is one access to a pointer another task can change.  With one    *)
(* task the calls follow each other, and the list implements the queue of  *)
(* CmdQueueContract; with two they overlap, as the web, MQTT, Bluetooth    *)
(* and main tasks of the hub can.                                          *)
(***************************************************************************)
EXTENDS Naturals, Sequences, FiniteSets, Functions

CONSTANTS
    Cells,              \* blocks malloc() can return
    NULL,
    Tasks,              \* the tasks that call
    Devs, Cmds, Junk,
    MAX_CMD_RETRIES,    \* 3
    MaxRequests         \* bound on the requests of one behaviour

ASSUME CmdListAssumption ==
    /\ IsFiniteSet(Cells) /\ NULL \notin Cells
    /\ MAX_CMD_RETRIES \in Nat \ {0}
    /\ MaxRequests \in Nat

VARIABLES
    cmdqueue,       \* pointer to the first cell
    heap,           \* the struct eq3cmd in each cell
    allocated,      \* cells malloc() gave out and free() did not take back
    call,           \* the call each task is in, with its local variables
    requests,       \* number of requests so far
    refused         \* history: cells whose command was "still pending"

vars == <<cmdqueue, heap, allocated, call, requests, refused>>

Ptr == Cells \cup {NULL}

Data == [bleda : Devs, cmd : Cmds, junk : Junk,
         retries : 0 .. MAX_CMD_RETRIES, id : 1 .. MaxRequests]

\* at: the statement to run next; new and last are enqueue_command()'s
\* newcmd and lastCommandForDevice, walk its qwalk and command_complete()'s
\* mvcmd or delcmd; charged: a retry was counted, the list not yet changed.
Idle == [at |-> "idle", new |-> NULL, last |-> NULL, walk |-> NULL,
         charged |-> FALSE]

Init ==
    /\ cmdqueue = NULL
    /\ heap = [c \in Cells |-> [next |-> NULL, data |-> NULL]]
    /\ allocated = {} /\ refused = {}
    /\ call = [t \in Tasks |-> Idle]
    /\ requests = 0

-----------------------------------------------------------------------------
(* Pieces of the steps *)

At(t, label) == call[t].at = label

Goto(t, label) == call' = [call EXCEPT ![t].at = label]

Return(t) == call' = [call EXCEPT ![t] = Idle]

SetNext(c, p) == heap' = [heap EXCEPT ![c].next = p]

\* Reading or writing through NULL stops the hub.
Crash(t) == Goto(t, "crashed") /\ UNCHANGED <<cmdqueue, heap>>

SameValve(c, d) == heap[c].data.bleda = heap[d].data.bleda

SameCommand(c, d) ==
    /\ heap[c].data.cmd = heap[d].data.cmd
    /\ heap[c].data.junk = heap[d].data.junk

\* Mutant: lastCommandForDevice stays at the first command for the valve.
VisitCell_first(t, c) ==
    call' = [call EXCEPT
        ![t].at = "walk", ![t].walk = c,
        ![t].last = IF @ = NULL /\ SameValve(c, call[t].new) THEN c ELSE @]

\* Moves qwalk to c, and lastCommandForDevice with it if c is for the valve.
VisitCell(t, c) ==
    call' = [call EXCEPT
        ![t].at = "walk", ![t].walk = c,
        ![t].last = IF SameValve(c, call[t].new) THEN c ELSE @]

-----------------------------------------------------------------------------
(* handle_request(): the new command, and enqueue_command() *)

NewRequest(t) ==
    /\ At(t, "idle") /\ requests < MaxRequests
    /\ \E c \in Cells \ allocated, d \in Devs, k \in Cmds, j \in Junk :
          /\ heap' = [heap EXCEPT ![c] = [next |-> NULL, data |->
                        [bleda |-> d, cmd |-> k, junk |-> j,
                         retries |-> MAX_CMD_RETRIES, id |-> requests + 1]]]
          /\ allocated' = allocated \cup {c}
          /\ call' = [call EXCEPT ![t] =
                        [Idle EXCEPT !.at = "test", !.new = c, !.walk = cmdqueue]]
    /\ requests' = requests + 1
    /\ UNCHANGED <<cmdqueue, refused>>

\* if(cmdqueue == NULL), with the comparison of the first cell
TestEmpty(t) ==
    /\ At(t, "test")
    /\ IF cmdqueue = NULL THEN Goto(t, "add_head")
       ELSE IF call[t].walk = NULL THEN Goto(t, "crashed")
       ELSE VisitCell(t, call[t].walk)
    /\ UNCHANGED <<cmdqueue, heap, allocated, requests, refused>>

AddHead(t) ==
    /\ At(t, "add_head") /\ Return(t)
    /\ cmdqueue' = call[t].new
    /\ UNCHANGED <<heap, allocated, requests, refused>>

\* qwalk = qwalk->next, while there is one
Walk(t) ==
    /\ At(t, "walk")
    /\ LET next == heap[call[t].walk].next IN
       IF next # NULL THEN VisitCell(t, next) ELSE Goto(t, "add_end")
    /\ UNCHANGED <<cmdqueue, heap, allocated, requests, refused>>

Pending(t) == call[t].last # NULL /\ SameCommand(call[t].last, call[t].new)

\* Mutant: the new command is put in front.
AddEnd_front(t) ==
    /\ At(t, "add_end") /\ Return(t)
    /\ cmdqueue' = call[t].new /\ SetNext(call[t].new, cmdqueue)
    /\ UNCHANGED <<refused, allocated, requests>>

\* The command is dropped if it is the valve's last one already; its block
\* is not freed.
AddEnd(t) ==
    /\ At(t, "add_end") /\ Return(t)
    /\ IF Pending(t)
       THEN refused' = refused \cup {call[t].new} /\ UNCHANGED heap
       ELSE SetNext(call[t].walk, call[t].new) /\ UNCHANGED refused
    /\ UNCHANGED <<cmdqueue, allocated, requests>>

-----------------------------------------------------------------------------
(* command_complete() *)

Succeeded(t) ==
    /\ At(t, "idle") /\ cmdqueue # NULL
    /\ Goto(t, "delete")
    /\ UNCHANGED <<cmdqueue, heap, allocated, requests, refused>>

Exhausted(c) == heap[c].data.retries <= 1

\* --cmdqueue->retries, and the decision
Failed(t) ==
    /\ At(t, "idle") /\ cmdqueue # NULL
    /\ heap' = [heap EXCEPT ![cmdqueue].data.retries = @ - 1]
    /\ call' = IF Exhausted(cmdqueue)
               THEN [call EXCEPT ![t].at = "delete", ![t].charged = TRUE]
               ELSE IF heap[cmdqueue].next = NULL THEN call
               ELSE [call EXCEPT ![t].at = "find_tail", ![t].walk = cmdqueue,
                                 ![t].charged = TRUE]
    /\ UNCHANGED <<cmdqueue, allocated, requests, refused>>

FindTail(t) ==
    /\ At(t, "find_tail")
    /\ LET next == heap[call[t].walk].next IN
       call' = IF next # NULL THEN [call EXCEPT ![t].walk = next]
               ELSE [call EXCEPT ![t].at = "attach"]
    /\ UNCHANGED <<cmdqueue, heap, allocated, requests, refused>>

\* mvcmd->next = cmdqueue
AttachHead(t) ==
    /\ At(t, "attach") /\ Goto(t, "advance")
    /\ SetNext(call[t].walk, cmdqueue)
    /\ UNCHANGED <<cmdqueue, allocated, requests, refused>>

\* cmdqueue = cmdqueue->next
Advance(t) ==
    /\ At(t, "advance")
    /\ IF cmdqueue = NULL THEN Crash(t)
       ELSE /\ cmdqueue' = heap[cmdqueue].next
            /\ call' = [call EXCEPT ![t].at = "detach", ![t].charged = FALSE]
            /\ UNCHANGED heap
    /\ UNCHANGED <<allocated, requests, refused>>

\* Mutant: the new tail keeps its pointer to the new head.
DetachHead_not(t) ==
    /\ At(t, "detach") /\ Return(t)
    /\ UNCHANGED <<cmdqueue, heap, allocated, requests, refused>>

\* mvcmd->next->next = NULL
DetachHead(t) ==
    /\ At(t, "detach")
    /\ IF heap[call[t].walk].next = NULL THEN Crash(t)
       ELSE SetNext(heap[call[t].walk].next, NULL) /\ Return(t)
    /\ UNCHANGED <<cmdqueue, allocated, requests, refused>>

\* delcmd = cmdqueue; cmdqueue = cmdqueue->next
DeleteHead(t) ==
    /\ At(t, "delete")
    /\ IF cmdqueue = NULL THEN Return(t) /\ UNCHANGED cmdqueue
       ELSE /\ cmdqueue' = heap[cmdqueue].next
            /\ call' = [call EXCEPT ![t].at = "free", ![t].walk = cmdqueue,
                                    ![t].charged = FALSE]
    /\ UNCHANGED <<heap, allocated, requests, refused>>

\* Mutant: the deleted command is not freed.
FreeCell_not(t) ==
    /\ At(t, "free") /\ Return(t)
    /\ UNCHANGED <<cmdqueue, heap, allocated, requests, refused>>

FreeCell(t) ==
    /\ At(t, "free") /\ Return(t)
    /\ allocated' = allocated \ {call[t].walk}
    /\ UNCHANGED <<cmdqueue, heap, requests, refused>>

-----------------------------------------------------------------------------
CallStep(t) ==
    \/ TestEmpty(t) \/ AddHead(t) \/ Walk(t) \/ AddEnd(t)
    \/ FindTail(t) \/ AttachHead(t) \/ Advance(t) \/ DetachHead(t)
    \/ DeleteHead(t) \/ FreeCell(t)

Next == \E t \in Tasks :
    NewRequest(t) \/ Succeeded(t) \/ Failed(t) \/ CallStep(t)

Spec == Init /\ [][Next]_vars

\* A task that is in a call goes on with it.
FairSpec == Spec /\ \A t \in Tasks : WF_vars(CallStep(t))

-----------------------------------------------------------------------------
(* The list as a sequence *)

\* s is the list: the cells from cmdqueue on, up to NULL or to one met again.
IsList(s) ==
    /\ IF s = <<>> THEN cmdqueue = NULL ELSE cmdqueue = s[1]
    /\ \A i \in 1 .. Len(s) - 1 : heap[s[i]].next = s[i + 1]
    /\ IsInjective(s)
    /\ s # <<>> => heap[s[Len(s)]].next \in Range(s) \cup {NULL}

List == CHOOSE s \in UNION {[1 .. n -> Cells] : n \in 0 .. Cardinality(Cells)} : IsList(s)

\* A failure counts from the moment the list is changed.
queue ==
    [i \in 1 .. Len(List) |->
        LET c == List[i] IN
        [heap[c].data EXCEPT !.retries =
            IF i = 1 /\ \E t \in Tasks : call[t].charged THEN @ + 1 ELSE @]]

Contract == INSTANCE CmdQueueContract WITH Ids <- 1 .. MaxRequests

-----------------------------------------------------------------------------
(* Properties *)

Places == {"idle", "test", "add_head", "walk", "add_end", "find_tail", "attach",
           "advance", "detach", "delete", "free", "crashed"}

\* Types; a command that waits in the list has a retry left.
TypeOK ==
    /\ cmdqueue \in Ptr /\ allocated \subseteq Cells /\ refused \subseteq Cells
    /\ heap \in [Cells -> [next : Ptr, data : Data \cup {NULL}]]
    /\ call \in [Tasks -> [at : Places, new : Ptr, last : Ptr, walk : Ptr,
                           charged : BOOLEAN]]
    /\ requests \in 0 .. MaxRequests
    /\ \A i \in 1 .. Len(queue) : queue[i].retries \in 1 .. MAX_CMD_RETRIES

\* Calls that do not overlap make of the list what the queue operators of
\* the engine say: the pointers of REQUEUE_RETRY rotate it, the duplicate
\* test looks at the last command of the valve, nothing else changes.
ImplementsQueue == Contract!Spec

\* Between the calls every block that was allocated is in the list or was
\* refused as a duplicate: no command is lost, none is kept after its end.
NothingLost ==
    (\A t \in Tasks : call[t] = Idle) => allocated = Range(List) \cup refused

\* An older command of a valve is behind a newer one only after a failure.
ListInOrder == Contract!OrderKept(queue)

\* Every call returns: its walk never enters a circle of pointers.
CallReturns == \A t \in Tasks : (call[t] # Idle) ~> (call[t] = Idle)
=============================================================================
