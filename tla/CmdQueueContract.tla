-------------------------- MODULE CmdQueueContract --------------------------
(***************************************************************************)
(* What the rest of the hub relies on when it calls enqueue_command() and  *)
(* command_complete(): each call changes the queue at once, and only in    *)
(* the way CmdQueue says.                                                  *)
(***************************************************************************)
EXTENDS CmdQueue

CONSTANTS
    Devs, Cmds, Junk,   \* valves, commands, values of the unset bytes
    MAX_CMD_RETRIES,
    Ids                 \* requests, numbered in the order they arrive

VARIABLE queue

NewCommand == [bleda : Devs, cmd : Cmds, junk : Junk,
               retries : {MAX_CMD_RETRIES}, id : Ids]

Init == queue = <<>>

\* Requests are numbered as they arrive: none is older than a queued one.
Enqueue ==
    \E new \in NewCommand :
        /\ \A i \in 1 .. Len(queue) : queue[i].id < new.id
        /\ queue' = enqueue_command(queue, new)

Succeed == queue' = QueueAfterSuccess(queue)

Fail == queue' = QueueAfterFailure(queue)

Next == Enqueue \/ Succeed \/ Fail

Spec == Init /\ [][Next]_queue

-----------------------------------------------------------------------------
(* Properties *)

\* Of two commands for one valve the older one is carried out first, unless
\* it has failed: only a retry moves a command behind a newer one.
OrderKept(q) ==
    \A i, j \in 1 .. Len(q) :
        i < j /\ q[i].bleda = q[j].bleda /\ q[j].id < q[i].id
            => q[j].retries < MAX_CMD_RETRIES

QueueInOrder == OrderKept(queue)
=============================================================================
