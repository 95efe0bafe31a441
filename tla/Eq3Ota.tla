------------------------------- MODULE Eq3Ota -------------------------------
(***************************************************************************)
(* The firmware upload of main/eq3_bootwifi.c: MG_EV_HTTP_CHUNK events for *)
(* /otaupload, which Mongoose delivers from every open connection to one   *)
(* handler with one set of static variables, and the OTA functions of      *)
(* ESP-IDF that write and check the image (external).                      *)
(*                                                                         *)
(* The body of an upload is a sequence of units <<u, k>>: the multipart    *)
(* header, the file, and the closing boundary as the last unit.            *)
(***************************************************************************)
EXTENDS Integers, Sequences, SequencesExt

CONSTANTS
    Uploads,        \* connections that post to /otaupload
    BodyLen,        \* units of each body (Content-Length)
    HeaderLen,      \* units of the multipart header; the last ends in CRLF CRLF
    MaxRead,        \* most units of one read_conn()
    Damaged,        \* uploads whose file is not an intact firmware image
    Factory,        \* the image the hub was delivered with
    NULL

ASSUME OtaAssumption ==
    /\ HeaderLen \in Nat \ {0} /\ MaxRead \in Nat \ {0}
    /\ BodyLen \in [Uploads -> Nat]
    /\ \A u \in Uploads : BodyLen[u] > HeaderLen + 1 /\ BodyLen[u] > MaxRead
    /\ Damaged \subseteq Uploads
    /\ NULL \notin {0, 1}

VARIABLES
    conn,       \* each upload's connection, and how much of the body arrived
    ota,        \* the static variables of the handler
    handle,     \* external: slots with an open OTA handle
    flash,      \* external: the contents of the two application slots
    boot,       \* external: the slot otadata names
    running,    \* external: the slot this firmware runs from
    session     \* history: who wrote since esp_ota_begin(), and what failed

vars == <<conn, ota, handle, flash, boot, running, session>>

Slots == {0, 1}

NoUpdate == [update_partition |-> NULL, handle_valid |-> FALSE, remlen |-> 0,
             size |-> 0, success |-> FALSE]

NoSession == [of |-> {}, whole |-> FALSE, fault |-> FALSE, slot |-> NULL]

Init ==
    /\ conn = [u \in Uploads |-> [state |-> "open", sent |-> 0]]
    /\ ota = NoUpdate
    /\ handle = {}
    /\ flash = [s \in Slots |-> IF s = 0 THEN <<Factory>> ELSE <<>>]
    /\ boot = 0 /\ running = 0
    /\ session = NoSession

-----------------------------------------------------------------------------
(* ESP-IDF (external) *)

\* Units a + 1 to b of a body.
Units(u, a, b) == [i \in 1 .. b - a |-> <<u, a + i>>]

Image(u) == Units(u, HeaderLen, BodyLen[u] - 1)

Holds(content, u) == u \notin Damaged /\ IsPrefix(Image(u), content)

\* What esp_ota_end(), esp_ota_set_boot_partition() and the bootloader
\* verify; bytes behind the image do not matter.
Verified(content) ==
    \/ IsPrefix(<<Factory>>, content)
    \/ \E u \in Uploads : Holds(content, u)

\* Mutant: the slot after the one that boots next.
NextUpdatePartition_boot == 1 - boot

\* esp_ota_get_next_update_partition(NULL)
NextUpdatePartition == 1 - running

\* esp_ota_write() looks at the first byte of an image; from is the number of
\* units before the ones written.
BadStart(content, from) == Len(content) = 0 /\ from # HeaderLen

-----------------------------------------------------------------------------
(* The handler of MG_EV_HTTP_CHUNK *)

\* Mutant: the blank line that ends the header is left in the data.
SkipHeader_short(from, n) ==
    IF from > 0 \/ n < HeaderLen THEN 0 ELSE HeaderLen - 1

\* The length of what is left out of a first chunk: one that starts with "--"
\* is skipped up to and with its first blank line, or to its end.
SkipHeader(from, n) ==
    IF from > 0 THEN 0 ELSE IF n < HeaderLen THEN n ELSE HeaderLen

\* Mutant: the header is not counted as received.
BeginUpdate_counts(u, n, begun) ==
    [update_partition |-> NextUpdatePartition, handle_valid |-> begun,
     remlen |-> BodyLen[u] - (n - SkipHeader(conn[u].sent, n)),
     size |-> 0, success |-> FALSE]

\* The branch for update_partition == NULL, for a chunk of n units.
BeginUpdate(u, n, begun) ==
    [update_partition |-> NextUpdatePartition, handle_valid |-> begun,
     remlen |-> BodyLen[u] - n, size |-> 0, success |-> FALSE]

\* Mutant: the last byte has to be missing.
Received_over(o) == o.remlen < 0

Received(o) == o.remlen <= 0

\* Mutant: the handle of a refused image is forgotten, not ended.
CloseRefused_not(slot, open) == open

\* esp_ota_end() after ESP_ERR_OTA_VALIDATE_FAILED
CloseRefused(slot, open) == open \ {slot}

\* One event: the first branch, the write, and the end of the update, with
\* the answer.  begun and wrote are the results of esp_ota_begin() and of
\* esp_ota_write(); of an error other than a refused image nothing is kept.
HandleChunk(u, n, begun, wrote) ==
    LET first == ota.update_partition = NULL
        o1 == IF first THEN BeginUpdate(u, n, begun)
              ELSE [ota EXCEPT !.remlen = @ - n]
        slot == o1.update_partition
        open1 == IF first /\ begun THEN handle \cup {slot} ELSE handle
        flash1 == IF first /\ begun THEN [flash EXCEPT ![slot] = <<>>] ELSE flash
        skip == IF first THEN SkipHeader(conn[u].sent, n) ELSE 0
        from == conn[u].sent + skip
        writes == n > skip /\ o1.handle_valid
        refused == writes /\ BadStart(flash1[slot], from)
        o2 == [o1 EXCEPT !.size = IF writes THEN @ + (n - skip) ELSE @,
                         !.handle_valid = @ /\ ~refused]
        open2 == IF refused THEN CloseRefused(slot, open1) ELSE open1
        flash2 == IF writes /\ ~refused /\ wrote
                  THEN [flash1 EXCEPT ![slot] = @ \o Units(u, from, conn[u].sent + n)]
                  ELSE flash1
        done == Received(o2)
        ends == done /\ o2.handle_valid
    IN  /\ flash' = flash2
        /\ handle' = IF ends THEN open2 \ {slot} ELSE open2
        /\ boot' = IF ends /\ Verified(flash2[slot]) THEN slot ELSE boot
        /\ ota' = IF done
                  THEN [o2 EXCEPT !.update_partition = NULL, !.handle_valid = FALSE,
                                  !.success = @ \/ ends]
                  ELSE o2
        /\ conn' = [conn EXCEPT ![u].sent = @ + n,
                                ![u].state = IF done THEN "draining" ELSE @]
        /\ session' =
             [of |-> {u} \cup IF first THEN {} ELSE session.of,
              whole |-> IF first THEN conn[u].sent = 0 /\ n >= HeaderLen
                        ELSE session.whole,
              fault |-> \/ first /\ ~begun
                        \/ writes /\ ~wrote
                        \/ ~first /\ session.fault,
              slot |-> slot]

-----------------------------------------------------------------------------
(* Mongoose, the clients and the hub *)

Connected(u) == conn[u].state \in {"open", "draining"}

\* read_conn() and http_cb(): what arrived is the chunk.  The read that brings
\* the request's headers may bring nothing else; during another update such
\* an empty chunk does nothing.
Read(u) ==
    /\ Connected(u) /\ conn[u].sent < BodyLen[u]
    /\ \E n \in 0 .. MaxRead, begun, wrote \in BOOLEAN :
          /\ n = 0 => conn[u].sent = 0 /\ ota.update_partition = NULL
          /\ conn[u].sent + n <= BodyLen[u]
          /\ HandleChunk(u, n, begun, wrote)
    /\ UNCHANGED running

\* The answer is written, and the draining connection is closed.
Close(u) ==
    /\ conn[u].state = "draining"
    /\ conn' = [conn EXCEPT ![u].state = "answered"]
    /\ UNCHANGED <<ota, handle, flash, boot, running, session>>

\* The client goes away; nothing of the update is undone.
BreakOff(u) ==
    /\ Connected(u)
    /\ conn' = [conn EXCEPT ![u].state = "broken"]
    /\ UNCHANGED <<ota, handle, flash, boot, running, session>>

\* The hub restarts; the bootloader takes the other slot if the one otadata
\* names does not verify.
Restart ==
    /\ running' = IF Verified(flash[boot]) THEN boot ELSE 1 - boot
    /\ ota' = NoUpdate /\ handle' = {} /\ session' = NoSession
    /\ conn' = [u \in Uploads |->
                  IF Connected(u) /\ conn[u].sent > 0
                  THEN [conn[u] EXCEPT !.state = "broken"] ELSE conn[u]]
    /\ UNCHANGED <<flash, boot>>

Next == Restart \/ \E u \in Uploads : Read(u) \/ Close(u) \/ BreakOff(u)

Spec == Init /\ [][Next]_vars

\* A client that does not go away sends what it announced.
FairSpec == Spec /\ \A u \in Uploads : WF_vars(Read(u)) /\ WF_vars(Close(u))

-----------------------------------------------------------------------------
(* Properties *)

\* Types; an update in progress waits for at least one more byte.
TypeOK ==
    /\ conn \in [Uploads -> [state : {"open", "draining", "answered", "broken"},
                             sent : Nat]]
    /\ \A u \in Uploads : conn[u].sent <= BodyLen[u]
    /\ ota \in [update_partition : Slots \cup {NULL}, handle_valid : BOOLEAN,
                remlen : Int, size : Nat, success : BOOLEAN]
    /\ flash \in [Slots -> Seq((Uploads \X Nat) \cup {Factory})]
    /\ handle \subseteq Slots /\ boot \in Slots /\ running \in Slots
    /\ session \in [of : SUBSET Uploads, whole : BOOLEAN, fault : BOOLEAN,
                    slot : Slots \cup {NULL}]
    /\ ota.update_partition # NULL => ota.remlen > 0

\* ota_handle_valid tells exactly whether a handle is open, whatever broken
\* and overlapping uploads do: none is leaked and no closed one is used.
OneHandle ==
    handle = IF ota.handle_valid THEN {ota.update_partition} ELSE {}

\* The slot the hub runs from keeps a complete image through every broken,
\* mixed or repeated upload and every restart, also when an upload replaces
\* one that was installed and not started yet.
RunningIntact == Verified(flash[running])

\* An upload that has the handler for itself, whose first chunk holds the
\* whole multipart header and whose writes succeed is installed exactly: the
\* file starts the slot, the slot is the next to boot, and success is shown.
CleanUploadInstalled ==
    \A u \in Uploads \ Damaged :
        ( /\ session.of = {u} /\ session.whole /\ ~session.fault
          /\ ota.update_partition = NULL )
            => /\ ota.success /\ ota.size = BodyLen[u] - HeaderLen
               /\ boot = session.slot /\ Holds(flash[boot], u)

\* An upload that has the handler for itself from its first byte on comes to
\* its answer, also after a failed begin, a refused image or a failed write.
UploadAnswered ==
    \A u \in Uploads :
        (ota.update_partition # NULL /\ session.of = {u} /\ session.whole)
            ~> (ota.update_partition = NULL \/ session.of # {u} \/ ~Connected(u))

\* "Firmware upload success ... to apply new image": the page promises the
\* file will be run after the restart.  The results of esp_ota_write(),
\* esp_ota_end() and esp_ota_set_boot_partition() are not looked at.
SuccessMeansInstalled ==
    ota.success => \E u \in session.of : Holds(flash[boot], u)
=============================================================================
