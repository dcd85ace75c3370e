---------------------------- MODULE SectorStore -----------------------------
(***************************************************************************)
(* What OSLoader expects of the flash translation layer: a disk of sectors *)
(* on which every operation takes effect at once or not at all and is      *)
(* answered truly, and which a reset takes back to a state it has had as a *)
(* whole, not older than the last sync.                                    *)
(***************************************************************************)
CONSTANTS
    Sectors,
    Data,      \* what a sector may hold
    Blank,     \* a sector that was never written or has been trimmed
    Clients,   \* the tasks that use the disk
    NoRequest, NoReply

Content == Data \cup {Blank}

Requests ==
    [op : {"read", "trim"}, sector : Sectors, data : {Blank}]
    \cup [op : {"write"}, sector : Sectors, data : Data]
    \cup [op : {"sync", "clear"}, sector : {NoRequest}, data : {Blank}]

Replies == [ok : BOOLEAN, data : Content]

(* The sectors after a request has been carried out.                       *)
After(sec, r) ==
    CASE r.op = "write" -> [sec EXCEPT ![r.sector] = r.data]
      [] r.op = "trim"  -> [sec EXCEPT ![r.sector] = Blank]
      [] r.op = "clear" -> [s \in Sectors |-> Blank]
      [] OTHER          -> sec

Failure == [ok |-> FALSE, data |-> Blank]
Success(sec, r) ==
    [ok |-> TRUE, data |-> IF r.op = "read" THEN sec[r.sector] ELSE Blank]
-----------------------------------------------------------------------------
VARIABLES
    sectors,   \* what a read finds
    durable,   \* what it would find after a reset
    request, reply

vars == <<sectors, durable, request, reply>>

Init ==
    /\ sectors \in [Sectors -> Content] /\ durable = sectors
    /\ request = [c \in Clients |-> NoRequest]
    /\ reply = [c \in Clients |-> NoReply]

Ask(c) ==
    /\ request[c] = NoRequest
    /\ \E r \in Requests : request' = [request EXCEPT ![c] = r]
    /\ UNCHANGED <<sectors, durable, reply>>

Pending(c) == request[c] # NoRequest /\ reply[c] = NoReply

(* The request takes effect.  The disk may be checkpointed by the way; a   *)
(* sync leaves nothing that a reset would undo.                            *)
CarryOut(c) ==
    /\ Pending(c)
    /\ sectors' = After(sectors, request[c])
    /\ durable' \in {durable, sectors'}
    /\ request[c].op = "sync" => durable' = sectors'
    /\ reply' = [reply EXCEPT ![c] = Success(sectors, request[c])]
    /\ UNCHANGED request

(* The request fails, and the disk is as it was.                           *)
Refuse(c) ==
    /\ Pending(c)
    /\ reply' = [reply EXCEPT ![c] = Failure]
    /\ UNCHANGED <<sectors, durable, request>>

Checkpoint ==
    /\ durable' = sectors
    /\ UNCHANGED <<sectors, request, reply>>

Take(c) ==
    /\ reply[c] # NoReply
    /\ request' = [request EXCEPT ![c] = NoRequest]
    /\ reply' = [reply EXCEPT ![c] = NoReply]
    /\ UNCHANGED <<sectors, durable>>

(* Power fails, or the board is reset; a checkpoint may just have been     *)
(* finished, and a request that was not answered may have taken effect.    *)
Reset ==
    /\ sectors' = durable'
    /\ durable' \in {durable, sectors}
          \cup {After(sectors, request[c]) : c \in {d \in Clients : Pending(d)}}
    /\ request' = [c \in Clients |-> NoRequest]
    /\ reply' = [c \in Clients |-> NoReply]

Next ==
    \/ \E c \in Clients : Ask(c) \/ CarryOut(c) \/ Refuse(c) \/ Take(c)
    \/ Checkpoint
    \/ Reset

Spec == Init /\ [][Next]_vars
=============================================================================
