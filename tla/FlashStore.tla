----------------------------- MODULE FlashStore -----------------------------
(***************************************************************************)
(* What the tasks of OSLoader expect of the flash behind mtd_up.h and of   *)
(* Dhara's nand.h: a task hands in one request and gets one answer, and    *)
(* the answer is true.  A read reports what the page holds, a success of a *)
(* write or an erase means that it took effect.                            *)
(***************************************************************************)
EXTENDS NandFlash

CONSTANTS
    Clients,   \* the tasks that use the flash
    NoRequest, NoReply

(* A reply is true of the flash.                                           *)
True(store, r, reply) ==
    /\ r.opa \in Reads =>
          /\ reply.status = StatusOf(store[r.page])
          /\ r.opa = "READ_META" \/ r.place # "null" => reply.content = store[r.page]
    /\ r.opa \in Writes /\ reply.status = 0 => store[r.page] = r.data
    /\ r.opa = "ERASE" /\ reply.status = 0 =>
          \A p \in Pages : Touches(r, p) => store[p] = Empty
-----------------------------------------------------------------------------
VARIABLES flash, request, reply

vars == <<flash, request, reply>>

Init ==
    /\ flash \in [Pages -> Content]
    /\ request = [c \in Clients |-> NoRequest]
    /\ reply = [c \in Clients |-> NoReply]

Ask(c) ==
    /\ request[c] = NoRequest
    /\ \E r \in Requests : request' = [request EXCEPT ![c] = r]
    /\ UNCHANGED <<flash, reply>>

(* The request takes effect, perhaps more than once.                       *)
CarryOut(c) ==
    /\ request[c] # NoRequest /\ reply[c] = NoReply
    /\ flash' \in {After(flash, request[c]), AfterFailure(flash, request[c])}
    /\ UNCHANGED <<request, reply>>

Answer(c) ==
    /\ request[c] # NoRequest /\ reply[c] = NoReply
    /\ \E s \in {-1, 0, 1}, d \in Content :
          /\ True(flash, request[c], [status |-> s, content |-> d])
          /\ reply' = [reply EXCEPT ![c] = [status |-> s, content |-> d]]
    /\ UNCHANGED <<flash, request>>

Take(c) ==
    /\ reply[c] # NoReply
    /\ reply' = [reply EXCEPT ![c] = NoReply]
    /\ request' = [request EXCEPT ![c] = NoRequest]
    /\ UNCHANGED flash

Next == \E c \in Clients : Ask(c) \/ CarryOut(c) \/ Answer(c) \/ Take(c)

Spec == Init /\ [][Next]_vars
=============================================================================
