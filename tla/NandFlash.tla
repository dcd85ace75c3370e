----------------------------- MODULE NandFlash ------------------------------
(***************************************************************************)
(* The NAND flash as the driver drives it, and the requests that tasks     *)
(* make of it (mtd_up.h).  The content of a page, data and metadata, is    *)
(* one value.                                                              *)
(***************************************************************************)
EXTENDS Integers

CONSTANTS
    Pages,
    Blocks,
    BlockOf,   \* the block of each page
    Data,      \* what may be programmed
    Empty,     \* content of an erased page
    Torn       \* content that the error correction cannot restore

ASSUME FlashAssumption ==
    /\ BlockOf \in [Pages -> Blocks]
    /\ Empty \notin Data /\ Torn \notin Data /\ Empty # Torn

Content == Data \cup {Empty, Torn}

Reads  == {"READ", "READ_META"}
Writes == {"WRITE", "WRITE_META"}

(* Where the driver is told to put or to take the data of a page: the      *)
(* caller's buffer, MTD_PageBuffer because the caller's is not aligned or  *)
(* holds a part of a page only, or nowhere (dhara_nand_is_free).           *)
(* MTD_WritePhyPageWithMeta does not initialise needToMoveData when the    *)
(* buffer is aligned: both places are possible for every write.            *)
Requests ==
    [opa : {"READ"}, page : Pages, data : {Empty},
     place : {"buf", "pageBuffer", "null"}]
    \cup [opa : {"READ_META"}, page : Pages, data : {Empty}, place : {"null"}]
    \cup [opa : Writes, page : Pages, data : Data,
          place : {"buf", "pageBuffer"}]
    \cup [opa : {"ERASE"}, page : Blocks, data : {Empty}, place : {"null"}]

(* Programming only clears bits: data on other data is good for nothing.   *)
Programmed(old, new) == IF old \in {Empty, new} THEN new ELSE Torn

(* The pages a request is about: an erase names a block.                   *)
Touches(r, p) == r.page = IF r.opa = "ERASE" THEN BlockOf[p] ELSE p

(* The flash after a request has been carried out.                         *)
After(store, r) ==
    [p \in Pages |-> IF r.opa \in Reads \/ ~Touches(r, p) THEN store[p]
                     ELSE IF r.opa = "ERASE" THEN Empty
                     ELSE Programmed(store[p], r.data)]

(* The flash after a write or an erase that the chip could not do.         *)
AfterFailure(store, r) ==
    [p \in Pages |-> IF r.opa \notin Reads /\ Touches(r, p) THEN Torn ELSE store[p]]

(* The status of a page as the readers of mtd_up.c know it.                *)
StatusOf(content) == CASE content = Torn  -> -1
                       [] content = Empty -> 1
                       [] OTHER           -> 0
=============================================================================
