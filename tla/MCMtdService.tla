---------------------------- MODULE MCMtdService ----------------------------
(***************************************************************************)
(* Small instances of MtdService.  Pages and callers are not symmetric in  *)
(* the refinement mapping, so none is declared.                            *)
(***************************************************************************)
EXTENDS MtdService

CONSTANTS c1, c2, p1, p2, b1, d1

MCClients == {c1, c2}
MCPages   == {p1, p2}
OnePage   == {p1}
MCBlocks  == {b1}
MCBlockOf == [p \in Pages |-> b1]
MCData    == {d1}

\* Every request, and those that use a buffer of their own.
Everything == Requests
OwnBuffer == {r \in Requests : r.place = IF r.opa \in {"READ_META", "ERASE"}
                                          THEN "null" ELSE "buf"}

ASSUME b1 \notin MCPages
=============================================================================
