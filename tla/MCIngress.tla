------------------------------ MODULE MCIngress -----------------------------
(* Instance of Ingress: three connections for two slots and a queue of two. *)
(* Two connections carry writes, which fill the queue, the third a read that *)
(* is refused or displaced; the second may be malformed behind a good event. *)
EXTENDS Ingress

ev(type, subject) == [type |-> type, subject |-> subject]

Write     == <<ev("file_created", "a"), ev("file_modified", "a")>>
Read      == <<ev("file_read", "a")>>
Malformed == <<ev("activity", "s"), ev("malformed", "a")>>

MCPayloads == <<{Write}, {Write, Malformed}, {Read}>>
=============================================================================
