--------------------------- MODULE MetadataStore ---------------------------
(* The SurrealDB metadata store of the hosted server.  It keeps one table   *)
(* per part of the server state.  A save deletes the tables one after the   *)
(* other and then writes the records again, in the order of the tables and  *)
(* without a transaction; a load takes what it finds.  "order" gives the    *)
(* place of each table in a save.                                           *)
EXTENDS Integers, FiniteSets

StoppedDeleting(order, blank, old) ==
    {[t \in DOMAIN old |-> IF order[t] <= done THEN blank[t] ELSE old[t]] :
        done \in 0 .. Cardinality(DOMAIN old)}

StoppedWriting(order, blank, old, new) ==
    {[t \in DOMAIN old |-> IF order[t] <= done THEN new[t] ELSE blank[t]] :
        done \in 0 .. Cardinality(DOMAIN old)}

(* What the store may hold when a save of "new" over "old" stops early, to  *)
(* the table: of the table it stops in, the records are all there or none.  *)
StoppedSaves(order, blank, old, new) ==
    StoppedDeleting(order, blank, old) \cup StoppedWriting(order, blank, old, new)
=============================================================================
