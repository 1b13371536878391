------------------------------ MODULE StockGate ------------------------------
(***************************************************************************)
(* What the Redis side of the flash sale promises to the rest of it: the   *)
(* key "goods:<id>" is one atomic counter.  A sale takes a unit only while *)
(* a unit is left and from then on the unit is held; only a held unit is   *)
(* put back; and the counter takes an arbitrary value only when a start of *)
(* the application overwrites it.  The WATCH / GET / MULTI / DECR / EXEC   *)
(* conversation of GoodsServiceImpl.checkGoodsCount is several round trips *)
(* with other writers in between; Seckill shows that it implements Sell.   *)
(***************************************************************************)
EXTENDS Integers

VARIABLES
    cached,     \* the key exists
    stock,      \* its value
    held,       \* units taken by a sale and not put back
    loading     \* a start has read the new value and not written it yet

gateVars == <<cached, stock, held, loading>>

Init == cached = FALSE /\ stock = 0 /\ held = 0 /\ loading = FALSE

Sell ==
    /\ cached /\ stock > 0
    /\ stock' = stock - 1
    /\ held' = held + 1
    /\ UNCHANGED <<cached, loading>>

Restock ==
    /\ cached /\ held > 0
    /\ stock' = stock + 1
    /\ held' = held - 1
    /\ UNCHANGED <<cached, loading>>

BeginLoad == ~loading /\ loading' = TRUE /\ UNCHANGED <<cached, stock, held>>

Load ==
    /\ loading /\ loading' = FALSE
    /\ cached' = TRUE /\ stock' \in Nat
    /\ UNCHANGED held

AbandonLoad == loading /\ loading' = FALSE /\ UNCHANGED <<cached, stock, held>>

Next == Sell \/ Restock \/ BeginLoad \/ Load \/ AbandonLoad

Spec == Init /\ [][Next]_gateVars
=============================================================================
