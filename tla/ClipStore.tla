----------------------------- MODULE ClipStore ------------------------------
(***************************************************************************)
(* What publication promises the consumers of out_dir and of completions.  *)
(*                                                                         *)
(* Clips appear whole, each under a name of its own, and a name keeps its  *)
(* clip.  A power failure may take back a clip that was not yet made       *)
(* durable, and nothing else.  A completion announces durable clips only.  *)
(***************************************************************************)
CONSTANTS
    Handlers,   \* the handlers that store and announce
    Names,      \* names in out_dir
    Clips,      \* complete clips
    Nothing     \* what a free name stands for

VARIABLES
    store,      \* name -> the clip under it, or Nothing
    fixed,      \* names whose clips are durable
    announced   \* handler -> the names its completion told, {} before

storeVars == <<store, fixed, announced>>

Stored == {n \in Names : store[n] # Nothing}

StoreInit ==
    /\ store \in [Names -> Clips \cup {Nothing}]
    /\ fixed = Stored
    /\ announced = [h \in Handlers |-> {}]

Put(n) ==
    /\ UNCHANGED <<fixed, announced>>
    /\ store[n] = Nothing
    /\ \E c \in Clips : store' = [store EXCEPT ![n] = c]

Fix ==
    /\ UNCHANGED <<store, announced>>
    /\ fixed' = Stored

Tell(h) ==
    /\ UNCHANGED <<store, fixed>>
    /\ announced[h] = {}
    /\ announced'[h] \subseteq fixed
    /\ announced' = [announced EXCEPT ![h] = announced'[h]]

(* A power failure: any clips that are not fixed.                          *)
Lose ==
    /\ UNCHANGED <<fixed, announced>>
    /\ store' = [n \in Names |-> store'[n]]
    /\ \A n \in Names : \/ store'[n] = store[n]
                        \/ n \notin fixed /\ store'[n] = Nothing

StoreNext ==
    \/ Fix
    \/ \E h \in Handlers : Tell(h)
    \/ \E n \in Names : Put(n)
    \/ Lose

StoreSpec == StoreInit /\ [][StoreNext]_storeVars
=============================================================================
