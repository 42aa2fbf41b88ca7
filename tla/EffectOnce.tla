------------------------------ MODULE EffectOnce ------------------------------
(***************************************************************************)
(* What an idempotency key promises whoever sends it: the write sent under *)
(* a key happens at most once and for one payload, and whoever is told     *)
(* that a write happened is told the truth.                                *)
(***************************************************************************)
CONSTANTS Keys, Intents, None

VARIABLES
    effect,  \* the write that happened under each key, or None
    told     \* writes a client was told of, with the key it used

OnceTypeOK ==
    /\ effect \in [Keys -> Intents \cup {None}]
    /\ told \subseteq Keys \X Intents

Init ==
    /\ effect = [k \in Keys |-> None]
    /\ told = {}

Apply(k, i) ==
    /\ effect[k] = None
    /\ effect' = [effect EXCEPT ![k] = i]
    /\ UNCHANGED told

Tell(k, i) ==
    /\ effect[k] = i
    /\ told' = told \cup {<<k, i>>}
    /\ UNCHANGED effect

Next == \E k \in Keys, i \in Intents : Apply(k, i) \/ Tell(k, i)

Spec == Init /\ [][Next]_<<effect, told>>
==============================================================================
