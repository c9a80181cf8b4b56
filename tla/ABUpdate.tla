------------------------------- MODULE ABUpdate -------------------------------
(***************************************************************************)
(* What the A/B upgrade promises, without pages, saves or sessions: an     *)
(* image is replaced in the slot that is neither relied on nor on trial,   *)
(* put on trial as a whole, and relied on only after it has run.           *)
(***************************************************************************)
CONSTANTS Slots, None, Images, NoImage

VARIABLES
    stable,    \* the slot the device relies on
    trial,     \* the slot on trial, or None
    running,   \* the slot whose application runs, or None
    whole      \* per slot, the whole image it holds, or NoImage

abstract == <<stable, trial, running, whole>>

Init ==
    /\ stable \in Slots
    /\ trial = None /\ running = None
    /\ whole \in [Slots -> Images \cup {NoImage}]
    /\ whole[stable] # NoImage

\* The loader changes the slot that is not relied on.
Replace(s) ==
    /\ s # stable /\ trial = None /\ running = None
    /\ \E i \in Images \cup {NoImage} : whole' = [whole EXCEPT ![s] = i]
    /\ UNCHANGED <<stable, trial, running>>

\* A whole image is put on trial.
Stage(s) ==
    /\ s # stable /\ trial = None /\ running = None /\ whole[s] # NoImage
    /\ trial' = s
    /\ UNCHANGED <<stable, running, whole>>

\* The trial is given up, by a new download or a rollback.
GiveUp ==
    /\ running = None
    /\ trial' = None
    /\ UNCHANGED <<stable, running, whole>>

Start(s) ==
    /\ running = None /\ s \in {stable, trial} \ {None}
    /\ running' = s
    /\ UNCHANGED <<stable, trial, whole>>

Stop ==
    /\ running' = None
    /\ UNCHANGED <<stable, trial, whole>>

\* The running slot is the one to rely on from now.
Rely ==
    /\ running # None
    /\ stable' = running /\ trial' = None
    /\ UNCHANGED <<running, whole>>

Next ==
    \/ \E s \in Slots : Replace(s) \/ Stage(s) \/ Start(s)
    \/ GiveUp \/ Stop \/ Rely

Spec == Init /\ [][Next]_abstract
=============================================================================
