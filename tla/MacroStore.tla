----------------------------- MODULE MacroStore -----------------------------
(***************************************************************************)
(* What the macro storage promises: a partial map from trigger keys to     *)
(* what they start, at most Capacity of them, one recording at a time and  *)
(* a playback that sends exactly the events that were recorded.  A host    *)
(* request that falls into a recording voids the promise until a reset.    *)
(***************************************************************************)
EXTENDS Naturals, Sequences, FiniteSets, Functions

CONSTANTS
    Capacity,  \* triggers that fit
    Triggers,  \* trigger keys
    Events,    \* recorded key events
    Factory    \* the map after a full reset

VARIABLES
    store,     \* trigger -> [type, ...]
    recording, \* <<>>, or the trigger and the events recorded so far
    playing,   \* the events still to be sent
    lost       \* whether the promise is void

storeVars == <<store, recording, playing, lost>>

Macro(events) == [type |-> "MACRO", events |-> events]

Without(k) == Restrict(store, DOMAIN store \ {k})

With(k, entry) ==
    [j \in DOMAIN store \cup {k} |-> IF j = k THEN entry ELSE store[j]]

Idle == recording = <<>> /\ playing = <<>>

\* Recording a trigger forgets what it started before.
Start(k) ==
    /\ Idle
    /\ k \in DOMAIN store \/ Cardinality(DOMAIN store) < Capacity
    /\ store' = Without(k)
    /\ recording' = <<k, <<>>>>
    /\ UNCHANGED playing

Append1(e) ==
    /\ recording # <<>>
    /\ recording' = <<recording[1], Append(recording[2], e)>>
    /\ UNCHANGED <<store, playing>>

\* An empty recording is how a macro is deleted.
Commit ==
    /\ recording # <<>>
    /\ store' = IF recording[2] = <<>> THEN store
                ELSE With(recording[1], Macro(recording[2]))
    /\ recording' = <<>>
    /\ UNCHANGED playing

Abort ==
    /\ recording # <<>>
    /\ recording' = <<>>
    /\ UNCHANGED <<store, playing>>

Play(k) ==
    /\ Idle
    /\ k \in DOMAIN store /\ store[k].type = "MACRO"
    /\ playing' = store[k].events
    /\ UNCHANGED <<store, recording>>

PlayEvent ==
    /\ playing # <<>>
    /\ playing' = Tail(playing)
    /\ UNCHANGED <<store, recording>>

\* The client application gives a free trigger a program, also during a playback.
AddProgram(k) ==
    /\ recording = <<>>
    /\ k \notin DOMAIN store /\ Cardinality(DOMAIN store) < Capacity
    /\ store' = With(k, [type |-> "PROGRAM"])
    /\ UNCHANGED <<recording, playing>>

\* What the keyboard promises.
Kept ==
    \/ \E k \in Triggers : Start(k) \/ Play(k) \/ AddProgram(k)
    \/ \E e \in Events : Append1(e)
    \/ Commit \/ Abort \/ PlayEvent

\* Outside a recording a reset brings the factory macros back, whatever was there.
\* A playback goes on for as long as it would have, with what is stored now.
Reset ==
    /\ recording = <<>>
    /\ store' = Factory /\ ~lost'
    /\ recording' = <<>> /\ Len(playing') = Len(playing)

\* The host resets or rewrites what is being recorded; anything may follow.
Lose == lost' /\ (lost \/ recording # <<>>)

StoreNext == (~lost /\ ~lost' /\ Kept) \/ Reset \/ Lose

StoreSpec == store = Factory /\ Idle /\ ~lost /\ [][StoreNext]_storeVars
=============================================================================
