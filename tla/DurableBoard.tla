----------------------------- MODULE DurableBoard -----------------------------
(***************************************************************************)
(* What a whiteboard promises its users, without sockets, snapshots or     *)
(* saves.  There is one board; who is shown it is shown all of it and gets *)
(* every later stroke; only who is shown it draws.  Storage follows        *)
(* behind, never ahead, and may only be relied upon alone (the board is    *)
(* no longer held in memory) when it has every stroke.  Once the promise   *)
(* is broken nothing more is promised.                                     *)
(***************************************************************************)
CONSTANTS Clients, Strokes, Initial, NoView

VARIABLES
    board,   \* every stroke that was ever drawn
    stored,  \* what the storage has of them
    held,    \* the board is held in memory
    view,    \* what each client is shown, or NoView
    broken   \* a stroke may be missing from now on

vars == <<board, stored, held, view, broken>>

Init ==
    /\ board = Initial
    /\ stored = Initial
    /\ held = FALSE
    /\ view = [c \in Clients |-> NoView]
    /\ broken = FALSE

\* The whole board, to one client or to nobody who is still there.
Load ==
    /\ held' = TRUE
    /\ view' = view \/ \E c \in Clients : view' = [view EXCEPT ![c] = board]
    /\ UNCHANGED <<board, stored, broken>>

Draw(c, e) ==
    /\ held /\ view[c] = board /\ e \notin board
    /\ board' = board \cup {e}
    /\ view' = [d \in Clients |->
                  IF view[d] = NoView THEN NoView ELSE view[d] \cup {e}]
    /\ UNCHANGED <<stored, held, broken>>

Leave(c) ==
    /\ view' = [view EXCEPT ![c] = NoView]
    /\ UNCHANGED <<board, stored, held, broken>>

Store ==
    /\ stored \subseteq stored' /\ stored' \subseteq board
    /\ UNCHANGED <<board, held, view, broken>>

\* Memory is dropped, with or without the clients' knowledge.
Drop ==
    /\ stored = board
    /\ held' = FALSE
    /\ view' = [c \in Clients |-> NoView]
    /\ UNCHANGED <<board, stored, broken>>

Break == broken' = TRUE

Next ==
    \/ Load
    \/ \E c \in Clients : Leave(c) \/ \E e \in Strokes : Draw(c, e)
    \/ Store
    \/ Drop
    \/ Break

Spec == Init /\ [][Next]_vars
=============================================================================
