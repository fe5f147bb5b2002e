---------------------------- MODULE DurableValue ----------------------------
(***************************************************************************)
(* What a record of the reliable data store promises, whatever crashes,    *)
(* write errors and single damaged files come between: once a value has    *)
(* been written there always is one to read, it is one that was written,   *)
(* and it disappears only after it was released: the store was set to its  *)
(* default, or could not replace a damaged file.                           *)
(***************************************************************************)
CONSTANTS Vals, NoVal

VARIABLES stored,   \* the value a reader gets
          past,     \* the values written so far
          released  \* the stored value may go

dvVars == <<stored, past, released>>

DVInit ==
    /\ released = FALSE
    /\ \/ stored = NoVal /\ past = {}
       \/ stored \in Vals /\ past = {stored}

Write ==
    /\ stored' \in Vals
    /\ past' = past \cup {stored'}
    /\ released' = FALSE

\* a damaged file is replaced by its backup, which may be older
FallBack ==
    /\ stored' \in past
    /\ UNCHANGED <<past, released>>

Release ==
    /\ stored' \in past \cup {NoVal}
    /\ released' = TRUE
    /\ past' = past

\* what is left of a released value may go or stay
Lapse ==
    /\ released
    /\ stored' \in past \cup {NoVal}
    /\ UNCHANGED <<past, released>>

DVNext == Write \/ FallBack \/ Release \/ Lapse

DVSpec == DVInit /\ [][DVNext]_dvVars
=============================================================================
