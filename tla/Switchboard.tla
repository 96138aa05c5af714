----------------------------- MODULE Switchboard -----------------------------
(***************************************************************************)
(* What call handling promises of the sound device: while it is exclusive  *)
(* (auto-hold is on) a line is put through only at a moment when it is the *)
(* selected one.  Any line may fall silent at any time, and being selected *)
(* or losing the selection does not by itself put a line through or cut    *)
(* it.  Lines are the engine's call slots.                                 *)
(***************************************************************************)
CONSTANTS Lines, NoLine

VARIABLES
  selected,    \* the line with the focus, or none
  talking,     \* the lines that are heard or are bound to be
  exclusive    \* only the selected line may be put through

vars == <<selected, talking, exclusive>>

Init == selected = NoLine /\ talking = {} /\ exclusive = TRUE

Select(c) ==
  /\ selected' = c
  /\ UNCHANGED <<talking, exclusive>>

PutThrough(c) ==
  /\ exclusive => c = selected
  /\ talking' = talking \cup {c}
  /\ UNCHANGED <<selected, exclusive>>

Silence ==
  /\ talking' \in SUBSET talking
  /\ UNCHANGED <<selected, exclusive>>

SetExclusive ==
  /\ exclusive' \in BOOLEAN
  /\ UNCHANGED <<selected, talking>>

Next ==
  \/ \E c \in Lines \cup {NoLine} : Select(c)
  \/ \E c \in Lines : PutThrough(c)
  \/ Silence
  \/ SetExclusive

Spec == Init /\ [][Next]_vars
==============================================================================
