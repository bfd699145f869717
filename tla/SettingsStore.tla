--------------------------- MODULE SettingsStore ---------------------------
(***************************************************************************)
(* What the settings in flash promise: a store of named values of which    *)
(* one is changed at a time, or all are set back to the defaults.  Until a *)
(* change has reached the flash a loss of power may take it, and everything*)
(* else with it; nothing is ever lost in part, and nothing that is settled *)
(* is lost at all.                                                         *)
(***************************************************************************)
CONSTANTS Fields, Defaults

VARIABLES
  stored,    \* the settings the next reader finds
  settled    \* they survive a loss of power

Init == stored = Defaults /\ settled = TRUE

\* The values that differ from the old ones are those of one setting.
OneChanged ==
  \E f \in Fields :
    \E d \in {stored'} :
      /\ stored' # stored
      /\ \A g \in Fields \ {f} : d[g] = stored[g]
      /\ DOMAIN d = Fields

Change ==
  /\ settled
  /\ OneChanged \/ stored' = Defaults
  /\ settled' <=> (stored' = Defaults)

Settle == ~settled /\ settled' = TRUE /\ UNCHANGED stored

Lose == ~settled /\ stored' = Defaults /\ settled' = TRUE

Next == Change \/ Settle \/ Lose

Spec == Init /\ [][Next]_<<stored, settled>>
=============================================================================
