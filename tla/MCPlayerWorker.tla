--------------------------- MODULE MCPlayerWorker ---------------------------
EXTENDS PlayerWorker

VARIABLE alone  \* which half of the run this is

(* Either you are alone and change your name, or others come and go and    *)
(* you watch them.  The two meet in tick and in the change of the map only.*)
MCInit ==
  /\ Init
  /\ alone \in BOOLEAN
  /\ IF alone
     THEN left = States /\ clicks = MaxClicks /\ renames = 0 /\ resets = 0
     ELSE /\ \/ left = {} /\ clicks = MaxClicks
             \/ left = {CHOOSE s \in States : TRUE} /\ clicks = 0
          /\ renames = MaxRenames /\ resets = MaxResets /\ ~host /\ ~otherTags

MCNext ==
  /\ UNCHANGED alone
  /\ \/ Tick
     \/ TravelOn
     \/ ArriveNext /\ (~alone => ~host' /\ ~otherTags')
     \/ alone /\ OwnStep /\ UNCHANGED lobbyVars
     \/ ~alone /\ LobbyStep /\ UNCHANGED ownVars

MCSpec == MCInit /\ [][MCNext]_<<vars, alone>> /\ Fairness

=============================================================================
