-------------------------------- MODULE MCLctl --------------------------------
(* The four specifications of what the lctl commands do, side by side: one of *)
(* them runs, chosen in the initial state, and the others stay in an initial  *)
(* state of theirs.  They share no variable, so each has the behaviours it    *)
(* has alone.                                                                 *)
EXTENDS ConfigSaves, Deletion, Batches, MCSettings, TLC

CONSTANTS w1, w2, t1, t2, u1, u2, c1, c2, n1, main, next

VARIABLE part

MCOwnerOf == c1 :> u1 @@ c2 :> u2 @@ n1 :> u1

\* The texts, and the writers, are alike: the first text and one order of the
\* kinds stand for all.
KindsInOrder == <<"fix", "save", "edit", "channels", "delete">>
ConfigFirst ==
  /\ ConfigInit
  /\ saved.names.text = t1
  /\ \E i \in 1..5 : \E j \in i..5 : job[w1].kind = KindsInOrder[i] /\ job[w2].kind = KindsInOrder[j]

ConfigIdle ==
  /\ ConfigFirst
  /\ \A f \in Fields : ~saved[f].twice
  /\ live = NoConfig
  /\ \A w \in Writers : job[w].kind = "delete"

\* Of the connections c2 may have left rows without its own.
DeletionFirst == DeletionInit /\ rowless \subseteq {c2}

DeletionIdle ==
  /\ DeletionInit
  /\ conns = born /\ up = {}
  /\ command = [name |-> "prune-seen", delete |-> FALSE]
  /\ None("asked")
BatchesIdle ==
  /\ BatchesInit
  /\ running = {} /\ On(From) = Ids
  /\ order = [name |-> "move", batch |-> 1, limit |-> 0, dormant |-> FALSE, move |-> FALSE, wait |-> 0]
SettingsIdle ==
  SettingsInit /\ form = Usual /\ answer = {"public"}

MCInit ==
  \/ part = "saves" /\ ConfigFirst /\ DeletionIdle /\ BatchesIdle /\ SettingsIdle
  \/ part = "deletion" /\ ConfigIdle /\ DeletionFirst /\ BatchesIdle /\ SettingsIdle
  \/ part = "batches" /\ ConfigIdle /\ DeletionIdle /\ BatchesInit /\ SettingsIdle
  \/ part = "settings" /\ ConfigIdle /\ DeletionIdle /\ BatchesIdle /\ SettingsInit

MCNext ==
  /\ UNCHANGED part
  /\ \/ part = "saves" /\ ConfigNext /\ UNCHANGED <<deletionVars, batchesVars, settingsVars>>
     \/ part = "deletion" /\ DeletionNext /\ UNCHANGED <<configVars, batchesVars, settingsVars>>
     \/ part = "batches" /\ BatchesNext /\ UNCHANGED <<configVars, deletionVars, settingsVars>>
     \/ part = "settings" /\ SettingsNext /\ UNCHANGED <<configVars, deletionVars, batchesVars>>

MCSpec ==
  MCInit /\ [][MCNext]_<<part, configVars, deletionVars, batchesVars, settingsVars>>
=============================================================================
