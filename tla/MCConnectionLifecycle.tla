----------------------- MODULE MCConnectionLifecycle -----------------------
(***************************************************************************)
(* Small instances of ConnectionLifecycle for TLC: teams of two or three   *)
(* actors at work on the connection at once.                               *)
(***************************************************************************)
EXTENDS ConnectionLifecycle, TLC

CONSTANTS a, b, c

Team(x, y, z) == a :> x @@ b :> y @@ c :> z

\* Streams that open, commands and edits while a connection is moved.
MoveTeams ==
  {Team("move", "recreate", x) : x \in {"recreate", "reconnect", "revive", "edit", "move", "stop"}}
  \cup {Team("move", "start", "delete"), Team("move", "wipe", "recreate"),
          Team("recreate", "reconnect", "edit")}

\* A stream opens while the connection is moved.
MoveAndOpen == {a :> "move" @@ b :> "recreate"}

\* A stream opens while lctl deletes the connection.
WipeAndOpen == {a :> "wipe" @@ b :> "recreate"}

\* A stream opens while the user edits the connection.
EditAndOpen == {a :> "edit" @@ b :> "recreate"}
=============================================================================
