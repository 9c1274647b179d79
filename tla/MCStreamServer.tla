--------------------------- MODULE MCStreamServer ---------------------------
(***************************************************************************)
(* Small instances of StreamServer for TLC.                                *)
(***************************************************************************)
EXTENDS StreamServer, TLC

CONSTANTS u1, u2, s1, s2, s3

OneStream == s1 :> u1

\* One user with two streams.
OneUser == s1 :> u1 @@ s2 :> u1

\* And another user with one.
TwoUsers == OneUser @@ s3 :> u2

\* All messages but the last belong to u1.
LastForU2 == [m \in Msgs |-> IF m = MaxMsg THEN u2 ELSE u1]

AllForU1 == [m \in Msgs |-> u1]

StreamSymmetry == Permutations({s1, s2})

\* Bounds of stream_registry: two streams at most and two messages at most, both
\* of u1, or one of each user; a shutdown with u1's streams and one message.
Bounded ==
  /\ closed => logged \subseteq {1}
  /\ pc[s3] # "idle" \/ MaxMsg \in logged =>
       ~closed /\ logged \subseteq {1, MaxMsg} /\ (pc[s1] = "idle" \/ pc[s2] = "idle")

MCNext == Next /\ Bounded'
MCSpec == Init /\ [][MCNext]_vars
=============================================================================
