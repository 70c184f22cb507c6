--------------------------- MODULE MCTeamService ---------------------------
(* Instances of TeamService for TLC.                                        *)
EXTENDS TeamService, TLC

CONSTANTS t1, t2, t3

Changing == {"add", "spawn", "rename", "remove", "last"}
Stopping == {"stop", "archive", "delete", "idle"}

\* One request wants a session, one changes the membership or archives the
\* team, the third one competes with either or stops the session.
OneOfEach ==
       t1 :> {"ensure", "send", "existing"}
    @@ t2 :> Changing \cup {"archive"}
    @@ t3 :> {"send", "group", "add", "remove"} \cup Stopping

=============================================================================
