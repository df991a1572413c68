------------------------------ MODULE OneWriter ------------------------------
(* A sync session of which only one user writes: at the host from first      *)
(* start without faults, or with faults in a session under way, or at the    *)
(* joiner of such a session.                                                 *)
EXTENDS SyncSession

VARIABLE mode

Writer == IF mode = "joiner" THEN Joiner ELSE Host

OneWriterInit ==
    \/ mode = "first" /\ Init
    \/ mode \in {"host", "joiner"} /\ SyncedInit

OneWriterNext ==
    /\ \/ Next /\ edits' = edits
       \/ \E p \in Path, c \in Content : UserWrite(Writer, p, c)
    /\ faults' # faults => mode = "host"
    /\ UNCHANGED mode

(* Where the only writer is at the host and nothing fails, every write       *)
(* survives until it is replaced.  A joiner that changes a file back before  *)
(* its publication has come round as the new base loses the change.          *)
HostWritesKept == mode = "first" => NoLostEdit

OneWriterSpec == OneWriterInit /\ [][OneWriterNext]_<<vars, mode>> /\ Fairness
=============================================================================
