--------------------------- MODULE MCApprovalGate ---------------------------
(* A small instance of ApprovalGate for TLC. *)
EXTENDS ApprovalGate

Row(s, k, t, c, f, sh) ==
    [session |-> s, key |-> k, tool |-> t, category |-> c, file |-> f, shape |-> sh]

\* A write, the same write again, a shell command on its file, a fan-out, and
\* the command once more by a worker.
MCCall ==
    [write |-> Row("main", 1, "os.fs.write", "fs_write_workspace", "f", NoShape),
     again |-> Row("main", 1, "os.fs.write", "fs_write_workspace", "f", NoShape),
     sh    |-> Row("main", 3, "os.shell.run", "shell", "f", "printf"),
     fan   |-> Row("main", 4, "fusion.delegate", "fusion_fanout", NoFile, NoShape),
     redo  |-> Row("worker", 3, "os.shell.run", "shell", "f", "printf")]
MCReq == DOMAIN MCCall
=============================================================================
