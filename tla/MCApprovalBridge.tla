-------------------------- MODULE MCApprovalBridge --------------------------
(* A small instance of ApprovalBridge for TLC. *)
EXTENDS ApprovalBridge

Row(s, k, t, c, f, sh) ==
    [session |-> s, key |-> k, tool |-> t, category |-> c, file |-> f, shape |-> sh]

\* Two changes of the agent's own configuration, which no grant can silence, in
\* the session that Telegram drives.
MCCall ==
    [config |-> Row("main", 1, "os.fs.write", "trust_config", NoFile, NoShape),
     env    |-> Row("main", 2, "os.fs.edit", "trust_config", NoFile, NoShape)]
MCReq == DOMAIN MCCall
=============================================================================
