---------------------------- MODULE MCRecordLog ----------------------------
(* Instances of RecordLog for TLC: two kernels of one agent (a session's and *)
(* the scheduler's) and the agent host, which has no kernel of its own.      *)
EXTENDS RecordLog, TLC

CONSTANTS session, drain, host, k1, k2

ThreeWriters == {session, drain, host}
MCKernelOf == session :> k1 @@ drain :> k2 @@ host :> k2
KernelKinds == {"direct", "stream"}
HostKinds == {"system", "spawn"}
MCKindsOf == session :> KernelKinds @@ drain :> {"direct"} @@ host :> HostKinds
MCMaxOps == session :> 2 @@ drain :> 1 @@ host :> 2

\* One task drives one kernel, as a turn does between two out-of-band writes.
OneWriterKernelOf == session :> k1
OneWriterKindsOf == session :> KernelKinds
OneWriterMaxOps == session :> 6

\* A streaming turn while the agent host writes audit records to the same log.
StreamAndHostKernelOf == session :> k1 @@ host :> k2
StreamAndHostKindsOf == session :> {"stream"} @@ host :> {"system"}
StreamAndHostMaxOps == session :> 1 @@ host :> 2

\* The agent host alone: AgentHost::create_child writes its audit record with
\* write_system_record and then runs the spawn hook.
HostOnlyKernelOf == host :> k2
HostOnlyKindsOf == host :> HostKinds
HostOnlyMaxOps == host :> 2
=============================================================================
