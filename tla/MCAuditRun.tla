------------------------------ MODULE MCAuditRun ------------------------------
(* AuditRun on small instances: one source that answers at once and one that
   polls, as in the registry (lighthouse and heuristic; urlscan).               *)
EXTENDS AuditRunPromise

MCSources == {"heuristic", "urlscan"}
MCPollingSources == {"urlscan"}

(* One code that retries, one that does not. *)
MCSourceErrors == {"upstream", "invalid"}

(* One code only, for the runs whose properties do not read it. *)
MCOneError == {"timeout"}

(* None, where any failure will do: an unexpected exception still fails a fetch, a
   passed deadline a poll. *)
MCNoError == {}
===============================================================================
