----------------------------- MODULE MCAuditRunDev ----------------------------
(* AuditRunDev on the instance of MCAuditRun. *)
EXTENDS AuditRunDevPromise

MCSources == {"heuristic", "urlscan"}
MCPollingSources == {"urlscan"}
MCOneError == {"timeout"}
===============================================================================
