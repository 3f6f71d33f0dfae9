------------------------------ MODULE AuditTypes ------------------------------
(***************************************************************************)
(* The vocabulary of enums.py: the statuses of an audit and of a report,   *)
(* the classes of statuses the services branch on, and the error codes.    *)
(***************************************************************************)

AuditStatus ==
    {"pending", "running", "completed", "partially_completed", "failed", "expired"}

ReusableAuditStatuses == {"completed", "partially_completed"}

InFlightAuditStatuses == {"pending", "running"}

ReportStatus == {"pending", "running", "completed", "partial", "failed"}

SucceededReportStatuses == {"completed", "partial"}

FinishedReportStatuses == SucceededReportStatuses \cup {"failed"}

ErrorCode ==
    {"ssrf", "timeout", "upstream", "truncated", "invalid", "recording_missing", "internal"}

(* The empty error_code of a report without an error. *)
NoCode == "none"
===============================================================================
