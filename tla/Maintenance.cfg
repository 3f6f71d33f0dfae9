\* Three runs of up to three audits, a sweep and the migration at any moment.
SPECIFICATION Spec
CONSTANTS
    Domains = {"shop"}
    MaxRuns = 3
PROPERTIES EveryAuditLeaves MigrationKeepsTheNewest MigrationFailsOnlyIfRaced
\* All audits out of flight: the table is at rest.
CHECK_DEADLOCK FALSE
