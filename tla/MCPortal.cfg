\* One tab and one account; two roles to be assigned, one key to be withdrawn.
SPECIFICATION PortalSpec
CONSTANTS
    Hired <- Role
    Assigned = {"ACCOUNTANT", "STUDENT"}
    Withdrawable = {"attendance.view"}
    TTL = 1
    MaxQuery = 1
    MaxChanges = 1
INVARIANTS
    ArrivalsAreServed
    PermissionsCatchUp
PROPERTY
    StaffAlwaysLand
\* The browser may be idle, every bound reached.
CHECK_DEADLOCK FALSE
