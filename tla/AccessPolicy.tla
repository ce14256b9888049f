---------------------------- MODULE AccessPolicy ----------------------------
(***************************************************************************)
(* Who may call what: the permissions the seed gives each role, and what   *)
(* each route of the backend asks of its caller.  A route is named by its  *)
(* controller and handler; the tests a caller goes through are those of    *)
(* JwtAuthGuard, RolesGuard, PermissionsGuard and TenantGuard, in that     *)
(* order.                                                                  *)
(***************************************************************************)

Role == {"SUPER_ADMIN", "ACADEMY_ADMIN", "INSTRUCTOR", "RECEPTIONIST", "ACCOUNTANT",
         "PARENT", "STUDENT"}

SuperAdmin == {"SUPER_ADMIN"}
Admins == SuperAdmin \union {"ACADEMY_ADMIN"}
Trainers == Admins \union {"INSTRUCTOR"}
Desk == Admins \union {"RECEPTIONIST"}
Finance == Admins \union {"ACCOUNTANT"}
Office == Desk \union Finance
Staff == Office \union Trainers

-----------------------------------------------------------------------------
(* ROLE_PERMISSIONS.  A super admin has every key of the catalogue, which  *)
(* is more than the other roles have between them.                         *)

OwnProfile == {"profile.self.view", "profile.self.update"}
Notices == {"notification.view", "announcement.view"}

AcademyAdminPermissions == OwnProfile \union Notices \union
    {"academy.update", "academy.view", "branch.manage",
     "user.create", "user.update", "user.delete", "user.view",
     "student.create", "student.update", "student.delete", "student.view", "student.export",
     "parent.manage", "instructor.manage", "instructor.viewSalary",
     "batch.create", "batch.update", "batch.delete", "batch.view",
     "attendance.mark", "attendance.view", "attendance.export",
     "fee.create", "fee.update", "fee.delete", "fee.view",
     "payment.collect", "payment.refund", "payment.view",
     "belt.schedule", "belt.grade", "belt.view", "belt.delete",
     "certificate.issue", "certificate.revoke", "certificate.view",
     "event.create", "event.update", "event.delete", "event.view", "event.register",
     "video.create", "video.update", "video.delete", "video.view",
     "document.create", "document.update", "document.delete", "document.view",
     "assignment.create", "assignment.grade", "assignment.view",
     "inventory.create", "inventory.update", "inventory.delete", "inventory.view",
     "announcement.create", "announcement.update", "announcement.delete",
     "notification.send", "report.view", "settings.view", "settings.update", "audit.view"}

SuperAdminPermissions == AcademyAdminPermissions \union
    {"platform.manage", "platform.analytics.view", "academy.create", "academy.delete",
     "assignment.submit"}

InstructorPermissions == OwnProfile \union Notices \union
    {"student.view", "batch.view", "batch.update", "attendance.mark", "attendance.view",
     "belt.schedule", "belt.grade", "belt.view", "certificate.view",
     "event.view", "event.create", "event.update",
     "video.create", "video.update", "video.view",
     "document.create", "document.update", "document.view",
     "assignment.create", "assignment.grade", "assignment.view",
     "announcement.create", "report.view"}

ReceptionistPermissions == OwnProfile \union Notices \union
    {"student.create", "student.update", "student.view", "parent.manage",
     "batch.view", "batch.update", "fee.create", "fee.view",
     "payment.collect", "payment.view", "event.view", "event.register",
     "attendance.mark", "attendance.view", "announcement.create"}

AccountantPermissions == OwnProfile \union
    {"fee.create", "fee.update", "fee.view", "payment.collect", "payment.refund",
     "payment.view", "report.view", "student.view", "notification.view"}

ParentPermissions == OwnProfile \union Notices \union
    {"attendance.view", "fee.view", "payment.view", "certificate.view", "video.view",
     "document.view", "event.view", "event.register"}

StudentPermissions == OwnProfile \union Notices \union
    {"attendance.view", "certificate.view", "video.view", "document.view",
     "assignment.view", "assignment.submit", "event.view", "event.register"}

SeededPermissions ==
    [role \in Role |->
        CASE role = "SUPER_ADMIN"   -> SuperAdminPermissions
          [] role = "ACADEMY_ADMIN" -> AcademyAdminPermissions
          [] role = "INSTRUCTOR"    -> InstructorPermissions
          [] role = "RECEPTIONIST"  -> ReceptionistPermissions
          [] role = "ACCOUNTANT"    -> AccountantPermissions
          [] role = "PARENT"        -> ParentPermissions
          [] role = "STUDENT"       -> StudentPermissions]

-----------------------------------------------------------------------------
(* The routes.  scope says what else a caller needs: nothing at all        *)
(* ("public"), to be signed in ("account"), to be past TenantGuard         *)
(* ("tenant"), or to name an academy as well ("academy").                  *)

Rule(scope, roles, needs, names) ==
    [name : names, scope : {scope}, roles : {roles}, needs : {needs}]

Public(names) == Rule("public", Role, {}, names)
SignedIn(roles, names) == Rule("account", roles, {}, names)
InAcademy(roles, needs, names) == Rule("academy", roles, needs, names)

AcademyRoutes ==
    Public({"academies.bySlug"})
    \union SignedIn(Role, {"academies.detail", "academies.getSubscription"})
    \union SignedIn(Admins, {"academies.update"})
    \union SignedIn(SuperAdmin, {"academies.create", "academies.list", "academies.analytics",
           "academies.suspend", "academies.reactivate", "academies.remove",
           "academies.updateSubscription"})

AnnouncementRoutes ==
    InAcademy(Role, {"announcement.view"}, {"announcements.list", "announcements.findOne"})
    \union InAcademy(Admins, {"announcement.create"}, {"announcements.create"})
    \union InAcademy(Admins, {"announcement.update"}, {"announcements.update"})
    \union InAcademy(Admins, {"announcement.delete"}, {"announcements.remove"})

AttendanceRoutes ==
    InAcademy(Trainers \union Desk, {"attendance.mark"},
              {"attendance.scan", "attendance.mark", "attendance.branchBulk"})
    \union InAcademy(Trainers, {"attendance.mark"}, {"attendance.bulk"})
    \union InAcademy(Admins, {"attendance.mark"}, {"attendance.remove"})
    \union InAcademy(Role, {"attendance.view"},
           {"attendance.branchRoster", "attendance.list", "attendance.summary",
            "attendance.batchReport", "attendance.holidays"})
    \union InAcademy(Role, {"attendance.export"}, {"attendance.exportCsv"})
    \union InAcademy(Admins, {"settings.update"},
           {"attendance.addHoliday", "attendance.removeHoliday"})

AuditRoutes == Rule("tenant", Admins, {"audit.view"}, {"audit.list", "audit.detail"})

AuthRoutes ==
    Public({"auth.register", "auth.login", "auth.refresh", "auth.verifyEmail",
            "auth.resendVerification", "auth.forgotPassword", "auth.resetPassword"})
    \union SignedIn(Role, {"auth.changePassword", "auth.logout", "auth.logoutAll", "auth.me"})

BatchRoutes ==
    InAcademy(Role, {"batch.view"}, {"batches.listClasses", "batches.findClass",
                                     "batches.listBatches", "batches.findBatch"})
    \union InAcademy(Admins, {"batch.create"}, {"batches.createClass", "batches.createBatch"})
    \union InAcademy(Admins, {"batch.update"}, {"batches.updateClass", "batches.updateBatch"})
    \union InAcademy(Admins, {"batch.delete"}, {"batches.removeClass", "batches.removeBatch"})
    \union InAcademy(Trainers \union Desk, {"batch.update"},
                     {"batches.enroll", "batches.unenroll"})

BeltRoutes ==
    InAcademy(Role, {"belt.view"}, {"belts.list", "belts.findOne"})
    \union InAcademy(Trainers, {"belt.schedule"}, {"belts.schedule"})
    \union InAcademy(Trainers, {"belt.grade"}, {"belts.grade"})
    \union InAcademy(Admins, {"belt.delete"}, {"belts.remove"})

BranchRoutes ==
    InAcademy(Role, {}, {"branches.list", "branches.detail"})
    \union InAcademy(Admins, {}, {"branches.create", "branches.update", "branches.remove"})

CertificateRoutes ==
    Public({"certificates.verify"})
    \union InAcademy(Role, {"certificate.view"},
           {"certificates.list", "certificates.findOne", "certificates.pdf"})
    \union InAcademy(Trainers, {"certificate.issue"}, {"certificates.issue"})
    \union InAcademy(Admins, {"certificate.revoke"}, {"certificates.revoke"})

EventRoutes ==
    InAcademy(Role, {"event.view"}, {"events.list", "events.findBySlug", "events.findOne"})
    \union InAcademy(Admins, {"event.create"}, {"events.create"})
    \union InAcademy(Admins, {"event.update"}, {"events.update", "events.publish"})
    \union InAcademy(Admins, {"event.delete"}, {"events.remove"})
    \union InAcademy(Role, {"event.register"}, {"events.register"})
    \union InAcademy(Trainers \union Desk, {"event.view"}, {"events.registrations"})
    \union InAcademy(Role, {}, {"events.cancelRegistration"})

FeeRoutes ==
    InAcademy(Role, {"fee.view"}, {"fees.listPlans", "fees.listInvoices", "fees.invoiceDetail"})
    \union InAcademy(Finance, {"fee.create"}, {"fees.createPlan"})
    \union InAcademy(Office, {"fee.create"}, {"fees.createInvoice"})
    \union InAcademy(Finance, {"fee.update"}, {"fees.updatePlan", "fees.updateInvoice"})
    \union InAcademy(Admins, {"fee.delete"}, {"fees.removePlan", "fees.voidInvoice"})
    \union InAcademy(Office, {"payment.collect"}, {"fees.record"})
    \union InAcademy(Role, {"payment.view"}, {"fees.listPayments", "fees.receiptPdf"})
    \union InAcademy(Finance, {"payment.refund"}, {"fees.refund"})
    \union InAcademy(Role, {}, {"fees.initiate", "fees.verify"})

HealthRoutes == Public({"health.live", "health.ready"})

InstructorRoutes ==
    InAcademy(Trainers, {}, {"instructors.me"})
    \union InAcademy({"INSTRUCTOR"}, {}, {"instructors.mySchedule"})
    \union InAcademy(Admins, {"instructor.manage"},
                     {"instructors.create", "instructors.update", "instructors.remove"})
    \union InAcademy(Staff, {}, {"instructors.list"})
    \union InAcademy(Role, {}, {"instructors.detail"})
    \union InAcademy(Trainers \union Desk, {}, {"instructors.schedule"})
    \union InAcademy(Admins, {"report.view"}, {"instructors.performance"})

InventoryRoutes ==
    InAcademy(Role, {"inventory.view"}, {"inventory.listItems", "inventory.findItem",
                                         "inventory.listOrders", "inventory.findOrder"})
    \union InAcademy(Desk, {"inventory.create"}, {"inventory.createItem"})
    \union InAcademy(Desk, {"inventory.update"}, {"inventory.updateItem", "inventory.adjustStock"})
    \union InAcademy(Admins, {"inventory.delete"}, {"inventory.removeItem"})
    \union InAcademy(Office, {"inventory.create"}, {"inventory.createOrder"})
    \union InAcademy(Office, {"inventory.update"}, {"inventory.updateOrderStatus"})

LearningRoutes ==
    InAcademy(Trainers, {"video.create"}, {"learning.createVideo"})
    \union InAcademy(Role, {"video.view"}, {"learning.listVideos", "learning.findVideo"})
    \union InAcademy(Trainers, {"video.update"}, {"learning.updateVideo"})
    \union InAcademy(Admins, {"video.delete"}, {"learning.removeVideo"})
    \union InAcademy(Trainers, {"document.create"}, {"learning.createDocument"})
    \union InAcademy(Role, {"document.view"}, {"learning.listDocuments", "learning.download"})
    \union InAcademy(Trainers, {"document.update"}, {"learning.updateDocument"})
    \union InAcademy(Admins, {"document.delete"}, {"learning.removeDocument"})
    \union InAcademy(Trainers, {"assignment.create"}, {"learning.createAssignment"})
    \union InAcademy(Role, {"assignment.view"}, {"learning.listAssignments"})
    \union InAcademy({"STUDENT"}, {}, {"learning.myAssignments", "learning.myAssignment"})
    \union InAcademy(Role, {"assignment.submit"}, {"learning.submit"})
    \union InAcademy(Trainers, {"assignment.grade"}, {"learning.grade"})
    \union InAcademy(Trainers, {"assignment.view"}, {"learning.submissions"})

NotificationRoutes ==
    Public({"notifications.vapidPublicKey"})
    \union Rule("tenant", Admins, {"notification.send"}, {"notifications.send"})
    \union Rule("tenant", Role, {"notification.view"}, {"notifications.list"})
    \union SignedIn(Role, {"notifications.markRead", "notifications.markAllRead",
                           "notifications.subscribe", "notifications.unsubscribe"})

ParentRoutes ==
    InAcademy(Admins \union {"PARENT"}, {}, {"parents.me"})
    \union InAcademy({"PARENT"}, {}, {"parents.myChildren"})
    \union InAcademy(Staff, {"parent.manage"}, {"parents.list"})
    \union InAcademy(Role, {}, {"parents.detail"})
    \union InAcademy(Desk, {"parent.manage"}, {"parents.create", "parents.update",
                                               "parents.linkChild", "parents.unlinkChild"})
    \union InAcademy(Admins, {"parent.manage"}, {"parents.remove"})

ReportRoutes ==
    InAcademy(Role, {"report.view"}, {"reports.dashboard", "reports.revenue", "reports.dropouts",
                                      "reports.attendanceOverview", "reports.beltProgression"})
    \union SignedIn(SuperAdmin, {"reports.platform"})

SettingRoutes ==
    InAcademy(Role, {"settings.view"}, {"settings.get"})
    \union InAcademy(Admins, {"settings.update"}, {"settings.update"})

StudentRoutes ==
    InAcademy(Role, {"student.view"}, {"students.list", "students.byCode", "students.detail",
                                       "students.qrPng", "students.history"})
    \union InAcademy(Role, {"student.export"},
           {"students.exportCsv", "students.exportPdf", "students.exportStudentPdf",
            "students.exportStudentJson"})
    \union InAcademy({"STUDENT"}, {}, {"students.me", "students.meQrPng"})
    \union InAcademy(Desk, {"student.create"}, {"students.create"})
    \union InAcademy(Desk, {"student.update"}, {"students.update", "students.uploadPhoto",
                                                "students.addBatch", "students.removeBatch"})
    \union InAcademy(Trainers \union Desk, {"student.update"}, {"students.addHistory"})
    \union InAcademy(Admins, {"student.delete"}, {"students.remove"})

UserRoutes ==
    Rule("tenant", Role, {}, {"users.mySessions", "users.revokeMySession",
                              "users.detail", "users.update"})
    \union Rule("tenant", Admins, {}, {"users.create", "users.setRole", "users.setStatus",
                                       "users.remove"})
    \union Rule("tenant", Office, {}, {"users.list"})

Routes ==
    AcademyRoutes \union AnnouncementRoutes \union AttendanceRoutes \union AuditRoutes
    \union AuthRoutes \union BatchRoutes \union BeltRoutes \union BranchRoutes
    \union CertificateRoutes \union EventRoutes \union FeeRoutes \union HealthRoutes
    \union InstructorRoutes \union InventoryRoutes \union LearningRoutes
    \union NotificationRoutes \union ParentRoutes \union ReportRoutes \union SettingRoutes
    \union StudentRoutes \union UserRoutes

-----------------------------------------------------------------------------
(* The guards.  caller has a role, and inAcademy: whether the account      *)
(* belongs to an academy; the frontend never names one in a header.        *)

RolesGuard(route, caller) == caller.role \in route.roles
PermissionsGuard(route, held) == route.needs \subseteq held
TenantGuard(route, caller) ==
    \/ route.scope = "account"
    \/ caller.inAcademy
    \/ route.scope = "tenant" /\ caller.role = "SUPER_ADMIN"

Admits(name, caller, held) ==
    \E route \in Routes :
        /\ route.name = name
        /\ \/ route.scope = "public"
           \/ /\ RolesGuard(route, caller)
              /\ PermissionsGuard(route, held)
              /\ TenantGuard(route, caller)
=============================================================================
