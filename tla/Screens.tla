------------------------------ MODULE Screens ------------------------------
(***************************************************************************)
(* The pages of the frontend.  A page is what it asks of the backend:      *)
(* reads, the calls it makes when it is shown, and acts, the calls its     *)
(* buttons, forms, tabs and search boxes make, each with the page its      *)
(* success leads to ("" when it stays).  A call is named by the route that *)
(* answers it, or by its method and address when there is no such route.   *)
(* Layout, wording and validation in the browser are left out; a link is   *)
(* one of the ways to open an address.                                     *)
(***************************************************************************)
EXTENDS AccessPolicy

Stay(names) == [name : names, leads : {""}]
Leads(names, path) == [name : names, leads : {path}]
None == {}

Page(path, reads, acts) == [path |-> path, reads |-> reads, acts |-> acts]

-----------------------------------------------------------------------------
(* For everybody.                                                          *)

LandingPage == Page("/", None, None)

ForgotPasswordPage == Page("/forgot-password", None, Stay({"auth.forgotPassword"}))

RegisterPage == Page("/register", None, Leads({"auth.register"}, "/login"))

ResetPasswordPage == Page("/reset-password", None, Leads({"auth.resetPassword"}, "/login"))

VerifyLanding == Page("/verify", None, None)

VerifyCodePage == Page("/verify/[code]", {"certificates.verify"}, None)

LoginPage == Page("/login", None, None)

-----------------------------------------------------------------------------
(* Under app/dashboard: the staff.                                         *)

DashboardHome == Page("/dashboard", {"reports.dashboard"}, None)

AnnouncementsPage ==
    Page("/dashboard/announcements", {"announcements.list"},
         Stay({"announcements.remove"}))

NewAnnouncementPage ==
    Page("/dashboard/announcements/new", None,
         Leads({"announcements.create"}, "/dashboard/announcements"))

AssignmentDetailPage ==
    Page("/dashboard/assignments/[id]", {"learning.submissions"},
         Stay({"learning.grade"}))

AttendancePage ==
    Page("/dashboard/attendance", {"branches.list"},
         Stay({"attendance.branchRoster", "attendance.branchBulk"}))

BatchAttendanceReportPage ==
    Page("/dashboard/attendance/batch", {"batches.listBatches"},
         Stay({"attendance.batchReport", "attendance.mark", "attendance.exportCsv"}))

HolidaysPage ==
    Page("/dashboard/attendance/holidays", {"attendance.holidays"},
         Stay({"attendance.addHoliday", "attendance.removeHoliday"}))

ManualAttendancePage ==
    Page("/dashboard/attendance/new", None,
         Stay({"students.list", "attendance.mark"}))

AttendanceRecordsPage ==
    Page("/dashboard/attendance/records", {"attendance.list"},
         Stay({"attendance.remove"}))

AttendanceScanPage == Page("/dashboard/attendance/scan", None, Stay({"attendance.scan"}))

BatchesPage ==
    Page("/dashboard/batches", {"batches.listBatches"},
         Stay({"DELETE /batches/batches/[id]"}))

BatchDetailPage ==
    Page("/dashboard/batches/[id]", {"batches.findBatch"},
         Stay({"students.list", "batches.enroll", "batches.unenroll"})
                    \union Leads({"DELETE /batches/batches/[id]"}, "/dashboard/batches"))

BatchAssignmentsPage ==
    Page("/dashboard/batches/[id]/assignments", {"learning.listAssignments", "instructors.list"},
         Stay({"learning.createAssignment"}))

ClassesPage ==
    Page("/dashboard/batches/classes", {"batches.listClasses"},
         Stay({"batches.createClass", "batches.updateClass", "batches.removeClass"}))

NewBatchPage ==
    Page("/dashboard/batches/new", {"batches.listClasses", "branches.list", "instructors.list"},
         Leads({"batches.createBatch"}, "/dashboard/batches/[id]"))

BeltExamsPage == Page("/dashboard/belt-exams", {"belts.list"}, Stay({"belts.remove"}))

BeltExamDetailPage == Page("/dashboard/belt-exams/[id]", {"belts.findOne"}, Stay({"belts.grade"}))

ScheduleBeltExamPage ==
    Page("/dashboard/belt-exams/new", None,
         Stay({"students.list"}) \union Leads({"belts.schedule"}, "/dashboard/belt-exams/[id]"))

BranchesPage == Page("/dashboard/branches", {"branches.list"}, Stay({"branches.remove"}))

EditBranchPage ==
    Page("/dashboard/branches/[id]/edit", {"branches.detail"},
         Leads({"branches.update"}, "/dashboard/branches"))

NewBranchPage ==
    Page("/dashboard/branches/new", None,
         Leads({"branches.create"}, "/dashboard/branches"))

CertificatesPage == Page("/dashboard/certificates", {"certificates.list"}, None)

CertificateDetailPage ==
    Page("/dashboard/certificates/[id]", {"certificates.findOne"},
         Stay({"POST /certificates/[id]/revoke"}))

IssueCertificatePage ==
    Page("/dashboard/certificates/new", None,
         Stay({"students.list"})
                    \union Leads({"certificates.issue"}, "/dashboard/certificates/[id]"))

EventsPage == Page("/dashboard/events", {"events.list"}, Stay({"events.remove"}))

EventDetailPage ==
    Page("/dashboard/events/[id]", {"events.findOne", "events.registrations"},
         Stay({"events.publish"}))

EditEventPage ==
    Page("/dashboard/events/[id]/edit", {"events.findOne"},
         Leads({"events.update"}, "/dashboard/events/[id]"))

NewEventPage ==
    Page("/dashboard/events/new", None,
         Leads({"events.create"}, "/dashboard/events/[id]"))

FeesPage == Page("/dashboard/fees", {"fees.listInvoices"}, Stay({"fees.voidInvoice"}))

InvoiceDetailPage ==
    Page("/dashboard/fees/[id]", {"fees.invoiceDetail"},
         Stay({"fees.initiate", "fees.verify", "fees.record"}))

NewInvoicePage ==
    Page("/dashboard/fees/new", None,
         Stay({"students.list"}) \union Leads({"fees.createInvoice"}, "/dashboard/fees/[id]"))

FeePlansPage ==
    Page("/dashboard/fees/plans", {"fees.listPlans"},
         Stay({"fees.createPlan", "fees.updatePlan", "fees.removePlan"}))

InstructorsPage ==
    Page("/dashboard/instructors", {"instructors.list"},
         Stay({"instructors.remove"}))

InstructorDetailPage == Page("/dashboard/instructors/[id]", {"instructors.detail"}, None)

EditInstructorPage ==
    Page("/dashboard/instructors/[id]/edit", {"instructors.detail"},
         Leads({"instructors.update"}, "/dashboard/instructors/[id]"))

NewInstructorPage ==
    Page("/dashboard/instructors/new", None,
         Leads({"instructors.create"}, "/dashboard/instructors/[id]"))

InventoryPage ==
    Page("/dashboard/inventory", {"inventory.listItems"},
         Stay({"inventory.removeItem"}))

InventoryItemPage ==
    Page("/dashboard/inventory/[id]", {"inventory.findItem"},
         Stay({"POST /inventory/items/[id]/adjust"}))

EditInventoryItemPage ==
    Page("/dashboard/inventory/[id]/edit", {"inventory.findItem"},
         Leads({"inventory.updateItem"}, "/dashboard/inventory/[id]"))

NewInventoryItemPage ==
    Page("/dashboard/inventory/new", None,
         Leads({"inventory.createItem"}, "/dashboard/inventory"))

OrdersListPage == Page("/dashboard/inventory/orders", {"inventory.listOrders"}, None)

OrderDetailPage ==
    Page("/dashboard/inventory/orders/[id]", {"inventory.findOrder"},
         Stay({"inventory.updateOrderStatus"}))

NewOrderPage ==
    Page("/dashboard/inventory/orders/new", {"inventory.listItems"},
         Stay({"students.list"})
                    \union Leads({"inventory.createOrder"}, "/dashboard/inventory/orders/[id]"))

LearningPage ==
    Page("/dashboard/learning", {"learning.listVideos"},
         Stay({"learning.removeVideo"}))

NewLearningResourcePage ==
    Page("/dashboard/learning/new", None,
         Leads({"learning.createVideo", "learning.createDocument"}, "/dashboard/learning"))

NotificationsInboxPage ==
    Page("/dashboard/notifications", {"GET /notifications/inbox"},
         Stay({"POST /notifications/[id]/read", "POST /notifications/read-all"}))

ParentsPage == Page("/dashboard/parents", {"parents.list"}, Stay({"parents.remove"}))

ParentDetailPage ==
    Page("/dashboard/parents/[id]", {"parents.detail"},
         Stay({"students.list", "parents.linkChild", "parents.unlinkChild"}))

EditParentPage ==
    Page("/dashboard/parents/[id]/edit", {"parents.detail"},
         Leads({"parents.update"}, "/dashboard/parents/[id]"))

NewParentPage ==
    Page("/dashboard/parents/new", None,
         Leads({"parents.create"}, "/dashboard/parents/[id]"))

ReportsPage == Page("/dashboard/reports", {"reports.revenue", "reports.beltProgression"}, None)

SettingsPage == Page("/dashboard/settings", {"settings.get"}, Stay({"settings.update"}))

SessionsPage ==
    Page("/dashboard/settings/sessions", {"users.mySessions"},
         Stay({"users.revokeMySession"}))

UsersManagementPage ==
    Page("/dashboard/settings/users", {"users.list"},
         Stay({"users.create", "users.setRole", "users.setStatus", "users.remove"}))

StudentsPage ==
    Page("/dashboard/students", {"students.list"},
         Stay({"students.remove", "students.exportCsv", "students.exportPdf",
               "students.exportStudentPdf", "students.exportStudentJson"}))

StudentDetailPage ==
    Page("/dashboard/students/[id]", {"students.detail"},
         Stay({"attendance.list", "fees.listInvoices", "belts.list", "certificates.list",
               "students.exportStudentPdf", "students.exportStudentJson"})
                    \union Leads({"students.remove"}, "/dashboard/students"))

EditStudentPage ==
    Page("/dashboard/students/[id]/edit", {"students.detail", "branches.list"},
         Leads({"students.update"}, "/dashboard/students/[id]"))

NewStudentPage ==
    Page("/dashboard/students/new", {"branches.list"},
         Leads({"students.create"}, "/dashboard/students/[id]"))

-----------------------------------------------------------------------------
(* Under app/platform, app/parent and app/student.                         *)

ParentDashboard == Page("/parent", {"parents.myChildren"}, None)

PlatformOverview == Page("/platform", {"reports.platform"}, None)

PlatformAcademiesPage == Page("/platform/academies", {"academies.list"}, None)

AcademyDetailPage ==
    Page("/platform/academies/[id]", {"academies.detail"},
         Stay({"academies.suspend", "academies.reactivate"})
                    \union Leads({"academies.remove"}, "/platform/academies"))

NewAcademyPage ==
    Page("/platform/academies/new", None,
         Leads({"academies.create"}, "/platform/academies/[id]"))

StudentDashboard == Page("/student", None, None)

StudentAssignmentsPage == Page("/student/assignments", {"learning.myAssignments"}, None)

StudentAssignmentDetailPage ==
    Page("/student/assignments/[id]", {"learning.myAssignment"},
         Stay({"learning.submit"}))

StudentLearningPage ==
    Page("/student/learning", {"learning.listVideos", "learning.listDocuments"},
         None)

StudentIdCardPage == Page("/student/qr", {"students.me", "students.meQrPng"}, None)

-----------------------------------------------------------------------------
OpenPages ==
    {LoginPage, LandingPage, ForgotPasswordPage, RegisterPage, ResetPasswordPage,
     VerifyLanding, VerifyCodePage}

DashboardPages ==
    {DashboardHome, AnnouncementsPage, NewAnnouncementPage, AssignmentDetailPage,
     AttendancePage, BatchAttendanceReportPage, HolidaysPage, ManualAttendancePage,
     AttendanceRecordsPage, AttendanceScanPage, BatchesPage, BatchDetailPage,
     BatchAssignmentsPage, ClassesPage, NewBatchPage, BeltExamsPage,
     BeltExamDetailPage, ScheduleBeltExamPage, BranchesPage, EditBranchPage,
     NewBranchPage, CertificatesPage, CertificateDetailPage, IssueCertificatePage,
     EventsPage, EventDetailPage, EditEventPage, NewEventPage, FeesPage,
     InvoiceDetailPage, NewInvoicePage, FeePlansPage, InstructorsPage,
     InstructorDetailPage, EditInstructorPage, NewInstructorPage, InventoryPage,
     InventoryItemPage, EditInventoryItemPage, NewInventoryItemPage, OrdersListPage,
     OrderDetailPage, NewOrderPage, LearningPage, NewLearningResourcePage,
     NotificationsInboxPage, ParentsPage, ParentDetailPage, EditParentPage,
     NewParentPage, ReportsPage, SettingsPage, SessionsPage, UsersManagementPage,
     StudentsPage, StudentDetailPage, EditStudentPage, NewStudentPage}

PlatformPages ==
    {PlatformOverview, PlatformAcademiesPage, AcademyDetailPage, NewAcademyPage}

ParentPages == {ParentDashboard}

StudentPages ==
    {StudentDashboard, StudentAssignmentsPage, StudentAssignmentDetailPage,
     StudentLearningPage, StudentIdCardPage}

Pages == OpenPages \union DashboardPages \union PlatformPages \union ParentPages \union StudentPages

PathsOf(pages) == {page.path : page \in pages}

\* The page at each address.
PageAt == [path \in PathsOf(Pages) |-> CHOOSE page \in Pages : page.path = path]

\* The roles each layout hands to AuthGuard; the other pages have none around them.
TrainersAndDesk == Trainers \union Desk
DashboardRoles == Staff
LayoutRoles ==
    [path \in PathsOf(Pages) |->
        CASE path \in PathsOf(DashboardPages) -> DashboardRoles
          [] path \in PathsOf(PlatformPages)  -> SuperAdmin
          [] path \in PathsOf(ParentPages)    -> {"PARENT"}
          [] path \in PathsOf(StudentPages)   -> {"STUDENT"}
          [] OTHER                            -> Role]
=============================================================================
