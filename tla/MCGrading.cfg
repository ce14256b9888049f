\* Two requests overlap: one student, an exam, three belts, up to three certificates.
SPECIFICATION Spec
CONSTANTS
    Requests = {r1, r2}
    Students = {s1}
    TopBelt = 2
    ResultInputs = {"PASS", "FAIL", "ABSENT"}
    MaxExams = 1
    MaxCertificates = 3
    MaxReopened = 1
SYMMETRY Symmetry
VIEW View
INVARIANTS
    CertificatesPerReopening
    BeltIsRecorded
PROPERTIES
    ResultStands
\* The server may be idle, every bound reached.
CHECK_DEADLOCK FALSE
