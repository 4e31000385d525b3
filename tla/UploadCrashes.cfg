\* Three uploads of two PDFs and of one file that is none, and two faults.
CONSTANTS
    Uploads = {r1, r2, r3}
    Pdfs = {pdf1, pdf2}
    Others = {text}
    MaxFaults = 2
    AcksMayBeLost = TRUE
    NoContent = NoContent
SPECIFICATION Spec
SYMMETRY Symmetry
CHECK_DEADLOCK FALSE
INVARIANTS
    TypeOK
    AcceptedHasFile
    NothingLeaks
