\* Three mails, and two faults anywhere in any number of runs.
SPECIFICATION Spec
CONSTANTS
    Mail = {m1, m2, m3}
    MaxFaults = 2
SYMMETRY Symmetry
INVARIANTS
    MailIsKeptWhole
    ArchiveIsAccountedFor
