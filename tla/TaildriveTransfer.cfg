\* Two previews of one entry: a call that an extension left behind meets the next
\* download of the same file, and a cancel meets the transfer after its own.  And the
\* mixed pairs: an export beside tracked transfers, an upload that finds the slot taken.
CONSTANTS
    Previews = {p1, p2}
    Manuals = {m1}
    Uploads = {u1}
    Workloads = {{p1, p2}, {p1, m1}, {p1, u1}, {m1, u1}}
    None = none
SPECIFICATION Spec
CHECK_DEADLOCK FALSE
INVARIANTS
    SlotInv
    FilesInv
    AnswerIsOwn
