--------------------------- MODULE UnifyCtlFormat ---------------------------
(***************************************************************************)
(* What reading the unify control file promises, stated from the format   *)
(* and not from the parser: the file is a list of sections, a section is  *)
(* a line "*" followed by hex stream ids (an id ending in '!' is           *)
(* unavailable, an id is never 0) and a line of exactly four hex fields    *)
(* (local time, offset, local time, offset).  A file in this form yields   *)
(* one control per id, in file order, with its section's times.  A file   *)
(* not in this form is rejected, unless it only misplaces its section      *)
(* markers, in which case it may also be read as the sections its other   *)
(* pieces form.  A field is read up to its first non-hex character.        *)
(* Reading is one step from "reading" to its result.                       *)
(***************************************************************************)
EXTENDS Integers, Sequences, SequencesExt

CONSTANT Files

VARIABLES file, result

Reading == [ok |-> FALSE, ctls |-> <<>>, done |-> FALSE]
Rejected == [ok |-> FALSE, ctls |-> <<>>, done |-> TRUE]
Accepted(cs) == [ok |-> TRUE, ctls |-> cs, done |-> TRUE]

\* The runs of pieces between the pieces holding a '*'.
Parts(f) ==
    LET b == <<0>> \o SetToSortSeq({i \in 1..Len(f) : f[i].star}, <)
                   \o <<Len(f) + 1>>
    IN  [k \in 1..Len(b) - 1 |-> SubSeq(f, b[k] + 1, b[k + 1] - 1)]

\* The number of ids of part p, when p is an id line and a time line.
IdCount(p) ==
    LET n == Len(p) - 4
    IN  IF /\ n >= 0
           /\ \A i \in 1..n : ~p[i].nl /\ p[i].val # 0
           /\ p[n + 1].nl
           /\ \A j \in n + 2..n + 4 : ~p[j].nl
        THEN n ELSE -1

PartCtls(p) ==
    LET n == IdCount(p)
    IN  [i \in 1..n |-> [id |-> p[i].val, avail |-> ~p[i].bang,
                         ltime |-> <<p[n + 1].val, p[n + 3].val>>,
                         offset |-> <<p[n + 2].val, p[n + 4].val>>]]

\* The ways the data pieces of a file split into sections, ignoring its
\* markers: a section ends three pieces after its first piece on a new
\* line, so there is one way or none.
RECURSIVE DataSections(_)
DataSections(s) ==
    IF s = <<>> THEN {<<>>}
    ELSE LET n == SelectInSeq(s, LAMBDA x : x.nl)
             p == SubSeq(s, 1, n + 3)
         IN  IF n = 0 \/ Len(s) < n + 3 \/ IdCount(p) < 0 THEN {}
             ELSE {<<p>> \o r : r \in DataSections(SubSeq(s, n + 4, Len(s)))}

Data(f) == DataSections(SelectSeq(f, LAMBDA x : ~x.star))

FileCtls(f) ==
    LET d == CHOOSE d \in Data(f) : TRUE
    IN  FlattenSeq([k \in 1..Len(d) |-> PartCtls(d[k])])

\* The file in the documented form: a '*' on the first line, every later
\* '*' at the start of a line, no empty section, no '!' in a time field.
WellFormed(f) ==
    LET ps == Parts(f)
    IN  /\ f # <<>> /\ f[1].star /\ ~f[1].nl
        /\ \A i \in 2..Len(f) : f[i].star => f[i].nl
        /\ \A k \in 2..Len(ps) :
              /\ IdCount(ps[k]) >= 0
              /\ \A j \in Len(ps[k]) - 3..Len(ps[k]) : ~ps[k][j].bang

\* Only its markers misplaced: its data pieces are a list of sections.
MarkersOnlyMisplaced(f) == Data(f) # {}

Outcomes(f) ==
    IF WellFormed(f) THEN {Accepted(FileCtls(f))}
    ELSE {Rejected} \cup (IF MarkersOnlyMisplaced(f)
                          THEN {Accepted(FileCtls(f))} ELSE {})

Init == file \in Files /\ result = Reading

Read == result = Reading /\ result' \in Outcomes(file) /\ UNCHANGED file

Spec == Init /\ [][Read]_<<file, result>>
====
