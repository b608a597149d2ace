---------------------------- MODULE MCUserImport ----------------------------
EXTENDS UserImport, CsvFile, TLC

CONSTANTS r1, r2, r3, admin, desk, e1, e2, b1, s1

Line(key, roles) == [key |-> key, roles |-> roles]

\* Accounts with and without a column of roles, one of them twice, and one with
\* a role that is not found; an officer, and a station after a blank row.
MCFiles ==
  { << Line(e2, {desk}), Line(e2, {desk}) >>,
    << Line("invalid", {desk}), Line(e2, {admin}) >>,
    << Line(e2, None) >>,
    << Line(b1, None) >>,
    << Line("blank", None), Line(s1, None) >> }

\* Whatever text is uploaded, parseCsv yields the rows and cells that its quotes,
\* commas and newlines delimit: texts that start with a byte order mark, end
\* lines with a return, leave quotes open or put them in the middle of a cell.
\* Looked at before the first request, as the answer depends on no state.
ParserAgrees ==
  (\A r \in Requests : pc[r] = "idle") =>
    ParsedAsMeant(Texts(Plain, 6) \cup Texts(Chars, 4))

Symmetry == Permutations(Requests)

=============================================================================
