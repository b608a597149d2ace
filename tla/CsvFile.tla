------------------------------ MODULE CsvFile -------------------------------
(***************************************************************************)
(* The text of an uploaded file and its rows of cells: parseCsv, which      *)
(* UsersService, OfficersService and PoliceStationsService each have a copy *)
(* of.  A text is a sequence of the characters the parser tells apart; "x"  *)
(* stands for all others.                                                   *)
(***************************************************************************)
EXTENDS Integers, Sequences, SequencesExt

Plain == {"quote", "comma", "newline", "x"}

Chars == Plain \cup {"return", "bom"}

-----------------------------------------------------------------------------
(* The parser.                                                              *)

\* A leading byte order mark is dropped, and a return before a newline.
Normalized(text) ==
  LET body == IF text # <<>> /\ Head(text) = "bom" THEN Tail(text) ELSE text
      kept == SelectSeq([i \in DOMAIN body |-> i],
                LAMBDA i : ~(body[i] = "return" /\ i < Len(body) /\ body[i + 1] = "newline"))
  IN  [i \in DOMAIN kept |-> body[kept[i]]]

Blank == [rows |-> <<>>, row |-> <<>>, value |-> <<>>, quoted |-> FALSE, skip |-> FALSE]

EndCell(s) == [s EXCEPT !.row = Append(@, s.value), !.value = <<>>]

EndRow(s) == [s EXCEPT !.rows = Append(@, Append(s.row, s.value)), !.row = <<>>, !.value = <<>>]

\* Faulty variant of Quote: a doubled quote closes the quotes and opens them.
QuotePlain(s, next) == [s EXCEPT !.quoted = ~@]

\* A quote within quotes before another stands for itself, and takes the other
\* with it.
Quote(s, next) ==
  IF s.quoted /\ next = "quote"
  THEN [s EXCEPT !.value = Append(@, "quote"), !.skip = TRUE]
  ELSE [s EXCEPT !.quoted = ~@]

Read(s, c, next) ==
  CASE s.skip -> [s EXCEPT !.skip = FALSE]
    [] ~s.skip /\ c = "quote" -> Quote(s, next)
    [] ~s.skip /\ c = "comma" /\ ~s.quoted -> EndCell(s)
    [] ~s.skip /\ c = "newline" /\ ~s.quoted -> EndRow(s)
    [] OTHER -> [s EXCEPT !.value = Append(@, c)]

\* What is left at the end is a row, unless it is nothing at all.
Parsed(text) ==
  LET chars == Normalized(text)
      end == FoldLeftDomain(
               LAMBDA s, i : Read(s, chars[i], IF i < Len(chars) THEN chars[i + 1] ELSE "end"),
               Blank, chars)
  IN  IF end.value # <<>> \/ end.row # <<>> THEN EndRow(end).rows ELSE end.rows

-----------------------------------------------------------------------------
(* What a file means, said without a parser.                                *)

QuotesBefore(text, i) == Len(SelectSeq(SubSeq(text, 1, i - 1), LAMBDA c : c = "quote"))

Outside(text, i) == QuotesBefore(text, i) % 2 = 0

\* The positions, in order, at which a separator of kinds ends something.
Ends(text, kinds) ==
  SelectSeq([i \in DOMAIN text |-> i], LAMBDA i : text[i] \in kinds /\ Outside(text, i))

\* The stretches <<first, last>> between these positions.
Stretches(text, from, to, kinds) ==
  LET cuts == <<from - 1>> \o SelectSeq(Ends(text, kinds), LAMBDA i : from <= i /\ i <= to)
                           \o <<to + 1>>
  IN  [n \in 1..(Len(cuts) - 1) |-> <<cuts[n] + 1, cuts[n + 1] - 1>>]

\* A cell is its text without the quotes, except the first of two within quotes.
Cell(text, from, to) ==
  LET kept == SelectSeq([i \in DOMAIN text |-> i],
                LAMBDA i : /\ from <= i /\ i <= to
                           /\ \/ text[i] # "quote"
                              \/ /\ ~Outside(text, i)
                                 /\ i < Len(text) /\ text[i + 1] = "quote")
  IN  [n \in DOMAIN kept |-> text[kept[n]]]

Meaning(text) ==
  LET chars == Normalized(text)
      lines == Stretches(chars, 1, Len(chars), {"newline"})
      rows == [n \in DOMAIN lines |->
                 LET cells == Stretches(chars, lines[n][1], lines[n][2], {"comma", "newline"})
                 IN  [m \in DOMAIN cells |-> Cell(chars, cells[m][1], cells[m][2])]]
  IN  IF rows[Len(rows)] = << <<>> >> THEN Front(rows) ELSE rows

-----------------------------------------------------------------------------
(* What agrees.                                                             *)

Texts(alphabet, n) == UNION {[1..k -> alphabet] : k \in 0..n}

\* The one pass with its look ahead yields what the quotes, commas and newlines
\* of the text delimit.
ParsedAsMeant(texts) == \A text \in texts : Parsed(text) = Meaning(text)

=============================================================================
