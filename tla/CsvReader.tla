----------------------------- MODULE CsvReader -----------------------------
(***************************************************************************)
(* The reader of transaction files (imports/parse-csv.ts), one character   *)
(* of the text a step, checked against what comma separated values are:    *)
(* records end where a line ends outside quotes, fields at commas outside  *)
(* quotes, and a field is bare or quoted as a whole.                       *)
(*                                                                         *)
(* "x" stands for what a cell may hold, "=" for what a formula starts      *)
(* with; the headers a file must have are words of these.                  *)
(***************************************************************************)
EXTENDS Integers, Sequences, SequencesExt

CONSTANTS
  Texts,         \* the files
  MaxColumns, MaxRows, MaxCell,
  Required       \* requiredHeaders

QuoteMark == "q"   Comma == "c"   NL == "n"   CR == "r"   EqualSign == "="

Characters == {QuoteMark, Comma, NL, CR, "x", EqualSign}

ASSUME CsvAssumption ==
  /\ {MaxColumns, MaxRows, MaxCell} \subseteq Nat \ {0}
  /\ Texts \subseteq Seq(Characters)

VARIABLES text, reader

csvVars == <<text, reader>>

CsvInit ==
  /\ text \in Texts
  /\ reader = [index |-> 1, cell |-> <<>>, record |-> <<>>, records |-> <<>>,
               quoted |-> FALSE, quoteClosed |-> FALSE,
               line |-> 1, startLine |-> 1, outcome |-> "reading"]

TextAt(i) == IF i \in DOMAIN text THEN text[i] ELSE "end"

(***************************************************************************)
(* parseRecords.  Each operator is what one step makes of the reader s.    *)
(***************************************************************************)
Throw(s) == [s EXCEPT !.outcome = "refused"]

Skip(s, n) == [s EXCEPT !.index = @ + n]

\* The character joins the cell.
TakeChar(s, c) ==
  IF Len(s.cell) >= MaxCell THEN Throw(s)
  ELSE [s EXCEPT !.cell = Append(@, c), !.line = @ + (IF c = NL THEN 1 ELSE 0)]

pushCell(s) ==
  IF Len(s.record) >= MaxColumns THEN Throw(s)
  ELSE [s EXCEPT !.record = Append(@, s.cell), !.cell = <<>>,
                 !.quoteClosed = FALSE]

\* A bare cell at the end of its record leaves out the CR of the line's end.
DropCR(s) ==
  IF ~s.quoteClosed /\ s.cell # <<>> /\ Last(s.cell) = CR
  THEN [s EXCEPT !.cell = Front(@)] ELSE s

pushRecord(s) ==
  LET full == pushCell(DropCR(s)) IN
  IF full.outcome = "refused" \/ Len(s.records) > MaxRows THEN Throw(s)
  ELSE [full EXCEPT
          !.records = Append(@, [cells |-> full.record,
                                 rowNumber |-> s.startLine]),
          !.record = <<>>, !.line = @ + 1, !.startLine = s.line + 1]

\* Mutant: any quote ends a quoted cell.
EndAtQuote(s, c) ==
  IF c = QuoteMark THEN [Skip(s, 1) EXCEPT !.quoted = FALSE, !.quoteClosed = TRUE]
                   ELSE TakeChar(Skip(s, 1), c)

InQuotes(s, c) ==
  IF c # QuoteMark THEN TakeChar(Skip(s, 1), c)
  ELSE IF TextAt(s.index + 1) = QuoteMark THEN TakeChar(Skip(s, 2), c)
  ELSE [Skip(s, 1) EXCEPT !.quoted = FALSE, !.quoteClosed = TRUE]

AfterQuotes(s, c) ==
  CASE c = Comma -> pushCell(Skip(s, 1))
    [] c = NL -> pushRecord(Skip(s, 1))
    [] c = CR /\ TextAt(s.index + 1) = NL -> Skip(s, 1)
    [] OTHER -> Throw(s)

InBareCell(s, c) ==
  CASE c = QuoteMark /\ s.cell = <<>> -> [Skip(s, 1) EXCEPT !.quoted = TRUE]
    [] c = QuoteMark /\ s.cell # <<>> -> Throw(s)
    [] c = Comma -> pushCell(Skip(s, 1))
    [] c = NL -> pushRecord(Skip(s, 1))
    [] OTHER -> TakeChar(Skip(s, 1), c)

AtEnd(s) ==
  IF s.quoted THEN Throw(s)
  ELSE LET last == IF s.cell # <<>> \/ s.record # <<>> \/ s.quoteClosed
                   THEN pushRecord(s) ELSE s
       IN  IF last.outcome = "refused" THEN last
           ELSE [last EXCEPT !.outcome = "read"]

ReadCharacter ==
  /\ reader.outcome = "reading"
  /\ LET c == TextAt(reader.index) IN
     reader' = CASE c = "end" -> AtEnd(reader)
                 [] c # "end" /\ reader.quoted -> InQuotes(reader, c)
                 [] c # "end" /\ ~reader.quoted /\ reader.quoteClosed ->
                      AfterQuotes(reader, c)
                 [] OTHER -> InBareCell(reader, c)
  /\ UNCHANGED text

(***************************************************************************)
(* parseCsv: the records that are not blank, the first of them the headers.*)
(***************************************************************************)
Solid(c) == {i \in DOMAIN c : c[i] \notin {NL, CR}}
Trim(c) == IF Solid(c) = {} THEN <<>> ELSE SubSeq(c, Min(Solid(c)), Max(Solid(c)))

BeginsUnsafeFormula(c) == Trim(c) # <<>> /\ Head(Trim(c)) = EqualSign

\* The values of f in the order of its arguments.
Listed(f) ==
  [k \in 1..Cardinality(DOMAIN f) |->
     f[CHOOSE i \in DOMAIN f : Cardinality({j \in DOMAIN f : j < i}) = k - 1]]

Blank(r) == \A i \in DOMAIN r.cells : Solid(r.cells[i]) = {}

Rows == LET solid == {n \in DOMAIN reader.records : ~Blank(reader.records[n])}
        IN  Listed([n \in solid |-> reader.records[n]])

Headers == [i \in DOMAIN Rows[1].cells |-> Trim(Rows[1].cells[i])]

Acceptable ==
  /\ Len(Rows) \in 2..(MaxRows + 1)
  /\ <<>> \notin ToSet(Headers) /\ IsInjective(Headers)
  /\ Required \subseteq ToSet(Headers)
  /\ \A i \in DOMAIN Rows :
       /\ Len(Rows[i].cells) = Len(Headers)
       /\ \A k \in DOMAIN Headers : ~BeginsUnsafeFormula(Rows[i].cells[k])

\* The values of a row by header.
Values(row) ==
  [h \in ToSet(Headers) |->
     Trim(row.cells[CHOOSE k \in DOMAIN Headers : Headers[k] = h])]

parseCsv == [i \in 1..(Len(Rows) - 1) |->
               [rowNumber |-> Rows[i + 1].rowNumber, values |-> Values(Rows[i + 1])]]

CheckRows ==
  /\ reader.outcome = "read"
  /\ reader' = [reader EXCEPT !.outcome =
                  IF Acceptable THEN "accepted" ELSE "rejected"]
  /\ UNCHANGED text

CsvNext == ReadCharacter \/ CheckRows

(***************************************************************************)
(* What is written in a text t.  A position is outside quotes when an even *)
(* number of them comes before it.  A comma there ends a field, a line's   *)
(* end a record, and the text's end, after its last character, both.       *)
(***************************************************************************)
QuotesBefore(t, i) == Cardinality({j \in 1..(i - 1) : t[j] = QuoteMark})
Outside(t, i) == QuotesBefore(t, i) % 2 = 0

TextEnd(t) == Len(t) + 1
Separators(t, cs) ==
  {i \in DOMAIN t : t[i] \in cs /\ Outside(t, i)} \cup {TextEnd(t)}

\* Where a record, or a field, that begins at i ends.
LineStop(t, i) == Min({j \in Separators(t, {NL}) : j >= i})
FieldStop(t, i) == Min({j \in Separators(t, {Comma, NL}) : j >= i})

\* After a last line's end there is another line only if it has text.
LineStarts(t) == {i \in DOMAIN t : i = 1 \/ i - 1 \in Separators(t, {NL})}
FieldStarts(t, p) ==
  {i \in p..LineStop(t, p) : i = p \/ i - 1 \in Separators(t, {Comma})}

Quoted(t, f) == f \in DOMAIN t /\ t[f] = QuoteMark

\* The last of a field's characters is not the CR that ends its line: one that
\* a quoted field has only before a NL.
LastOf(t, f) ==
  LET stop == FieldStop(t, f)
      ends == /\ stop \in Separators(t, {NL})
              /\ stop = TextEnd(t) => ~Quoted(t, f)
  IN  IF stop > f /\ t[stop - 1] = CR /\ ends THEN stop - 2 ELSE stop - 1

\* A quote that has no partner before it.
Opening(t, i) == t[i] = QuoteMark /\ Outside(t, i)

\* A quoted field ends with the partner of a quote, and inside it a quote opens
\* only right after another; a bare field has none.
WellWritten(t, f) ==
  LET last == LastOf(t, f) IN
  IF Quoted(t, f)
  THEN /\ last > f /\ t[last] = QuoteMark /\ ~Outside(t, last)
       /\ \A i \in (f + 1)..last : Opening(t, i) => t[i - 1] = QuoteMark
  ELSE \A i \in f..last : t[i] # QuoteMark

\* Of two quotes in a row the first one stays.
Inner(t, f, last) == {i \in (f + 1)..(last - 1) : ~Opening(t, i)}
Said(t, f, last) == Listed([i \in Inner(t, f, last) |-> t[i]])

Meaning(t, f) == IF Quoted(t, f) THEN Said(t, f, LastOf(t, f))
                                 ELSE SubSeq(t, f, LastOf(t, f))

\* The limits count the CR of a bare field.
FieldFits(t, f) == IF Quoted(t, f) THEN Len(Meaning(t, f)) <= MaxCell
                                   ELSE FieldStop(t, f) - f <= MaxCell

LineFits(t, p) ==
  /\ Cardinality(FieldStarts(t, p)) <= MaxColumns
  /\ \A f \in FieldStarts(t, p) : WellWritten(t, f) /\ FieldFits(t, f)

Written(t) ==
  /\ Cardinality(LineStarts(t)) <= MaxRows + 1
  /\ \A p \in LineStarts(t) : LineFits(t, p)

LineNumber(t, p) == 1 + Cardinality({i \in 1..(p - 1) : t[i] = NL})

WrittenRecord(t, p) ==
  [cells |-> Listed([f \in FieldStarts(t, p) |-> Meaning(t, f)]),
   rowNumber |-> LineNumber(t, p)]

WrittenRecords(t) == Listed([p \in LineStarts(t) |-> WrittenRecord(t, p)])

(***************************************************************************)
(* Properties.                                                             *)
(***************************************************************************)
\* parseCsv reads what is written: it refuses a text exactly when that is not
\* comma separated values within the limits, and else has the same records,
\* each with the line it starts on; and each row it hands on says of every
\* header what its line has in that header's column.
ReadsAsWritten ==
  /\ reader.outcome = "refused" => ~Written(text)
  /\ reader.outcome \in {"read", "rejected", "accepted"} =>
       Written(text) /\ reader.records = WrittenRecords(text)
  /\ reader.outcome = "accepted" =>
       \A i \in DOMAIN parseCsv : \E w \in ToSet(WrittenRecords(text)) :
         /\ w.rowNumber = parseCsv[i].rowNumber
         /\ \A k \in DOMAIN Headers :
              parseCsv[i].values[Headers[k]] = Trim(w.cells[k])
=============================================================================
