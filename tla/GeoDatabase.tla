----------------------------- MODULE GeoDatabase -----------------------------
(***************************************************************************)
(* The GeoIP database, internal/geoip/geoip.go: Open reads one CSV file    *)
(* once, at start, and all of it or nothing becomes the database.          *)
(*                                                                         *)
(* encoding/csv skips blank lines without a word, so the file reaches it   *)
(* through csvLineReader, which must refuse a blank line but let pass a    *)
(* newline within quotes, wherever the buffers that Read fills end.  It    *)
(* follows the quotes on its own, besides the CSV reader.                  *)
(*                                                                         *)
(* A file is a sequence of lines, each of one of a few kinds, and is read  *)
(* as symbols: "LF", "CR", "q" (a quote), "," and runs of other bytes that *)
(* end before the next of these.                                           *)
(***************************************************************************)
EXTENDS PrefixTrie, SequencesExt

CONSTANTS
    Files,     \* sequences of kinds of lines a file may consist of
    LineText,  \* kind -> its symbols, without the newline that ends it
    Record,    \* kinds of lines that are records of eight fields with a
               \*   network -> [net, asn, name]
    ReadMax    \* the most symbols one Read is asked for

ASSUME ReadMaxAssumption == ReadMax \in Nat \ {0}

Good == {"header"} \cup DOMAIN Record
Newline == {<<"LF">>, <<"CR", "LF">>}
Symbol == {"LF", "CR"} \cup UNION {ToSet(LineText[k]) : k \in DOMAIN LineText}

ASSUME FilesAssumption ==
    /\ \A k \in DOMAIN Record : Record[k].net \in Prefix
    /\ Files \subseteq Seq(DOMAIN LineText)
    /\ \A k \in DOMAIN LineText : LineText[k] \in Seq(Symbol)
    /\ None \notin DOMAIN Record /\ None \notin Files /\ None \notin Seq(DOMAIN Record)

\* An odd number of quotes.
InQuotes(s) ==
    LET inside[n \in 0 .. Len(s)] ==
          IF n = 0 THEN FALSE ELSE IF s[n] = "q" THEN ~inside[n - 1] ELSE inside[n - 1]
    IN  inside[Len(s)]

\* Well-formed fields: quotes are around a whole field or doubled within one.
WellQuoted(s) ==
    /\ ~InQuotes(s)
    /\ \A n \in DOMAIN s : ~InQuotes(First(s, n - 1)) =>
          /\ s[n] = "q" => n = 1 \/ s[n - 1] \in {",", "q"}
          /\ n > 1 /\ s[n - 1] = "q" => s[n] \in {",", "q"}

\* What the kinds of lines are: a newline within a line is within quotes; the
\* header and the records are well-formed, and no other line is one of them,
\* or the beginning of one.
ASSUME LinesAssumption ==
    /\ "skip" \notin DOMAIN LineText /\ Good \cap {"blank", "cr", "bad", "skip"} = {}
    /\ \A k \in DOMAIN LineText :
          IF k = "blank" THEN LineText[k] = <<>>
          ELSE IF k = "cr" THEN LineText[k] = <<"CR">>
          ELSE /\ LineText[k] # <<>> /\ Last(LineText[k]) # "CR"
               /\ \A n \in DOMAIN LineText[k] :
                     LineText[k][n] = "LF" => InQuotes(First(LineText[k], n - 1))
    /\ \A g \in Good \cap DOMAIN LineText :
          /\ WellQuoted(LineText[g])
          /\ \A k \in DOMAIN LineText \ {g} :
                /\ LineText[k] # LineText[g]
                /\ \A nl \in Newline : ~Covers(LineText[k] \o nl, LineText[g])

VARIABLES
    lines,     \* history: the lines of the file that was opened, or None
    closed,    \* history: the last line ends in a newline
    text,      \* the symbols not read yet
    reader,    \* csvLineReader, see NewReader
    broke,     \* the stream ended with an error (the disk, gzip)
    buffer,    \* what csv has been given and not yet made a row of
    rows,      \* the kinds of the rows so far, the header first
    geoPc,     \* "closed", "reading", "open" or "failed"
    db         \* db.current: the records in the order of the file, or None

geoVars == <<lines, closed, text, reader, broke, buffer, rows, geoPc, db>>

NewReader == [state |-> "fieldStart", size |-> 0, endsCR |-> FALSE, blank |-> FALSE]

\* The lines, each ended by its newline, the last one perhaps not.
Newlines(file) == [DOMAIN file -> Newline]
LastLines(file, nl, end) ==                \* its last k lines
    LET last[k \in 0 .. Len(file)] ==
          IF k = 0 THEN <<>>
          ELSE LineText[file[Len(file) + 1 - k]]
                 \o (IF k > 1 \/ end THEN nl[Len(file) + 1 - k] ELSE <<>>) \o last[k - 1]
    IN  last
TextOf(file, nl, end) == LastLines(file, nl, end)[Len(file)]

GeoInit ==
    /\ lines = None /\ closed = TRUE /\ text = <<>>
    /\ reader = NewReader
    /\ broke = FALSE
    /\ buffer = <<>> /\ rows = <<>>
    /\ geoPc = "closed"
    /\ db = None

-----------------------------------------------------------------------------
(***************************************************************************)
(* csvLineReader.                                                          *)
(***************************************************************************)
ConsumeQuote(state, c) ==                  \* fault: "" ends the quotes
    IF c = "LF" /\ state # "quoted" THEN "fieldStart"
    ELSE CASE c = "q" -> IF state = "fieldStart" THEN "quoted" ELSE "unquoted"
           [] c = "," /\ state # "quoted" -> "fieldStart"
           [] OTHER -> state
Consume(state, c) ==
    IF c = "LF" /\ state # "quoted" THEN "fieldStart"
    ELSE CASE state = "fieldStart" ->
                (CASE c = "q" -> "quoted" [] c = "," -> state [] OTHER -> "unquoted")
           [] state = "unquoted" -> IF c = "," THEN "fieldStart" ELSE state
           [] state = "quoted" -> IF c = "q" THEN "afterQuote" ELSE state
           [] state = "afterQuote" ->
                (CASE c = "q" -> "quoted" [] c = "," -> "fieldStart"
                   [] c = "CR" -> state [] OTHER -> "unquoted")

Blank(r, c) ==
    /\ c = "LF" /\ r.state # "quoted"
    /\ r.size = 0 \/ (r.size = 1 /\ r.endsCR)

\* One byte in the loop of Read; sizes above 2 are not told apart.
ReadByte(r, c) ==
    IF r.blank THEN r
    ELSE IF Blank(r, c) THEN [r EXCEPT !.blank = TRUE]
    ELSE [state |-> Consume(r.state, c),
          size |-> IF c = "LF" THEN 0 ELSE IF r.size = 2 THEN 2 ELSE r.size + 1,
          endsCR |-> c = "CR",
          blank |-> FALSE]

After(r, s) ==
    LET after[n \in 0 .. Len(s)] == IF n = 0 THEN r ELSE ReadByte(after[n - 1], s[n])
    IN  after[Len(s)]

\* How much of s is handed on: what stands before a blank line's newline.
Given(r, s) ==
    LET cut == SelectInSeq([n \in DOMAIN s |-> After(r, First(s, n)).blank],
                           LAMBDA blank : blank)
    IN  IF cut = 0 THEN s ELSE First(s, cut - 1)

-----------------------------------------------------------------------------
(***************************************************************************)
(* encoding/csv, as loadFile uses it: rows end at a newline outside        *)
(* quotes, a newline is LF or CRLF, a blank line is skipped, anything out  *)
(* of form or without the header's number of fields is an error.           *)
(***************************************************************************)
EndsRow(n) ==
    /\ buffer[n] = "LF"
    /\ ~InQuotes(First(buffer, n))

RowEnd == LET ends == {n \in DOMAIN buffer : EndsRow(n)}
          IN  IF ends = {} THEN 0 ELSE CHOOSE n \in ends : \A k \in ends : n <= k

Ended == reader.blank \/ broke \/ text = <<>>

\* The line's kind, "skip" for a line csv passes over, "bad" for a malformed one.
KindOf(line) ==
    LET bare == IF line # <<>> /\ Last(line) = "CR" THEN Front(line) ELSE line
        kinds == {k \in DOMAIN LineText : LineText[k] = bare}
    IN  IF bare = <<>> THEN "skip" ELSE IF kinds = {} THEN "bad" ELSE CHOOSE k \in kinds : TRUE

-----------------------------------------------------------------------------
(***************************************************************************)
(* Open and loadFile.                                                      *)
(***************************************************************************)
geoData == <<lines, closed, rows, db>>

\* Whatever file is there.
GeoOpen ==
    /\ geoPc = "closed"
    /\ geoPc' = "reading"
    /\ lines' \in Files /\ closed' \in BOOLEAN
    /\ \E nl \in Newlines(lines') : text' = TextOf(lines', nl, closed')
    /\ UNCHANGED <<reader, broke, buffer, rows, db>>

\* No file, or the gzip header.
GeoOpenFails ==
    /\ geoPc = "closed"
    /\ geoPc' = "failed" /\ broke' = TRUE
    /\ UNCHANGED <<lines, closed, text, reader, buffer, rows, db>>

\* csv asks for more bytes when it has no whole row.
Read(n) ==
    /\ geoPc = "reading" /\ RowEnd = 0 /\ ~Ended
    /\ n <= Len(text)
    /\ LET s == First(text, n)
       IN  /\ buffer' = buffer \o Given(reader, s)
           /\ reader' = After(reader, s)
    /\ text' = SubSeq(text, n + 1, Len(text))
    /\ UNCHANGED <<geoData, broke, geoPc>>

Break ==
    /\ geoPc = "reading" /\ RowEnd = 0 /\ ~Ended
    /\ broke' = TRUE
    /\ UNCHANGED <<geoData, text, reader, buffer, geoPc>>

\* What the loader makes of a line: a row is kept when it is the header where
\* one is due, and a record where one is due.
Accepts(kind) == IF rows = <<>> THEN kind = "header" ELSE kind \in DOMAIN Record

TakeRow(line, rest) ==
    LET kind == KindOf(line)
    IN  /\ buffer' = rest
        /\ rows' = IF kind # "skip" /\ Accepts(kind) THEN Append(rows, kind) ELSE rows
        /\ geoPc' = IF kind = "skip" \/ Accepts(kind) THEN "reading" ELSE "failed"
        /\ UNCHANGED <<lines, closed, text, reader, broke, db>>

Row ==
    /\ geoPc = "reading" /\ RowEnd # 0
    /\ TakeRow(First(buffer, RowEnd - 1), SubSeq(buffer, RowEnd + 1, Len(buffer)))

LastRow ==
    /\ geoPc = "reading" /\ RowEnd = 0 /\ buffer # <<>>
    /\ text = <<>> /\ ~reader.blank /\ ~broke
    /\ TakeRow(buffer, <<>>)

\* An error of the stream: the reader's blank line, the disk's, gzip's.
StreamError ==
    /\ geoPc = "reading" /\ RowEnd = 0 /\ (reader.blank \/ broke)
    /\ geoPc' = "failed"
    /\ UNCHANGED <<lines, closed, text, reader, broke, buffer, rows, db>>

\* io.EOF: for the header it is an error, for a record the end of the file.
EndOfFile ==
    /\ geoPc = "reading" /\ buffer = <<>>
    /\ text = <<>> /\ ~reader.blank /\ ~broke
    /\ geoPc' = IF rows = <<>> THEN "failed" ELSE "open"
    /\ db' = IF rows = <<>> THEN None ELSE Tail(rows)
    /\ UNCHANGED <<lines, closed, text, reader, broke, buffer, rows>>

GeoNext ==
    \/ GeoOpen \/ GeoOpenFails
    \/ (\E n \in 1 .. ReadMax : Read(n)) \/ Break
    \/ Row \/ LastRow \/ StreamError \/ EndOfFile

GeoSpec == GeoInit /\ [][GeoNext]_geoVars

\* After Open nothing refers to the file any more (for modules that go on).
ForgetFile ==
    /\ geoPc \in {"open", "failed"}
    /\ lines' = None /\ closed' = TRUE
    /\ text' = <<>> /\ reader' = NewReader /\ buffer' = <<>> /\ rows' = <<>>
    /\ broke' = FALSE
    /\ UNCHANGED <<geoPc, db>>

-----------------------------------------------------------------------------
(***************************************************************************)
(* The database of a sequence of records, and the lookups.                 *)
(***************************************************************************)
GeoTrie(records) ==
    LET built[n \in 0 .. Len(records)] ==
          IF n = 0 THEN EmptyTrie
          ELSE Overwrite(built[n - 1], Record[records[n]].net, records[n])
    IN  built[Len(records)]

\* asnIdx: the first record of an AS, records without one left out.
AsnIdxLast(records) ==                     \* fault: the last record of an AS
    [a \in {Record[records[n]].asn : n \in DOMAIN records} \ {None} |->
        records[SelectLastInSeq(records, LAMBDA k : Record[k].asn = a)]]
AsnIdx(records) ==
    [a \in {Record[records[n]].asn : n \in DOMAIN records} \ {None} |->
        records[SelectInSeq(records, LAMBDA k : Record[k].asn = a)]]

Lookup(ip) == LET found == LongestPrefix(GeoTrie(db), ip)
              IN  IF found = <<>> THEN None ELSE Head(found)

LookupASNRecord(asn) == LET idx == AsnIdx(db)
                        IN  IF asn \in DOMAIN idx THEN idx[asn] ELSE None

-----------------------------------------------------------------------------
(***************************************************************************)
(* Properties.                                                             *)
(***************************************************************************)
Reader == [state : {"fieldStart", "unquoted", "quoted", "afterQuote"},
           size : 0 .. 2, endsCR : BOOLEAN, blank : BOOLEAN]

GeoTypeOK ==
    /\ lines \in Files \cup {None} /\ closed \in BOOLEAN
    /\ text \in Seq(Symbol) /\ buffer \in Seq(Symbol)
    /\ reader \in Reader
    /\ broke \in BOOLEAN
    /\ geoPc \in {"closed", "reading", "open", "failed"}
    /\ rows \in Seq({"header"} \cup DOMAIN Record)
    /\ rows # <<>> => Head(rows) = "header" /\ Tail(rows) \in Seq(DOMAIN Record)
    /\ db \in Seq(DOMAIN Record) \cup {None}
    /\ (db # None) <=> (geoPc = "open")

\* What a file should be: the header, then records, and no line that is blank
\* or not a record - but for what follows the last newline, if it is empty.
NoLine(n) == n = Len(lines) /\ ~closed /\ lines[n] \in {"blank", "cr"}
Sound ==
    /\ lines # <<>> /\ lines[1] = "header"
    /\ \A n \in 2 .. Len(lines) : lines[n] \in DOMAIN Record \/ NoLine(n)

\* A database has every record of a sound file, in its order, and there is none
\* of an unsound one, however the reads cut it up.  A sound file is refused only
\* if it cannot be read: a newline within quotes, blank lines there or a doubled
\* quote do not mislead csvLineReader.
AllOrNothing ==
    lines # None =>
        /\ geoPc = "open" =>
              Sound /\ db = Only(Tail(lines), DOMAIN Record)
        /\ geoPc = "failed" /\ ~broke => ~Sound

\* Strengthening: up to a line that is out of place, what csv holds and what is
\* left of the file are its last lines, the rows are the lines before them, and
\* csvLineReader is where it would be had it begun with csv's buffer; of a sound
\* file it reports no blank line.
InStep ==
    \E nl \in Newlines(lines), t \in 0 .. Len(lines) :
        /\ buffer \o text = LastLines(lines, nl, closed)[Len(lines) - t]
        /\ buffer \o text # <<>> => reader = After(NewReader, buffer)
        /\ \E j \in 0 .. t :
              /\ rows = First(lines, j)
              /\ j = t \/ (j = t - 1 /\ NoLine(t))
              /\ \A i \in 1 .. j : IF i = 1 THEN lines[i] = "header" ELSE lines[i] \in DOMAIN Record

ReadSoFar ==
    /\ geoPc = "closed" =>
          lines = None /\ reader = NewReader /\ buffer = <<>> /\ rows = <<>> /\ ~broke
    /\ geoPc = "reading" => lines # None
    /\ geoPc = "reading" /\ ~broke =>
          (Sound => ~reader.blank) /\ (~reader.blank => InStep)
    /\ AllOrNothing

\* The record of the longest network around the address, of several for one
\* network the last; of several for one AS the first.
GeoAnswers ==
    geoPc = "open" =>
        /\ \A ip \in Address :
              LET around == {n \in DOMAIN db : Covers(Record[db[n]].net, ip)}
                  Better(n, m) == LET p == Record[db[n]].net  q == Record[db[m]].net
                                  IN  Len(p) > Len(q) \/ (p = q /\ n >= m)
              IN  IF around = {} THEN Lookup(ip) = None
                  ELSE \E n \in around : Lookup(ip) = db[n] /\ \A m \in around : Better(n, m)
        /\ \A k \in DOMAIN Record : Record[k].asn # None =>
              LookupASNRecord(Record[k].asn) =
                  LET of == Only(db, {j \in DOMAIN Record : Record[j].asn = Record[k].asn})
                  IN  IF of = <<>> THEN None ELSE Head(of)
=============================================================================
