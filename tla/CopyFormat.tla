----------------------------- MODULE CopyFormat -----------------------------
(***************************************************************************)
(* What COPY TO writes and COPY FROM reads (copy.go, copy_binary.go), and  *)
(* the text of a record (eval_ext.go, composite.go).  A text is a sequence *)
(* of characters, each a name ("bs" is the backslash, "bar" a delimiter    *)
(* given with DELIMITER); a field is a text or NULL.                       *)
(***************************************************************************)
EXTENDS Values

CONSTANTS
    Group,     \* decimal digits in a digit of a binary numeric (4 in the code)
    ByteSize,  \* the values of a byte (256 in the code)
    MaxDays,   \* the days and the microseconds that a time.Duration can hold (292
    MaxMicros  \* years in the code), before and after the year 2000

ASSUME CopyAssumption ==
    /\ {Group, ByteSize, MaxDays, MaxMicros} \subseteq Nat \ {0}
    /\ ByteSize % 2 = 0

Concat(s, F(_)) == FlattenSeq([i \in DOMAIN s |-> F(s[i])])

Separated(s, sep) == Concat([i \in DOMAIN s |-> IF i = 1 THEN s[i] ELSE <<sep>> \o s[i]], LAMBDA x : x)

RECURSIVE Split(_, _)
Split(s, sep) ==
    LET I == {i \in DOMAIN s : s[i] = sep}
    IN  IF I = {} THEN <<s>>
        ELSE <<SubSeq(s, 1, Min(I) - 1)>> \o Split(SubSeq(s, Min(I) + 1, Len(s)), sep)

-----------------------------------------------------------------------------
(* The text format.                                                        *)

\* Variant: the backslash itself is not escaped.
EscapeNoBackslash(s) ==
    Concat(s, LAMBDA c : CASE c = "tab" -> <<"bs", "t">>
                           [] c = "nl" -> <<"bs", "n">>
                           [] c = "cr" -> <<"bs", "r">>
                           [] c \notin {"tab", "nl", "cr"} -> <<c>>)

\* escapeCopyText; the delimiter is not among the characters it escapes.
Escape(s) ==
    Concat(s, LAMBDA c : CASE c = "bs" -> <<"bs", "bs">>
                           [] c = "tab" -> <<"bs", "t">>
                           [] c = "nl" -> <<"bs", "n">>
                           [] c = "cr" -> <<"bs", "r">>
                           [] c \notin {"bs", "tab", "nl", "cr"} -> <<c>>)

\* unescapeCopyText: left to right; a backslash before another character stays.
RECURSIVE Unescape(_)
Unescape(s) ==
    IF s = <<>> THEN <<>>
    ELSE IF Len(s) >= 2 /\ s[1] = "bs" /\ s[2] \in {"t", "n", "r", "bs"}
    THEN <<CASE s[2] = "t" -> "tab" [] s[2] = "n" -> "nl" [] s[2] = "r" -> "cr" [] s[2] = "bs" -> "bs">>
         \o Unescape(SubSeq(s, 3, Len(s)))
    ELSE <<s[1]>> \o Unescape(Tail(s))

\* formatCopyText.
FormatText(rows, delim) ==
    Concat(rows, LAMBDA row :
        Separated([i \in DOMAIN row |-> IF row[i] = NULL THEN <<"bs", "N">> ELSE Escape(row[i])], delim)
        \o <<"nl">>)

\* parseCopyText: empty lines are skipped and the end marker ends the data.
ParseText(data, delim) ==
    LET lines == Split(data, "nl")
        ends == {i \in DOMAIN lines : lines[i] = <<"bs", "dot">>}
        upTo == SubSeq(lines, 1, IF ends = {} THEN Len(lines) ELSE Min(ends) - 1)
        Row(line) == LET fields == Split(line, delim)
                     IN  [i \in DOMAIN fields |-> IF fields[i] = <<"bs", "N">> THEN NULL
                                                  ELSE Unescape(fields[i])]
        kept == SelectSeq(upTo, LAMBDA line : line # <<>>)
    IN  [i \in DOMAIN kept |-> Row(kept[i])]

\* What the text format loses: a row that is an empty line, a text with the delimiter.
TextLoses(rows, delim) ==
    \E i \in DOMAIN rows :
        \/ rows[i] = <<<<>>>>
        \/ delim # "tab" /\ \E j \in DOMAIN rows[i] : rows[i][j] # NULL /\ delim \in ToSet(rows[i][j])

-----------------------------------------------------------------------------
(* CSV.  Go's encoding/csv quotes what it must and reads it back, except   *)
(* that the record of one empty field is written as a blank line, and a    *)
(* blank line is no record, and that its reader ends a line at CR LF as at *)
(* LF, between quotes too, where it leaves the LF alone.                   *)

BeforeLF(s, i) == i < Len(s) /\ s[i] = "cr" /\ s[i + 1] = "nl"

CSVReadBack(records) ==
    LET Field(s) == FlattenSeq([i \in DOMAIN s |-> IF BeforeLF(s, i) THEN <<>> ELSE <<s[i]>>])
        kept == SelectSeq(records, LAMBDA r : r # <<<<>>>>)
    IN  [i \in DOMAIN kept |-> [j \in DOMAIN kept[i] |-> Field(kept[i][j])]]

\* formatCopyCSV, parseCopyCSV: NULL and the empty text are both the empty field.
CSVRoundTrip(rows, header) ==
    LET recs == [i \in DOMAIN rows |-> [j \in DOMAIN rows[i] |-> IF rows[i][j] = NULL THEN <<>> ELSE rows[i][j]]]
        back == CSVReadBack((IF header THEN <<<<<<"x">>>>>> ELSE <<>>) \o recs)
        body == IF header THEN Tail(back) ELSE back
    IN  [i \in DOMAIN body |-> [j \in DOMAIN body[i] |-> IF body[i][j] = <<>> THEN NULL ELSE body[i][j]]]

\* What CSV loses: a row that is a blank line, the empty text, the CR of a CR LF.
CSVLoses(rows) ==
    \E i \in DOMAIN rows :
        \/ rows[i] = <<NULL>>
        \/ \E j \in DOMAIN rows[i] :
              /\ rows[i][j] # NULL
              /\ rows[i][j] = <<>> \/ \E k \in DOMAIN rows[i][j] : BeforeLF(rows[i][j], k)

-----------------------------------------------------------------------------
(* The bytes of a field of a type.  A number is itself and a bool its     *)
(* text.  The text of a date, a timestamp, a float, a UUID or a bytea is  *)
(* [is, canonical]: what it says (a number of days, of microseconds or of  *)
(* the float, or bytes) and whether it says it in the spelling in which    *)
(* the decoder writes it; or [raw], its bytes, when it is not understood.  *)

Width(type) == CASE type = "int2" -> 2 [] type \in {"int4", "oid", "date"} -> 4
                 [] type \in {"int8", "float", "timestamp"} -> 8 [] type = "uuid" -> 16

Clip(n, lo, hi) == Max({lo, Min({n, hi})})

\* Big-endian two's complement; a number that is too wide loses its high bytes.
EncodeInt(k, n) == [i \in 1 .. k |-> ((n % ByteSize^k) \div ByteSize^(k - i)) % ByteSize]
DecodeUint(b) == MapThenSumSet(LAMBDA i : b[i] * ByteSize^(Len(b) - i), DOMAIN b)
DecodeInt(b) == IF b[1] >= ByteSize \div 2 THEN DecodeUint(b) - ByteSize^Len(b) ELSE DecodeUint(b)

Largest(k) == ByteSize^k \div 2 - 1

Raw(v) == "raw" \in DOMAIN v
Canonical(x) == [is |-> x, canonical |-> TRUE]

\* encodeCopyBinaryField.  ParseInt and ParseUint saturate; time.Duration saturates; a
\* float that is not understood is 0, another text that is not is sent as it is.
EncodeField(type, v) ==
    CASE type \in {"int2", "int4", "int8"} -> EncodeInt(Width(type), Clip(v, -Largest(8) - 1, Largest(8)))
      [] type = "oid" -> EncodeInt(4, Clip(v, 0, ByteSize^4 - 1))
      [] type = "bool" -> <<IF v \in {"t", "true", "1", "T"} THEN 1 ELSE 0>>
      [] type = "char" -> IF v = <<>> THEN <<0>> ELSE <<v[1]>>
      [] type = "jsonb" -> <<1>> \o v
      [] type = "float" -> EncodeInt(8, IF Raw(v) THEN 0 ELSE v.is)
      [] type = "date" -> IF Raw(v) THEN v.raw ELSE EncodeInt(4, Clip(v.is, -MaxDays, MaxDays))
      [] type = "timestamp" -> IF Raw(v) THEN v.raw ELSE EncodeInt(8, Clip(v.is, -MaxMicros, MaxMicros))
      [] type \in {"uuid", "bytea"} -> IF Raw(v) THEN v.raw ELSE v.is
      [] type = "text" -> v

\* decodeCopyBinaryField.
DecodeField(type, b) ==
    CASE type \in {"int2", "int4", "int8", "oid", "date", "timestamp", "float", "uuid"} /\ Len(b) # Width(type) -> Error
      [] type \in {"int2", "int4", "int8"} /\ Len(b) = Width(type) -> DecodeInt(b)
      [] type = "oid" /\ Len(b) = 4 -> DecodeUint(b)
      [] type \in {"date", "timestamp", "float"} /\ Len(b) = Width(type) -> Canonical(DecodeInt(b))
      [] type = "uuid" /\ Len(b) = 16 -> Canonical(b)
      [] type = "bytea" -> Canonical(b)
      [] type = "bool" -> IF Len(b) = 1 THEN (IF b[1] # 0 THEN "t" ELSE "f") ELSE Error
      [] type = "jsonb" -> IF b = <<>> \/ b[1] # 1 THEN Error ELSE Tail(b)
      [] type \in {"char", "text"} -> b

\* What they lose: a number too wide for its type, all but one character of a "char",
\* a text that is not understood (infinity, a bytea in the escape format), a spelling
\* (a time zone, digits below the microsecond, a float that is not the shortest one), a
\* time more than 292 years from 2000.
FieldLoses(type, v) ==
    /\ v # NULL
    /\ \/ type \in {"int2", "int4", "int8"} /\ v \notin -Largest(Width(type)) - 1 .. Largest(Width(type))
       \/ type = "oid" /\ v \notin 0 .. ByteSize^4 - 1
       \/ type = "bool" /\ v \notin {"t", "f"}
       \/ type = "char" /\ Len(v) # 1
       \/ type \in {"date", "timestamp", "float", "uuid", "bytea"} /\ (Raw(v) \/ ~v.canonical)
       \/ type = "date" /\ v.is \notin -MaxDays .. MaxDays
       \/ type = "timestamp" /\ v.is \notin -MaxMicros .. MaxMicros

-----------------------------------------------------------------------------
(* The binary format: a stream of a header, for each row the number of its *)
(* fields, for each field its length or -1 and its bytes, and a trailer -1.*)

Header == <<"signature", 0, 0>>

\* formatCopyBinary.
FormatBinary(rows, types) ==
    LET Field(type, v) == IF v = NULL THEN <<-1>>
                          ELSE LET b == EncodeField(type, v) IN <<Len(b)>> \o b
        Row(row) == <<Len(row)>> \o FlattenSeq([i \in DOMAIN row |-> Field(types[i], row[i])])
    IN  Header \o Concat(rows, Row) \o <<-1>>

\* parseCopyBinary: the fields of a row from position p, then the rows.
RECURSIVE Fields(_, _, _)
Fields(data, p, types) ==
    IF types = <<>> THEN [fields |-> <<>>, next |-> p]
    ELSE IF p > Len(data) \/ (data[p] > 0 /\ p + data[p] > Len(data))
    THEN [fields |-> Error, next |-> p]
    ELSE LET len == IF data[p] = -1 THEN 0 ELSE data[p]
             f == IF data[p] = -1 THEN NULL ELSE DecodeField(types[1], SubSeq(data, p + 1, p + len))
             rest == Fields(data, p + 1 + len, Tail(types))
         IN  IF f = Error \/ rest.fields = Error THEN [rest EXCEPT !.fields = Error]
             ELSE [rest EXCEPT !.fields = <<f>> \o @]

RECURSIVE RowsFrom(_, _, _)
RowsFrom(data, p, types) ==
    IF p > Len(data) THEN Error
    ELSE IF data[p] = -1 THEN <<>>
    ELSE LET r == Fields(data, p + 1, types)
             rest == RowsFrom(data, r.next, types)
         IN  IF r.fields = Error \/ rest = Error THEN Error ELSE <<r.fields>> \o rest

ParseBinary(data, types) ==
    IF Len(data) < Len(Header) THEN Error ELSE RowsFrom(data, Len(Header) + 1, types)

-----------------------------------------------------------------------------
(* encodeCopyNumeric, decodeCopyNumeric: a decimal [neg, int, frac] of     *)
(* digits, to digits of base 10^Group with the weight of the first, and    *)
(* back to the integer value of all its decimal digits.  [not] is NaN or a *)
(* text that is no decimal (Infinity, 1e5), which is sent as it is: its    *)
(* first two bytes are read as a number of digits that it does not have.   *)

Zeros(n) == [i \in 1 .. n |-> 0]
RECURSIVE Decimal(_)
Decimal(ds) == IF ds = <<>> THEN 0 ELSE 10 * Decimal(Front(ds)) + ds[Len(ds)]

PadTo(n) == (Group - (n % Group)) % Group

\* The groups without leading and trailing zero groups.
RECURSIVE DropZeros(_)
DropZeros(s) == IF s # <<>> /\ s[1] = 0 THEN DropZeros(Tail(s)) ELSE s

EncodeNumeric(d) ==
    LET ip == IF d.int = <<>> THEN <<0>> ELSE d.int
        all == Zeros(PadTo(Len(ip))) \o ip \o d.frac \o Zeros(PadTo(Len(d.frac)))
        groups == [i \in 1 .. (Len(all) \div Group) |-> Decimal(SubSeq(all, (i - 1) * Group + 1, i * Group))]
        led == DropZeros(groups)
        digits == Reverse(DropZeros(Reverse(led)))
        weight == (Len(ip) + PadTo(Len(ip))) \div Group - 1 - (Len(groups) - Len(led))
    IN  IF "not" \in DOMAIN d THEN d
        ELSE
        [digits |-> digits, weight |-> IF digits = <<>> THEN 0 ELSE weight,
         neg |-> d.neg, dscale |-> Len(d.frac)]

\* The value times 10^dscale, rounded as FloatString would: the digits that dscale
\* leaves out are zeros.
DecodeNumeric(b) ==
    LET Power(e) == Group * e + b.dscale
        Term(i) == IF Power(b.weight - (i - 1)) >= 0
                   THEN b.digits[i] * 10^Power(b.weight - (i - 1))
                   ELSE b.digits[i] \div 10^(-Power(b.weight - (i - 1)))
        n == MapThenSumSet(Term, DOMAIN b.digits)
    IN  IF "not" \in DOMAIN b THEN (IF b.not = "NaN" THEN b ELSE Error)
        ELSE [n |-> IF b.neg THEN -n ELSE n, dscale |-> b.dscale]

-----------------------------------------------------------------------------
(* encodeRowText, decodeRecordText.                                        *)

Special == {"open", "close", "comma", "quote"}

EncodeRow(row) ==
    <<"open">>
    \o Separated([i \in DOMAIN row |->
           IF row[i] = NULL THEN <<>>
           ELSE IF row[i] = <<>> \/ ToSet(row[i]) \cap Special # {}
           THEN <<"quote">> \o Concat(row[i], LAMBDA c : IF c = "quote" THEN <<c, c>> ELSE <<c>>) \o <<"quote">>
           ELSE row[i]], "comma")
    \o <<"close">>

\* The scan of the body: what is read of the current element, whether it was quoted
\* and whether a quote is open.
RecElem(text, quoted) == IF text = <<>> /\ ~quoted THEN NULL ELSE text

RECURSIVE DecodeBody(_, _, _, _)
DecodeBody(s, text, quoted, inQuote) ==
    IF s = <<>> THEN <<RecElem(text, quoted)>>
    ELSE IF inQuote /\ s[1] = "quote"
    THEN IF Len(s) >= 2 /\ s[2] = "quote"
         THEN DecodeBody(SubSeq(s, 3, Len(s)), Append(text, "quote"), quoted, TRUE)
         ELSE DecodeBody(Tail(s), text, quoted, FALSE)
    ELSE IF ~inQuote /\ s[1] = "quote" THEN DecodeBody(Tail(s), text, TRUE, TRUE)
    ELSE IF ~inQuote /\ s[1] = "comma" THEN <<RecElem(text, quoted)>> \o DecodeBody(Tail(s), <<>>, FALSE, FALSE)
    ELSE DecodeBody(Tail(s), Append(text, s[1]), quoted, inQuote)

DecodeRecord(s) ==
    LET body == SubSeq(s, 2, Len(s) - 1)
    IN  IF body = <<>> THEN <<>> ELSE DecodeBody(body, <<>>, FALSE, FALSE)
=============================================================================
