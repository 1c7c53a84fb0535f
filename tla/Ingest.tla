------------------------------- MODULE Ingest -------------------------------
(***************************************************************************)
(* One CSV file by the two paths it can take into a run: read by           *)
(* DataHandler (src/data_handler.cpp), or converted by                     *)
(* data/csv_to_proto.py and read by ProtoDataHandler                       *)
(* (src/proto_data_handler.cpp).                                           *)
(*                                                                         *)
(* Of the columns high, low and volume, which are found and parsed as      *)
(* close is, there is none; an hour stands for the seconds of a timestamp. *)
(***************************************************************************)
EXTENDS Calendar, FiniteSets, Sequences

CONSTANTS
    Files,      \* the files: [header : Seq(Column), rows : Seq(Seq(Field))]
    Base,       \* values of a varint digit (128)
    TickerSize, \* bytes a record's ticker takes
    ValueSize   \* bytes a nonzero number takes

Kind == {"date", "open", "close"}

\* The names a column may have; the ones both programs know, by kind.
Alias == [date |-> "date", timestamp |-> "date", open |-> "open",
          close |-> "close", adj_close |-> "close"]
Column == DOMAIN Alias \cup {"other"}

\* A field: a number, a date with its time of day and the offset of its zone
\* (n being its year), or text that no number starts.
Field == [sort : {"number", "instant", "text"}, n : Nat,
          civil : [month : Nat, day : Nat, hour : Nat, offset : Int]]

ASSUME IngestAssumption ==
    /\ Files \subseteq [header : Seq(Column), rows : Seq(Seq(Field))]
    /\ Base \in Nat \ {0, 1}
    /\ TickerSize \in Nat \ {0} /\ ValueSize \in Nat

VARIABLES
    file,
    csv,        \* DataHandler: [line, bars, ended], line the lines it has read
    conv,       \* the converter: [row, status]
    records,    \* history: the bars it has written
    pb,         \* the bytes of the .pb file
    proto       \* ProtoDataHandler: [pos, bars, ended], pos the bytes it has read

vars == <<file, csv, conv, records, pb, proto>>

Init ==
    /\ file \in Files
    /\ csv = [line |-> 0, bars |-> <<>>, ended |-> FALSE]
    /\ conv = [row |-> 0, status |-> "converting"]
    /\ records = <<>>
    /\ pb = <<>>
    /\ proto = [pos |-> 0, bars |-> <<>>, ended |-> FALSE]

Named(kind) == { i \in DOMAIN file.header :
                   file.header[i] \in DOMAIN Alias /\ Alias[file.header[i]] = kind }

-----------------------------------------------------------------------------
(* DataHandler *)

\* parse_header(): the last of the columns of a kind, or its usual place.
CsvColumn(kind) ==
    LET usual == [date |-> 1, open |-> 2, close |-> 3]
    IN  IF Named(kind) = {} THEN usual[kind] ELSE Max(Named(kind))

\* from_chars(): the number a field starts with, 0 without one.
Leading(field) == IF field.sort = "text" THEN 0 ELSE field.n

Epoch(f) == 24 * DaysFromCivil(f.n, f.civil.month, f.civil.day) + f.civil.hour - f.civil.offset

\* Faulty variant: a time before the epoch is not left out.
TimestampWraps(f) == IF f.sort = "instant" THEN Epoch(f) ELSE Leading(f)

CsvTimestamp(f) ==
    IF f.sort = "number" THEN f.n
    ELSE IF f.sort = "instant" /\ Epoch(f) >= 0 THEN Epoch(f) ELSE 0

\* parse_csv_line(); an empty line is one empty field.
CsvBar(row) ==
    LET n == IF row = <<>> THEN 1 ELSE Len(row)
        full == \A kind \in Kind : CsvColumn(kind) <= n
        At(kind) == IF row = <<>> THEN 0 ELSE Leading(row[CsvColumn(kind)])
    IN  [timestamp |-> IF CsvColumn("date") <= Len(row)
                         THEN CsvTimestamp(row[CsvColumn("date")]) ELSE 0,
         open |-> IF full THEN At("open") ELSE 0,
         close |-> IF full THEN At("close") ELSE 0]

StreamCsv ==
    /\ ~csv.ended
    /\ csv' = IF csv.line < Len(file.rows)
                THEN [csv EXCEPT !.line = @ + 1,
                                 !.bars = Append(@, CsvBar(file.rows[csv.line + 1]))]
                ELSE [csv EXCEPT !.ended = TRUE]
    /\ UNCHANGED <<file, conv, records, pb, proto>>

-----------------------------------------------------------------------------
(* csv_to_proto.py *)

\* find_col() takes the first column of a kind, and the reader the last one of
\* that name; 0 without one.
PyColumn(kind) ==
    IF Named(kind) = {} THEN 0
    ELSE LET name == file.header[Min(Named(kind))]
         IN  Max({ i \in DOMAIN file.header : file.header[i] = name })

HasField(row, kind) == PyColumn(kind) \in DOMAIN row
Parses(row, kind) == HasField(row, kind) /\ row[PyColumn(kind)].sort = "number"

\* A blank line is skipped by the reader, a row that raises ValueError or
\* TypeError by the converter.
Skips(row) ==
    \/ row = <<>>
    \/ /\ PyColumn("open") # 0
       /\ \/ ~Parses(row, "open")
          \/ PyColumn("close") # 0 /\ ~Parses(row, "close")
          \/ PyColumn("close") = 0 /\ Len(row) > Len(file.header)

\* A column that is not there raises KeyError, and a date that is not there
\* AttributeError; neither is caught.
Raises(row) ==
    /\ ~Skips(row)
    /\ \/ PyColumn("open") # 0 /\ PyColumn("close") = 0
       \/ PyColumn("date") # 0 /\ ~HasField(row, "date")

\* Faulty variant: the close is taken from the wrong column.
PyBarTwiceOpen(row) ==
    [timestamp |-> IF Parses(row, "date") THEN row[PyColumn("date")].n ELSE 0,
     open |-> IF PyColumn("open") = 0 THEN 0 ELSE row[PyColumn("open")].n,
     close |-> IF PyColumn("open") = 0 THEN 0 ELSE row[PyColumn("open")].n]

PyBar(row) ==
    [timestamp |-> IF Parses(row, "date") THEN row[PyColumn("date")].n ELSE 0,
     open |-> IF PyColumn("open") = 0 THEN 0 ELSE row[PyColumn("open")].n,
     close |-> IF PyColumn("open") = 0 THEN 0 ELSE row[PyColumn("close")].n]

\* The bytes of a serialized bar, zeros being left out; what they are matters
\* only to who takes them for a length.
Size(bar) == TickerSize + ValueSize * Cardinality({ f \in DOMAIN bar : bar[f] # 0 })
Body(k, bar) == [i \in 1 .. Size(bar) |-> [v |-> Base, bar |-> k, at |-> i]]

\* The powers of the base.
Power[k \in Nat] == IF k = 0 THEN 1 ELSE Base * Power[k - 1]

\* _EncodeVarint(): the digits from the lowest, all but the last flagged.
Digits(n) == Min({ k \in 1 .. n + 1 : n < Power[k] })
Varint(n) ==
    [i \in 1 .. Digits(n) |->
       [v |-> ((n \div Power[i - 1]) % Base) + (IF i < Digits(n) THEN Base ELSE 0),
        bar |-> 0, at |-> 0]]

Convert ==
    /\ conv.status = "converting" /\ conv.row < Len(file.rows)
    /\ LET row == file.rows[conv.row + 1]
           bar == PyBar(row)
       IN  IF Skips(row) \/ Raises(row)
             THEN /\ conv' = [row |-> conv.row + 1,
                              status |-> IF Raises(row) THEN "failed" ELSE "converting"]
                  /\ UNCHANGED <<records, pb>>
             ELSE /\ records' = Append(records, bar)
                  /\ pb' = pb \o Varint(Size(bar)) \o Body(Len(records'), bar)
                  /\ conv' = [conv EXCEPT !.row = @ + 1]
    /\ UNCHANGED <<file, csv, proto>>

Converted ==
    /\ conv.status = "converting" /\ conv.row = Len(file.rows)
    /\ conv' = [conv EXCEPT !.status = "done"]
    /\ UNCHANGED <<file, csv, records, pb, proto>>

\* The converter is killed, or its file copied in part: any end may be lost.
Cut ==
    /\ conv.status # "cut" /\ proto.pos = 0 /\ ~proto.ended
    /\ \E n \in 0 .. Len(pb) : pb' = SubSeq(pb, 1, n)
    /\ conv' = [conv EXCEPT !.status = "cut"]
    /\ UNCHANGED <<file, csv, records, proto>>

-----------------------------------------------------------------------------
(* ProtoDataHandler *)

\* Where the varint after pos ends, 0 if the file ends first.
VarintEnd(pos) ==
    LET last == { i \in pos + 1 .. Len(pb) : pb[i].v < Base }
    IN  IF last = {} THEN 0 ELSE Min(last)

\* Faulty variant: the digits are not shifted.
RecordLengthUnshifted(pos, end) ==
    SumFunction([i \in pos + 1 .. end |-> pb[i].v % Base])

RecordLength(pos, end) ==
    SumFunction([i \in pos + 1 .. end |-> (pb[i].v % Base) * Power[i - pos - 1]])

\* The bars that bytes are the serialization of.
ParsedFrom(bytes) == { k \in DOMAIN records : bytes = Body(k, records[k]) }

StreamProto ==
    /\ conv.status # "converting" /\ ~proto.ended
    /\ LET end == VarintEnd(proto.pos)
           last == end + RecordLength(proto.pos, end)
           bytes == SubSeq(pb, end + 1, last)
       IN  IF end = 0 \/ last > Len(pb) \/ ParsedFrom(bytes) = {}
             THEN proto' = [proto EXCEPT !.ended = TRUE]
             ELSE \E k \in ParsedFrom(bytes) :
                    proto' = [proto EXCEPT !.pos = last, !.bars = Append(@, records[k])]
    /\ UNCHANGED <<file, csv, conv, records, pb>>

AllRead == csv.ended /\ proto.ended /\ UNCHANGED vars

Next == StreamCsv \/ Convert \/ Converted \/ Cut \/ StreamProto \/ AllRead

Spec == Init /\ [][Next]_vars

-----------------------------------------------------------------------------
(* Properties *)

IsBar(bar) == bar.timestamp \in Nat /\ bar.open \in Nat /\ bar.close \in Nat

TypeOK ==
    /\ file \in Files
    /\ csv.line \in 0 .. Len(file.rows) /\ csv.ended \in BOOLEAN
    /\ Len(csv.bars) = csv.line /\ \A i \in DOMAIN csv.bars : IsBar(csv.bars[i])
    /\ conv.row \in 0 .. Len(file.rows)
    /\ conv.status \in {"converting", "done", "failed", "cut"}
    /\ Len(records) <= conv.row /\ \A i \in DOMAIN records : IsBar(records[i])
    /\ \A i \in DOMAIN pb : pb[i].v \in 0 .. 2 * Base - 1
    /\ proto.pos \in 0 .. Len(pb) /\ proto.ended \in BOOLEAN
    /\ \A i \in DOMAIN proto.bars : IsBar(proto.bars[i])

\* The records whose every byte is in the file.
Recoverable ==
    LET Bytes == [k \in DOMAIN records |-> Digits(Size(records[k])) + Size(records[k])]
        Whole == { k \in DOMAIN records : SumFunctionOnSet(Bytes, 1 .. k) <= Len(pb) }
    IN  SubSeq(records, 1, Cardinality(Whole))

\* Wherever a .pb file ends, ProtoDataHandler delivers its whole records, each
\* once and in order, and then ends: no length is read from inside a record.
Source == INSTANCE Feed WITH source <- Recoverable, delivered <- proto.bars, ended <- proto.ended

ImplementsFeed == Source!Spec

SaneHeader == \A kind \in Kind : Cardinality(Named(kind)) = 1

WellFormed(row) ==
    HasField(row, "date") /\ Parses(row, "open") /\ Parses(row, "close")

\* Of a file whose header names every column once, the .pb file has the bars of
\* the well-formed rows, in order, as DataHandler delivers them but for dates
\* that are no numbers.  (A number is a field both programs read alike; of
\* spellings that only one of float() and from_chars() takes, nothing is said.)
PathsAgree ==
    SaneHeader /\ csv.ended =>
      LET rows == file.rows
          Kept == { i \in DOMAIN rows : WellFormed(rows[i]) }
          Place(i) == Cardinality({ j \in Kept : j <= i })
          Bar(i) == IF Parses(rows[i], "date") THEN csv.bars[i]
                    ELSE [csv.bars[i] EXCEPT !.timestamp = 0]
      IN  /\ \A i \in Kept : Place(i) <= Len(proto.bars) => proto.bars[Place(i)] = Bar(i)
          /\ Len(proto.bars) <= Cardinality(Kept)
          /\ proto.ended /\ conv.status = "done" => Len(proto.bars) = Cardinality(Kept)

\* The timestamp of a row with a date of the calendar counts the hours since
\* 1970, every leap day included, to the instant in its zone; before that it is 0.
TimestampsAreEpochs ==
    SaneHeader =>
      \A i \in DOMAIN csv.bars :
        LET row == file.rows[i]
            f == row[PyColumn("date")]
            hours == 24 * DaysCounted(f.n, f.civil.month, f.civil.day) + f.civil.hour - f.civil.offset
        IN  HasField(row, "date") /\ f.sort = "instant" /\ IsDate(f.n, f.civil.month, f.civil.day) =>
              csv.bars[i].timestamp = IF hours >= 0 THEN hours ELSE 0

\* "skip malformed rows, same as C++ DataHandler" (data/csv_to_proto.py:75).
SkipsTheSameRows ==
    csv.ended /\ proto.ended /\ conv.status = "done" => Len(proto.bars) = Len(csv.bars)

=============================================================================
