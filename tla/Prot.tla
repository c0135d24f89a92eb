----------------------------------- MODULE Prot -----------------------------------
(*******************************************************************************)
(* The protocol objects of src/src/prot.c at the two ends of a stream: records *)
(* of fields are written to the circular output buffer of the sender, cut into *)
(* pieces by the socket, gathered in the input buffer of the receiver, and     *)
(* decoded there in place.  A field is a sequence of characters.               *)
(*                                                                             *)
(* A record is put as a whole or cancelled: no caller writes to the socket in  *)
(* the middle of one, so that "count" and "wrokcnt" are the same number.       *)
(* Bytes of the circular buffer that are not to be written are Blank.          *)
(*                                                                             *)
(* An operator named Faulty... is not the code: it is a plausible mistake in    *)
(* the definition it precedes, kept to show which property catches it.         *)
(*******************************************************************************)
EXTENDS Integers, Sequences, SequencesExt, FiniteSetsExt

CONSTANTS
  Records,      (* what the sender puts: sequences of fields                   *)
  MaxBuffer,    (* PROT_MAX_BUFFER_LENGTH                                      *)
  MaxFields,    (* PROT_MAX_FIELDS                                             *)
  WireSize,     (* the place in the socket                                     *)
  Blank,        (* a byte of no meaning                                        *)
  NoFields      (* the receiver has decoded nothing: fields.count < 0          *)

FieldSep == " "
RecordSep == "\n"
Escape == "\\"
Special == {FieldSep, RecordSep, Escape}

ASSUME SizesAssumption == MaxBuffer \in Nat \ {0} /\ WireSize \in Nat \ {0} /\ MaxFields \in Nat \ {0}
(* A lone empty field is put as an empty record, which is skipped: records     *)
(* begin with a word of the protocol.                                          *)
Chars == UNION {UNION {Range(r[i]) : i \in DOMAIN r} : r \in Records}
ASSUME RecordsAssumption ==
  /\ \A r \in Records :
       r \in Seq(Seq(Chars)) /\ r # <<>> /\ Head(r) # <<>> /\ Len(r) <= MaxFields
  /\ NoFields \notin Records

VARIABLES
  ring,      (* outbuf.content                                                 *)
  start,     (* outbuf.pos                                                     *)
  count,     (* outbuf.count                                                   *)
  wire,      (* the bytes in the socket                                        *)
  input,     (* inbuf.content, up to its count                                 *)
  scanned,   (* inbuf.pos                                                      *)
  fields     (* the record decoded and not released                            *)

outbuf == <<ring, start, count>>
inbuf == <<input, scanned, fields>>
protVars == <<outbuf, wire, inbuf>>

ProtInit ==
  /\ ring = [i \in 0 .. MaxBuffer - 1 |-> Blank] /\ start = 0 /\ count = 0
  /\ wire = <<>>
  /\ input = <<>> /\ scanned = 0 /\ fields = NoFields

--------------------------------------------------------------------------------
(* buf_put_string: separators are escaped; an escape is when it ends the field *)
(* or comes before a character that is escaped or is an escape.                *)
IsEscaped(f, i) ==
  \/ f[i] \in {FieldSep, RecordSep}
  \/ f[i] = Escape /\ (i = Len(f) \/ f[i + 1] \in Special)

EscapedField(f) ==
  FlattenSeq([i \in DOMAIN f |-> IF IsEscaped(f, i) THEN <<Escape, f[i]>> ELSE <<f[i]>>])

(* prot_put_field for each field, then prot_put_end: the bytes of a record.    *)
Encoding ==
  [r \in Records |->
     EscapedField(r[1])
       \o FlattenSeq([i \in 1 .. Len(r) - 1 |-> <<FieldSep>> \o EscapedField(r[i + 1])])
       \o <<RecordSep>>]

(* Places are counted around the end of the buffer.                            *)
FaultyWrapped(i) == i % (MaxBuffer - 1)
Wrapped(i) == IF i >= MaxBuffer THEN i - MaxBuffer ELSE i
Distance(from, i) == IF i >= from THEN i - from ELSE i + MaxBuffer - from

(* prot_put: the bytes follow those that wait.                                 *)
Fits(r) == count + Len(Encoding[r]) <= MaxBuffer

Put(r) ==
  LET bytes == Encoding[r]
      first == Wrapped(start + count)
  IN  /\ Fits(r)
      /\ ring' = [i \in DOMAIN ring |->
                    IF Distance(first, i) < Len(bytes) THEN bytes[Distance(first, i) + 1] ELSE ring[i]]
      /\ count' = count + Len(bytes)
      /\ UNCHANGED <<start, wire, inbuf>>

(* The bytes to write, in the one or the two pieces of buf_write_length.       *)
Piece(i, n) == [j \in 1 .. n |-> ring[i + j - 1]]
Outgoing(n) ==
  IF start + n <= MaxBuffer THEN Piece(start, n)
  ELSE Piece(start, MaxBuffer - start) \o Piece(0, n - (MaxBuffer - start))

(* prot_write: as much as the socket takes; with no place there (EAGAIN) the   *)
(* sender waits.                                                               *)
Write ==
  LET n == Min({count, WireSize - Len(wire)})
  IN  /\ n > 0
      /\ wire' = wire \o Outgoing(n)
      /\ ring' = [i \in DOMAIN ring |-> IF Distance(start, i) < n THEN Blank ELSE ring[i]]
      /\ start' = Wrapped(start + n)
      /\ count' = count - n
      /\ UNCHANGED inbuf

--------------------------------------------------------------------------------
(* prot_read: all that is there and has place.  Both callers of it, wait_reply *)
(* and on_client_event, read when prot_get found no whole record.              *)
Read ==
  LET n == Min({Len(wire), MaxBuffer - Len(input)})
  IN  /\ fields = NoFields /\ scanned = Len(input)
      /\ n > 0
      /\ input' = input \o SubSeq(wire, 1, n)
      /\ wire' = SubSeq(wire, n + 1, Len(wire))
      /\ UNCHANGED <<outbuf, scanned, fields>>

(* buf_scan_end_record: the first end of record at or after "scanned" that is  *)
(* not escaped, as the number of escapes before it tells.                      *)
FaultyEscapesBefore(p) == IF p > 1 /\ input[p - 1] = Escape THEN 1 ELSE 0
EscapesBefore(p) ==
  Max({n \in 0 .. p - 1 : \A j \in p - n .. p - 1 : input[j] = Escape})
EndsRecord(p) == input[p] = RecordSep /\ EscapesBefore(p) % 2 = 0
Ends == {p \in scanned + 1 .. Len(input) : EndsRecord(p)}

(* buf_get_fields: the characters before the end of record, one by one.        *)
Bytes == Chars \cup Special \cup {Blank}
Reading == [done : Seq(Seq(Bytes)), field : Seq(Bytes), escape : BOOLEAN]
GetChar[got \in Reading \X Bytes] ==
  LET acc == got[1]
      c == got[2]
  IN  IF acc.escape
      THEN [done |-> acc.done, escape |-> FALSE,
            field |-> acc.field \o IF c \in Special THEN <<c>> ELSE <<Escape, c>>]
      ELSE IF c = FieldSep
      THEN [done |-> Append(acc.done, acc.field), field |-> <<>>, escape |-> FALSE]
      ELSE IF c = Escape THEN [acc EXCEPT !.escape = TRUE]
      ELSE [acc EXCEPT !.field = Append(@, c)]

GotFields(acc) ==
  IF acc.done = <<>> /\ acc.field = <<>> THEN <<>>
  ELSE SubSeq(Append(acc.done, acc.field), 1, Min({Len(acc.done) + 1, MaxFields}))

Decoded(bytes) ==
  LET read[i \in 0 .. Len(bytes)] ==
        IF i = 0 THEN [done |-> <<>>, field |-> <<>>, escape |-> FALSE]
        ELSE GetChar[<<read[i - 1], bytes[i]>>]
  IN  GotFields(read[Len(bytes)])

(* prot_get, when no record is held.  What was scanned is not scanned again.   *)
Get ==
  /\ fields = NoFields /\ scanned < Len(input)
  /\ \/ /\ Ends = {}
        /\ scanned' = Len(input) /\ UNCHANGED fields
     \/ \E p \in Ends :
          /\ \A q \in Ends : p <= q
          /\ scanned' = p
          /\ fields' = Decoded(SubSeq(input, 1, p - 1))
  /\ UNCHANGED <<outbuf, wire, input>>

(* prot_next, with buf_crop: the record is released.                           *)
NextRecord ==
  /\ fields # NoFields /\ fields' = NoFields
  /\ input' = SubSeq(input, scanned + 1, Len(input)) /\ scanned' = 0
  /\ UNCHANGED <<outbuf, wire>>

--------------------------------------------------------------------------------
(* The records on their way: the one that is held, then those whose encodings *)
(* follow each other in the bytes not decoded.                                 *)
Undecoded ==
  (IF fields = NoFields THEN input ELSE SubSeq(input, scanned + 1, Len(input)))
    \o wire \o Outgoing(count)

Encodings == {[record |-> r, bytes |-> Encoding[r]] : r \in Records}
RecordsOf[bytes \in Seq(Bytes)] ==
  IF \E e \in Encodings : IsPrefix(e.bytes, bytes)
  THEN LET e == CHOOSE e \in Encodings : IsPrefix(e.bytes, bytes)
       IN  <<e.record>> \o RecordsOf[SubSeq(bytes, Len(e.bytes) + 1, Len(bytes))]
  ELSE <<>>

InTransit == (IF fields = NoFields THEN <<>> ELSE <<fields>>) \o RecordsOf[Undecoded]

(* The stream delivers what is put, each record once, whole and in order.      *)
Fifo == INSTANCE RecordFifo WITH transit <- InTransit
ImplementsFifo == Fifo!Spec
================================================================================
