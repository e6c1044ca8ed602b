-------------------------------- MODULE Wire --------------------------------
(***************************************************************************)
(* The wire format of the QUIC streams between nodes (moq/varint.py,       *)
(* moq/namespace.py, moq/header.py, moq/framing.py): a header of           *)
(* variable-length integers and length-prefixed names, then the payload.   *)
(*                                                                         *)
(* A byte is a number below 256 and a name the sequence of its bytes: the  *)
(* names nodes use are ASCII, so that UTF-8 changes nothing.  TLC's        *)
(* integers end at 2^31, those of a varint at 2^62: values past 2^31 and   *)
(* the error raised past 2^62 are left out.                                *)
(***************************************************************************)
EXTENDS Integers, Sequences, SequencesExt, TLC

Byte == 0..255

-----------------------------------------------------------------------------
(* Integers. *)

VarintMax == 1 :> 63 @@ 2 :> 16383 @@ 4 :> 1073741823

\* The bytes a varint takes, and what its length adds to the first of them.
Width(v) == Min({w \in DOMAIN VarintMax : v <= VarintMax[w]} \cup {8})
LengthBits == 1 :> 0 @@ 2 :> 64 @@ 4 :> 128 @@ 8 :> 192

\* The n low bytes of v, the highest first.
BigEndian[v \in Nat, n \in Nat] ==
    IF n = 0 THEN <<>> ELSE Append(BigEndian[v \div 256, n - 1], v % 256)

\* Mutant: the limit of one byte is taken for 64, of which nothing is left for
\* the length.
EncodeVarintOffByOne(v) ==
    LET w == IF v = 64 THEN 1 ELSE Width(v)
    IN  [BigEndian[v, w] EXCEPT ![1] = @ + LengthBits[w]]

EncodeVarint(v) ==
    [BigEndian[v, Width(v)] EXCEPT ![1] = @ + LengthBits[Width(v)]]

EncodeString(s) == EncodeVarint(Len(s)) \o s

-----------------------------------------------------------------------------
(* Reading: a reader has read the first "at" bytes and has got the fields so  *)
(* far, or has failed (ValueError).                                         *)

Start == [ok |-> TRUE, at |-> 0, got |-> <<>>]
Fail == [ok |-> FALSE]

\* The reader after n more bytes with the value v.
Took(r, n, v) == [ok |-> TRUE, at |-> r.at + n, got |-> Append(r.got, v)]

ReadByte(data, r) ==
    IF r.at >= Len(data) THEN Fail ELSE Took(r, 1, data[r.at + 1])

ReadVarint(data, r) ==
    IF r.at >= Len(data)
    THEN Fail
    ELSE LET first == data[r.at + 1]
             w == CHOOSE n \in DOMAIN LengthBits :
                    LengthBits[n] = 64 * (first \div 64)
         IN  IF r.at + w > Len(data)
             THEN Fail
             ELSE Took(r, w, FoldLeft(LAMBDA v, b : 256 * v + b, first % 64,
                                      SubSeq(data, r.at + 2, r.at + w)))

ReadString(data, r) ==
    LET n == ReadVarint(data, r)
    IN  IF ~n.ok \/ n.at + Last(n.got) > Len(data)
        THEN Fail
        ELSE Took([n EXCEPT !.got = r.got], Last(n.got),
                  SubSeq(data, n.at + 1, n.at + Last(n.got)))

-----------------------------------------------------------------------------
(* Namespaces and headers. *)

MaxNamespaceParts == 32

EncodeNamespace(ns) ==
    EncodeVarint(Len(ns)) \o FlattenSeq([i \in DOMAIN ns |-> EncodeString(ns[i])])

ReadNamespace(data, r) ==
    LET n == ReadVarint(data, r)
        count == Last(n.got)
        parts == FoldLeft(LAMBDA q, i : IF q.ok THEN ReadString(data, q) ELSE Fail,
                          [n EXCEPT !.got = <<>>], [i \in 1..count |-> i])
    IN  IF ~n.ok \/ count > MaxNamespaceParts \/ ~parts.ok
        THEN Fail
        ELSE [parts EXCEPT !.got = Append(r.got, @)]

\* A namespace may also be written as a path, whose parts are joined by slashes;
\* a backslash stands before those, and backslashes, within a part.
Slash == 47
Backslash == 92

Escape(part) ==
    FlattenSeq([i \in DOMAIN part |->
                  IF part[i] \in {Slash, Backslash} THEN <<Backslash, part[i]>> ELSE <<part[i]>>])

\* from_tuple
FromTuple(parts) ==
    FoldLeft(LAMBDA path, i : path \o (IF i = 1 THEN <<>> ELSE <<Slash>>) \o Escape(parts[i]),
             <<>>, [i \in DOMAIN parts |-> i])

\* strip("/"), which knows of no escapes.
Trimmed(path) ==
    LET kept == {i \in DOMAIN path : path[i] # Slash}
    IN  IF kept = {} THEN <<>> ELSE SubSeq(path, Min(kept), Max(kept))

\* to_tuple: the parts that are complete, the one being read, and whether a
\* backslash was read before the next character.
ToTuple(path) ==
    LET take(r, text) == [r EXCEPT !.part = @ \o text, !.escape = FALSE]
        next(r, ch) ==
            CASE r.escape /\ ch \in {Slash, Backslash} -> take(r, <<ch>>)
              [] r.escape /\ ch \notin {Slash, Backslash} -> take(r, <<Backslash, ch>>)
              [] ~r.escape /\ ch = Backslash -> [r EXCEPT !.escape = TRUE]
              [] ~r.escape /\ ch = Slash ->
                    [parts |-> Append(r.parts, r.part), part |-> <<>>, escape |-> FALSE]
              [] OTHER -> take(r, <<ch>>)
        r == FoldLeft(next, [parts |-> <<>>, part |-> <<>>, escape |-> FALSE], Trimmed(path))
    IN  IF Trimmed(path) = <<>> THEN <<>>
        ELSE Append(r.parts, IF r.escape THEN Append(r.part, Backslash) ELSE r.part)

\* has_prefix, strip_prefix (only of a prefix it has), join
HasPrefix(ns, prefix) == IsPrefix(prefix, ns)
StripPrefix(ns, prefix) == SubSeq(ns, Len(prefix) + 1, Len(ns))
Join(ns, part) == ns \o (IF Slash \in ToSet(part) THEN ToTuple(part) ELSE <<part>>)

\* MoQHeader.encode
EncodeHeader(h) ==
    EncodeVarint(h.type) \o EncodeNamespace(h.namespace) \o EncodeString(h.track)
    \o EncodeVarint(h.group) \o EncodeVarint(h.object)
    \o <<h.priority % 256>> \o EncodeVarint(h.length)

\* The fields of a header, in order.
Layout == <<"varint", "namespace", "string", "varint", "varint", "byte", "varint">>

Read(kind, data, r) ==
    CASE ~r.ok -> Fail
      [] kind = "byte" -> ReadByte(data, r)
      [] kind = "varint" -> ReadVarint(data, r)
      [] kind = "string" -> ReadString(data, r)
      [] kind = "namespace" -> ReadNamespace(data, r)

\* MoQHeader.decode: the reader after all the fields, or Fail.
ReadHeader(data) ==
    FoldLeft(LAMBDA r, kind : Read(kind, data, r), Start, Layout)

HeaderOf(r) ==
    [type |-> r.got[1], namespace |-> r.got[2], track |-> r.got[3],
     group |-> r.got[4], object |-> r.got[5], priority |-> r.got[6],
     length |-> r.got[7]]

-----------------------------------------------------------------------------
(* Frames. *)

FrameMessage(h, payload) == EncodeHeader(h) \o payload

NoFrame == <<>>

\* The header and the payload, or NoFrame for data that is empty, malformed or
\* not complete.
ExtractFrame(data) ==
    LET r == ReadHeader(data)
    IN  IF ~r.ok \/ Len(data) < r.at + HeaderOf(r).length
        THEN NoFrame
        ELSE <<HeaderOf(r), SubSeq(data, r.at + 1, r.at + HeaderOf(r).length)>>
=============================================================================
