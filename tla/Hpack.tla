-------------------------------- MODULE Hpack --------------------------------
(***************************************************************************)
(* HPACK (core/src/hpack.rs) as operators: the dynamic table and its       *)
(* eviction, the encoder's choice of representation, and the decoder.      *)
(*                                                                         *)
(* A field is [name, value, sensitive]; a table entry is [name, value].    *)
(* A block is the sequence of its representations, each a record [rep,     *)
(* index, name, value] in which an index of 0 says that the name is given  *)
(* literally.  Octets, integers and Huffman coding are left out: `Cost` is *)
(* all that is seen of a field's length.                                   *)
(***************************************************************************)
EXTENDS Integers, Sequences, SequencesExt

CONSTANTS
    Static,     (* The static table: a sequence of entries.                  *)
    Cost(_),    (* Octets an entry counts for: name + value + 32.            *)
    MaxList     (* SETTINGS_MAX_HEADER_LIST_SIZE this decoder advertised.    *)

Entry(f) == [name |-> f.name, value |-> f.value]

-----------------------------------------------------------------------------
(* The dynamic table, newest entry first *)

NewTable(max) == [entries |-> <<>>, max |-> max]

TableSize(entries) == FoldLeft(LAMBDA n, e : n + Cost(e), 0, entries)

\* The oldest entries go until what is left fits.
EvictTo(entries, target) ==
    LET fits == {k \in 0..Len(entries) : TableSize(SubSeq(entries, 1, k)) <= target}
    IN  SubSeq(entries, 1, CHOOSE k \in fits : \A j \in fits : j <= k)

\* An entry larger than the table empties it and is not stored.
Insert(t, e) ==
    [t EXCEPT !.entries =
        IF Cost(e) > t.max THEN <<>> ELSE <<e>> \o EvictTo(@, t.max - Cost(e))]

SetMaxSize(t, max) == [entries |-> EvictTo(t.entries, max), max |-> max]

\* Static and dynamic entries share one index space, from 1.
IndexSpace(t) == Static \o t.entries

-----------------------------------------------------------------------------
(* The encoder: a table and the size update it has not yet announced *)

NoUpdate == -1

NewEncoder(max) == [table |-> NewTable(max), pending |-> NoUpdate]

SetMaxTableSize(enc, max) ==
    IF max = enc.table.max
    THEN enc
    ELSE [table |-> SetMaxSize(enc.table, max), pending |-> max]

Lowest(S) == IF S = {} THEN 0 ELSE CHOOSE i \in S : \A j \in S : i <= j

FullMatch(t, e) == Lowest({i \in DOMAIN IndexSpace(t) : IndexSpace(t)[i] = e})
NameMatch(t, e) == Lowest({i \in DOMAIN IndexSpace(t) : IndexSpace(t)[i].name = e.name})

Indexed(i)            == [rep |-> "indexed", index |-> i, name |-> "", value |-> ""]
Literal(rep, i, e)    == [rep |-> rep, index |-> i, name |-> IF i = 0 THEN e.name ELSE "",
                          value |-> e.value]
SizeUpdate(max)       == [rep |-> "size", index |-> max, name |-> "", value |-> ""]

\* Mutants: the encoder stores what it told the peer never to index; or it
\* adopts a new size without telling.
EncodeOneStoresSecrets(s, f) ==
    LET e == Entry(f)
        t == s.table
    IN  IF FullMatch(t, e) # 0
        THEN [s EXCEPT !.block = Append(@, Indexed(FullMatch(t, e)))]
        ELSE [table |-> Insert(t, e),
              block |-> Append(s.block, Literal(IF f.sensitive THEN "never" ELSE "incremental",
                                                NameMatch(t, e), e))]
AnnouncementForgotten(enc) == <<>>

\* A sensitive field is never indexed and never stored; any other is indexed
\* on a full match, and otherwise sent as a literal that both sides store.
EncodeOne(s, f) ==
    LET t == s.table
        e == Entry(f)
    IN  IF f.sensitive
        THEN [s EXCEPT !.block = Append(@, Literal("never", NameMatch(t, e), e))]
        ELSE IF FullMatch(t, e) # 0
        THEN [s EXCEPT !.block = Append(@, Indexed(FullMatch(t, e)))]
        ELSE [table |-> Insert(t, e),
              block |-> Append(s.block, Literal("incremental", NameMatch(t, e), e))]

Announcement(enc) == IF enc.pending = NoUpdate THEN <<>> ELSE <<SizeUpdate(enc.pending)>>

\* [enc, block]: the encoder after HpackEncoder::encode, and what it wrote.
Encode(enc, fields) ==
    LET s == FoldLeft(LAMBDA a, f : EncodeOne(a, f),
                      [table |-> enc.table, block |-> Announcement(enc)], fields)
    IN  [enc |-> [table |-> s.table, pending |-> NoUpdate], block |-> s.block]

-----------------------------------------------------------------------------
(* The decoder *)

\* Mutant: the first octet past the limit ends the decoding.
DecodeStepStops(s, table, e, secret) ==
    IF s.result = "too_large" THEN s
    ELSE [s EXCEPT !.table = IF s.size + Cost(e) > MaxList THEN @ ELSE table,
                   !.size = @ + Cost(e), !.updates = FALSE,
                   !.result = IF s.size + Cost(e) > MaxList THEN "too_large" ELSE @,
                   !.fields = IF s.size + Cost(e) > MaxList THEN <<>>
                              ELSE Append(@, [name |-> e.name, value |-> e.value,
                                              sensitive |-> secret])]

\* Decoding goes on after the list is too long, so that the table still
\* follows the peer's; only a compression error stops it.
DecodeStep(s, table, e, secret) ==
    LET size == s.size + Cost(e)
    IN  [s EXCEPT !.table = table, !.size = size, !.updates = FALSE,
                  !.result = IF size > MaxList THEN "too_large" ELSE @,
                  !.fields = IF size > MaxList THEN <<>>
                             ELSE Append(@, [name |-> e.name, value |-> e.value,
                                             sensitive |-> secret])]

Broken(s) == [s EXCEPT !.result = "compression"]

DecodeOne(s, r) ==
    LET space == IndexSpace(s.table)
        known == r.index \in DOMAIN space
        e     == [name |-> IF r.index = 0 THEN r.name ELSE space[r.index].name,
                  value |-> r.value]
    IN  CASE s.result = "compression" -> s
          [] r.rep = "size" ->
                IF s.updates /\ r.index <= s.capacity
                THEN [s EXCEPT !.table = SetMaxSize(@, r.index)]
                ELSE Broken(s)
          [] r.rep = "indexed" ->
                IF known THEN DecodeStep(s, s.table, space[r.index], FALSE) ELSE Broken(s)
          [] r.rep # "indexed" /\ r.index # 0 /\ ~known -> Broken(s)
          [] r.rep = "incremental" /\ (r.index = 0 \/ known) ->
                DecodeStep(s, Insert(s.table, e), e, FALSE)
          [] r.rep \in {"never", "plain"} /\ (r.index = 0 \/ known) ->
                DecodeStep(s, s.table, e, r.rep = "never")

\* [table, fields, result, ...] after HpackDecoder::decode of a whole block by a
\* decoder that advertised `capacity`; the result is "ok", "too_large" or
\* "compression".
Decode(table, block, capacity) ==
    FoldLeft(LAMBDA s, r : DecodeOne(s, r),
             [table |-> table, capacity |-> capacity, fields |-> <<>>, size |-> 0,
              updates |-> TRUE, result |-> "ok"],
             block)

=============================================================================
